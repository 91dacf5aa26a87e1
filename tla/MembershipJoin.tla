--------------------------- MODULE MembershipJoin ---------------------------
(***************************************************************************)
(* How a node joins the other proxies and leaves them                      *)
(* (src/proxy/shard_manager.go): Start creates the memberlist and starts   *)
(* the join loop, which retries until a Join succeeds; when a node is gone *)
(* the memberlist calls NotifyLeave; when the lifetime ends, Stop stops    *)
(* the loop and leaves.                                                    *)
(*                                                                         *)
(* A step is one critical section of mutex, or a part of a call of the     *)
(* memberlist, which is external: hashicorp/memberlist v0.5.1, the version *)
(* in src/go.mod.  Its deadNode calls NotifyLeave with nodeLock held, its  *)
(* NumMembers and the state exchange of a Join take nodeLock, and its      *)
(* Leave calls deadNode for the node itself.  So NumMembers never returns  *)
(* to NotifyLeave, nor Leave to Stop, and the code behind these two calls  *)
(* (lines 388 to 401 and 1266 to 1272) is not reached.  Addresses to join  *)
(* are configured.                                                         *)
(***************************************************************************)
EXTENDS Integers, Lifetime

VARIABLES
  start,               \* where Start is
  started,
  ml,                  \* sm.ml: "nil" or "created"
  joinLoopRunning,
  joinLoop,            \* where retryJoinCluster is
  stopJoinRetry,       \* the channel is closed
  stop,                \* where Stop is
  mlMutex,             \* who holds it: "none", "loop", "stop" or, to read, "leave"
  leave,               \* where NotifyLeave is
  joined               \* external: the memberlist has other nodes

joinVars   == <<joinLoopRunning, joinLoop>>
startVars  == <<start, started, ml>>
stopVars   == <<stopJoinRetry, stop>>
memberVars == <<startVars, joinVars, stopVars, mlMutex, leave, joined>>

MembershipInit ==
  /\ start = "new"
  /\ started = FALSE
  /\ ml = "nil"
  /\ joinLoopRunning = FALSE
  /\ joinLoop = "none"
  /\ stopJoinRetry = FALSE
  /\ stop = "none"
  /\ mlMutex = "none"
  /\ leave = "idle"
  /\ joined = FALSE

(* joinWg is at zero.                                                      *)
joinWgZero == joinLoop \in {"none", "flag"}

(* External: the goroutine that is in NotifyLeave holds nodeLock.          *)
nodeLockFree == leave = "idle"

(* startJoinLoop                                                           *)
startJoinLoop ==
  IF joinLoopRunning THEN UNCHANGED joinVars
  ELSE joinLoopRunning' = TRUE /\ joinLoop' = "read"
----------------------------------------------------------------------------
(* Start, initializeMemberlist: there is none configured, or Create fails, *)
(* or it succeeds ...                                                      *)
CreateMemberlist ==
  /\ start = "new"
  /\ \/ start' = "done" /\ started' = TRUE
     \/ start' \in {"failed", "created"} /\ UNCHANGED started
  /\ UNCHANGED <<ml, joinVars, stopVars, mlMutex, leave, joined>>

(* ... and is assigned ...                                                 *)
SetMemberlist ==
  /\ start = "created"
  /\ start' = "join"
  /\ ml' = "created"
  /\ UNCHANGED <<started, joinVars, stopVars, mlMutex, leave, joined>>

(* ... and the join loop is started.                                       *)
StartJoining ==
  /\ start = "join"
  /\ start' = "done"
  /\ started' = TRUE
  /\ startJoinLoop
  /\ UNCHANGED <<ml, stopVars, mlMutex, leave, joined>>
----------------------------------------------------------------------------
(* retryJoinCluster: is there a memberlist?                                *)
ReadMemberlist ==
  /\ joinLoop = "read"
  /\ joinLoop' = IF ml = "nil" THEN "return" ELSE "lock"
  /\ UNCHANGED <<startVars, joinLoopRunning, stopVars, mlMutex, leave, joined>>

LockForJoin ==
  /\ joinLoop = "lock"
  /\ mlMutex = "none"
  /\ mlMutex' = "loop"
  /\ joinLoop' = "dial"
  /\ UNCHANGED <<startVars, joinLoopRunning, stopVars, leave, joined>>

JoinFails == mlMutex' = "none" /\ joinLoop' = "wait"

(* Mutant: a Join that fails is the last.                                  *)
DialAndGiveUp ==
  /\ joinLoop = "dial"
  /\ \/ joinLoop' = "exchange" /\ UNCHANGED mlMutex
     \/ mlMutex' = "none" /\ joinLoop' = "return"
  /\ UNCHANGED <<startVars, joinLoopRunning, stopVars, leave, joined>>

(* Join: none of the addresses can be dialled, or one can ...              *)
Dial ==
  /\ joinLoop = "dial"
  /\ \/ joinLoop' = "exchange" /\ UNCHANGED mlMutex
     \/ JoinFails
  /\ UNCHANGED <<startVars, joinLoopRunning, stopVars, leave, joined>>

(* ... and, under nodeLock, the nodes exchange their states.               *)
Exchange ==
  /\ joinLoop = "exchange"
  /\ nodeLockFree
  /\ \/ mlMutex' = "none" /\ joinLoop' = "return" /\ joined' = TRUE
     \/ JoinFails /\ UNCHANGED joined
  /\ UNCHANGED <<startVars, joinLoopRunning, stopVars, leave>>

(* Mutant: the backoff does not look at the stop signal.                   *)
WaitAndRetry ==
  /\ joinLoop = "wait"
  /\ joinLoop' = "read"
  /\ UNCHANGED <<startVars, joinLoopRunning, stopVars, mlMutex, leave, joined>>

(* The backoff of two seconds or more, or the stop signal, if it is there  *)
(* by then.                                                                *)
WaitToRetry ==
  /\ joinLoop = "wait"
  /\ joinLoop' = IF stopJoinRetry THEN "return" ELSE "read"
  /\ UNCHANGED <<startVars, joinLoopRunning, stopVars, mlMutex, leave, joined>>

(* Deferred: joinWg.Done, and then the flag.                               *)
JoinWgDone ==
  /\ joinLoop = "return"
  /\ joinLoop' = "flag"
  /\ UNCHANGED <<startVars, joinLoopRunning, stopVars, mlMutex, leave, joined>>

ClearJoinLoopRunning ==
  /\ joinLoop = "flag"
  /\ joinLoop' = "none"
  /\ joinLoopRunning' = FALSE
  /\ UNCHANGED <<startVars, stopVars, mlMutex, leave, joined>>
----------------------------------------------------------------------------
(* External: another node joins, or one is gone, the last or not, and      *)
(* deadNode calls NotifyLeave, which looks at ml without a lock ...        *)
PeerJoins ==
  /\ start = "created" \/ ml = "created"
  /\ nodeLockFree
  /\ ~joined
  /\ joined' = TRUE
  /\ UNCHANGED <<startVars, joinVars, stopVars, mlMutex, leave>>

PeerLost ==
  /\ joined
  /\ nodeLockFree
  /\ joined' \in BOOLEAN
  /\ leave' = IF ml = "nil" THEN "idle" ELSE "lock"
  /\ UNCHANGED <<startVars, joinVars, stopVars, mlMutex>>

(* ... takes mlMutex to count the members, and waits for nodeLock, which   *)
(* deadNode will not release before it returns.                            *)
LockForCount ==
  /\ leave = "lock"
  /\ mlMutex = "none"
  /\ mlMutex' = "leave"
  /\ leave' = "count"
  /\ UNCHANGED <<startVars, joinVars, stopVars, joined>>
----------------------------------------------------------------------------
(* Stop, the AfterFunc of the lifetime, and shutdownMemberlist: is there a *)
(* memberlist?  Then no more retries ...                                   *)
StopJoinRetry ==
  /\ ~lifetime
  /\ started
  /\ stop = "none"
  /\ IF ml = "nil"
     THEN stop' = "done" /\ started' = FALSE /\ UNCHANGED stopJoinRetry
     ELSE stop' = "drain" /\ stopJoinRetry' = TRUE /\ UNCHANGED started
  /\ UNCHANGED <<start, ml, joinVars, mlMutex, leave, joined>>

(* ... joinWg.Wait and mlMutex.Lock ...                                    *)
WaitForLoop ==
  /\ stop = "drain"
  /\ joinWgZero
  /\ stop' = "lock"
  /\ UNCHANGED <<startVars, joinVars, stopJoinRetry, mlMutex, leave, joined>>

LockForLeave ==
  /\ stop = "lock"
  /\ mlMutex = "none"
  /\ mlMutex' = "stop"
  /\ stop' = "leave"
  /\ UNCHANGED <<startVars, joinVars, stopJoinRetry, leave, joined>>

(* ... and Leave, whose deadNode calls NotifyLeave, which waits for the    *)
(* mlMutex that Stop holds.                                                *)
Leave ==
  /\ stop = "leave"
  /\ nodeLockFree
  /\ stop' = "left"
  /\ leave' = "lock"
  /\ UNCHANGED <<startVars, joinVars, stopJoinRetry, mlMutex, joined>>
----------------------------------------------------------------------------
JoinLoop ==
  \/ ReadMemberlist \/ LockForJoin \/ Dial \/ Exchange \/ WaitToRetry
  \/ JoinWgDone \/ ClearJoinLoopRunning

Stop == StopJoinRetry \/ WaitForLoop \/ LockForLeave \/ Leave

MembershipNext ==
  \/ CreateMemberlist \/ SetMemberlist \/ StartJoining \/ JoinLoop
  \/ PeerJoins \/ PeerLost \/ LockForCount \/ Stop

MembershipSpec == MembershipInit /\ [][MembershipNext]_memberVars

(* The loop, NotifyLeave and Stop run, and a Join that need not wait for a *)
(* lock returns when the addresses have been tried.                        *)
MembershipFairness ==
  /\ WF_memberVars(JoinLoop)
  /\ WF_memberVars(LockForCount)
  /\ WF_memberVars(Stop)
----------------------------------------------------------------------------
(* retryJoinCluster "attempts to join the cluster infinitely": a node that *)
(* runs and is alone is at it, however often it failed, as long as no node *)
(* was lost.                                                               *)
TriesToJoin ==
  started /\ ml = "created" /\ stop = "none" /\ ~joined /\ leave = "idle" =>
    joinLoop \in {"read", "lock", "dial", "exchange", "wait"}

(* shutdownMemberlist's "Stop any ongoing join retry": once the lifetime   *)
(* has ended Stop gets past the loop and to Leave, even if no Join ever    *)
(* succeeds, as long as no node was lost before.                           *)
RetriesStop ==
  []<>(~lifetime /\ started => stop = "left" \/ leave # "idle")

(* NotifyLeave's "If we're now isolated and have join addresses            *)
(* configured, restart join loop": a running node that is alone and has no *)
(* loop gets one, or another node.                                         *)
RestartsJoinLoop ==
  []<>(start = "done" /\ ml = "created" /\ lifetime => joined \/ joinLoop # "none")

(* shutdownMemberlist's "Leave the cluster gracefully": once the lifetime  *)
(* has ended Stop finishes.                                                *)
StopCompletes ==
  []<>(~lifetime /\ started => stop = "done")
=============================================================================
