--------------------------- MODULE ProxyIDWindow ---------------------------
(***************************************************************************)
(* What a proxyStreamSender expects of its idRing, with no buffer in it: a *)
(* set of entries [id, shard, task], each mapping a proxy task ID back to  *)
(* the source shard and source task it stands for.                         *)
(*                                                                         *)
(* Two goroutines use it under the sender's mutex.  The send loop adds     *)
(* entries under consecutive IDs.  The ack loop reads the entries an ack   *)
(* covers, releases the mutex to forward the acks, and only then takes the *)
(* mutex again to drop those entries.                                      *)
(***************************************************************************)
EXTENDS Integers

CONSTANTS Shards, Tasks

VARIABLES
  window,               \* the entries not yet dropped
  nextProxyTaskID,      \* the last proxy ID handed out
  covered               \* the entries the ack loop has read and not dropped

vars == <<window, nextProxyTaskID, covered>>

Init ==
  /\ nextProxyTaskID = 0
  /\ window = {}
  /\ covered = {}

(* The send loop maps the next ID.                                         *)
Extend(shard, task) ==
  /\ nextProxyTaskID' = nextProxyTaskID + 1
  /\ window' = window \cup
       {[id |-> nextProxyTaskID + 1, shard |-> shard, task |-> task]}
  /\ UNCHANGED covered

(* The ack loop reads the entries up to a watermark, leaving them there.   *)
Cover(watermark) ==
  /\ covered = {}
  /\ covered' = {e \in window : e.id <= watermark}
  /\ UNCHANGED <<window, nextProxyTaskID>>

(* The ack loop drops exactly the entries whose acks it has forwarded.     *)
Drop ==
  /\ window' = window \ covered
  /\ covered' = {}
  /\ UNCHANGED nextProxyTaskID

Next ==
  \/ \E shard \in Shards, task \in Tasks : Extend(shard, task)
  \/ \E watermark \in 0..(nextProxyTaskID + 1) : Cover(watermark)
  \/ Drop

Spec == Init /\ [][Next]_vars
=============================================================================
