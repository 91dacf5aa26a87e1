------------------------- MODULE MCRoutingLiveness -------------------------
(* The liveness of StreamRouting, for TLC.  A send that finds a channel    *)
(* full drops the watermark for good; a history variable notes it.         *)
EXTENDS StreamRouting

VARIABLE missed      \* source -> targets that missed its last watermark

(* The watermark of s was for t, and t's channel was full.                 *)
Missed(s, t) ==
  /\ ~HasRoom(t)
  /\ t \in watermarkTo[s] \ watermarkTo'[s] \/ s \in notifying[t] \ notifying'[t]

(* The next watermark, or the next stream of t, makes good for it.         *)
KInit == Init /\ missed = [s \in Sources |-> {}]
KNext ==
  /\ Next
  /\ missed' = [s \in Sources |->
       IF emptyBatches'[s] # emptyBatches[s] THEN {}
       ELSE registered' \cap (missed[s] \cup {t \in Targets : Missed(s, t)})]
KSpec == KInit /\ [][KNext]_<<vars, missed>> /\ Fairness
----------------------------------------------------------------------------
(* What the failover test waits for ("remoteInfo.AckedTaskId >=            *)
(* shard.MaxReplicationTaskId"): a high watermark the source announced in  *)
(* an empty batch is eventually acked back to it, also when the target's   *)
(* stream opens late, or ends and opens again; unless the channel of a     *)
(* target was full when it came ("Failed to send high watermark to target  *)
(* shard (channel full)"), and no watermark came since.                    *)
WatermarkAcked ==
  \A s \in Sources :
    []<>(lastWatermark[s] > 0 => lastSentMin[s] >= lastWatermark[s] \/ missed[s] # {})
=============================================================================
