------------------------------- MODULE MuxPool -------------------------------
(***************************************************************************)
(* What the mux manager promises to the rest of the proxy: a set of mux    *)
(* sessions, never more than were configured, each under an ID that no     *)
(* other session had before, and none opened once the manager has shut     *)
(* down.                                                                   *)
(***************************************************************************)
EXTENDS Naturals, FiniteSets

CONSTANT MuxCount      \* the configured number of sessions

VARIABLES
  pool,                \* the IDs of the open sessions
  lastId,              \* the ID given last
  shut                 \* the manager has shut down

poolVars == <<pool, lastId, shut>>

PoolInit ==
  /\ pool = {}
  /\ lastId = 0
  /\ shut = FALSE

Open ==
  /\ ~shut
  /\ Cardinality(pool) < MuxCount
  /\ lastId' = lastId + 1
  /\ pool' = pool \cup {lastId + 1}
  /\ UNCHANGED shut

Close(i) ==
  /\ pool' = pool \ {i}
  /\ UNCHANGED <<lastId, shut>>

Shut ==
  /\ shut' = TRUE
  /\ UNCHANGED <<pool, lastId>>

PoolNext == Open \/ Shut \/ \E i \in pool : Close(i)

PoolSpec == PoolInit /\ [][PoolNext]_poolVars
=============================================================================
