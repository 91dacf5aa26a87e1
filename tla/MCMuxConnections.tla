-------------------------- MODULE MCMuxConnections --------------------------
(* The instance of MuxConnections for TLC.                                 *)
EXTENDS MuxConnections
=============================================================================
