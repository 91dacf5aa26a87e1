------------------------------ MODULE Lifetime ------------------------------
(***************************************************************************)
(* The context a cluster connection is started with.  Its parts watch it,  *)
(* or register a function to be called when it ends, and stop.             *)
(***************************************************************************)

VARIABLE lifetime        \* FALSE once the context is cancelled

LifetimeInit == lifetime = TRUE

EndLifetime == lifetime /\ lifetime' = FALSE
=============================================================================
