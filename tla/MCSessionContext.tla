-------------------------- MODULE MCSessionContext --------------------------
(* SessionContext on small instances, with token counts scaled down. *)
EXTENDS SessionContext
=============================================================================
