--------------------------- MODULE MCEventStream ---------------------------
(* EventStream on a small instance: one page watching one Run. *)
EXTENDS EventStream
=============================================================================
