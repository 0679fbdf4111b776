------------------------------- MODULE MCOrch -------------------------------
(* Orch on small instances. *)
EXTENDS Orch

AllOps == {"launch", "start", "stop", "restart", "remove"}
=============================================================================
