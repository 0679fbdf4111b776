----------------------------- MODULE MCConsole -----------------------------
(* One request whose command prints much, and two that print little. *)
EXTENDS Console

MCLoads == {[reqs |-> {1}, lines |-> 3], [reqs |-> {1, 2}, lines |-> 1]}
=============================================================================
