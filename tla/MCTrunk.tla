------------------------------- MODULE MCTrunk -------------------------------
(* Instances of Trunk for TLC. *)
EXTENDS Trunk

CONSTANTS a1, a2, s1, srv, v1

\* Two sources that compete for one address; the second meets the server's
\* address first.
MCSources == {a1, a2}
MCSource  == [s \in Sessions |-> IF s = s1 THEN a1 ELSE a2]
MCProbe   == [a \in MCSources |-> IF a = a1 THEN <<v1>> ELSE <<srv, v1>>]

\* Two sessions without traffic, and one session with three frames.
MCLoads ==
  { [sessions |-> Sessions, frames |-> 0], [sessions |-> {s1}, frames |-> 3] }
=============================================================================
