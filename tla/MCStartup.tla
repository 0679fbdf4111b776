------------------------------ MODULE MCStartup ------------------------------
(* Startup for TLC: a single run with room for every line, so that the echo   *)
(* of a command may land anywhere, and two runs on different ports, with the  *)
(* least channel that need not lose a line.                                   *)
EXTENDS Startup

MCLoads == {[ports |-> <<1>>,    dirs |-> 2, cap |-> 5, relay |-> TRUE],
            [ports |-> <<1, 2>>, dirs |-> 1, cap |-> 2, relay |-> FALSE]}
=============================================================================
