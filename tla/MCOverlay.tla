------------------------------ MODULE MCOverlay ------------------------------
(* Two spellings of one file and a file in a directory. *)
EXTENDS Overlay

MCFiles    == {[dir |-> ".", base |-> "a"], [dir |-> ".", base |-> "A"],
               [dir |-> "maps", base |-> "m"]}
MCLower(f) == IF f.base = "A" THEN [f EXCEPT !.base = "a"] ELSE f
=============================================================================
