--------------------------- MODULE MCCloverPull ----------------------------
(* A Clover order and its row, one signature of lines, one lane that pulls. *)
EXTENDS CloverPull

CONSTANTS a, k1

MCPrice == [s \in Sigs |-> 1]
=============================================================================
