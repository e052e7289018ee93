------------------------- MODULE MCCloverPayments -------------------------
(* Model values and the orders of the payments for CloverPayments. *)
EXTENDS CloverPayments, TLC

CONSTANTS m1, m2, s1, s2, o1, e1, e2

\* One order: payments of different orders meet only in the cursor.
MCOrderOf == [p \in Mcm \cup Staff |-> o1]
\* All on one order, so any two of a kind are alike.
MCSymmetry == Permutations(Execs) \cup Permutations(Mcm) \cup Permutations(Staff)
=============================================================================
