---------------------------- MODULE MCJobEngine ----------------------------
(* Instances of JobEngine for TLC. *)
EXTENDS JobEngine, TLC

CONSTANTS a1, a2, b1, wa, wb

\* Two executions of one process and one of another.
MCSlots    == {a1, a2, b1}
MCWorkerOf == (a1 :> wa @@ a2 :> wa @@ b1 :> wb)

\* One execution in each of two processes.
MCSlotsPair    == {a1, b1}
MCWorkerOfPair == (a1 :> wa @@ b1 :> wb)

\* Every process has every handler, or that of step 2 is missing in wb.
MCAllRegistered == [w \in Workers |-> Steps]
MCLaggingDeploy == (wa :> Steps @@ wb :> {1})

\* The two slots of one process are interchangeable (safety runs only).
MCSymmetry == Permutations({a1, a2})

\* Fault budgets.
MCNoFaults     == [f \in Faults |-> 0]
MCOneOfEach    == [f \in Faults |-> 1]
MCOneOverrun   == [f \in Faults |-> IF f = "overrun" THEN 1 ELSE 0]
MCLostComplete == [f \in Faults |-> IF f = "lostComplete" THEN 1 ELSE 0]
MCContract     == [f \in Faults |-> IF f \in {"overrun", "lostComplete"} THEN 0 ELSE 1]
=============================================================================
