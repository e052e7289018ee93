-------------------------- MODULE MCCloverCatalog --------------------------
(* A product and a modifier, and a merchant who 86es one and brings it back. *)
EXTENDS CloverCatalog, TLC

CONSTANTS p1, m1

MCTable == (p1 :> "product") @@ (m1 :> "modifier")
=============================================================================
