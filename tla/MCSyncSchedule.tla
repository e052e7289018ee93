--------------------------- MODULE MCSyncSchedule ---------------------------
(* Instances of SyncSchedule for TLC. *)
EXTENDS SyncSchedule, TLC

\* The job slots and the callers are interchangeable (safety runs only).
MCSyncSymmetry == Permutations(Runs) \cup Permutations(Callers)
=============================================================================
