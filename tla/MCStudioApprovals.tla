------------------------- MODULE MCStudioApprovals -------------------------
(* Small instances of StudioApprovals for TLC.                             *)
EXTENDS StudioApprovals, TLC

\* Turns, threads and approval ids are interchangeable; not for liveness.
Symmetry == Permutations(Turns) \cup Permutations(Threads) \cup Permutations(ApprovalIds)
=============================================================================
