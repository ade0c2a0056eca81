--------------------------- MODULE MCStudioTurns ---------------------------
(* Small instances of StudioTurns for TLC.                                 *)
EXTENDS StudioTurns, TLC

\* For the run with one tab.
TurnSymmetry == Permutations(Turns)

\* Turn ids and tabs are interchangeable; used by the runs without liveness.
Symmetry == Permutations(Turns) \cup Permutations(Tabs)
=============================================================================
