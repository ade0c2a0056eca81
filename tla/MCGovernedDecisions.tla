------------------------ MODULE MCGovernedDecisions ------------------------
(* Small instances of GovernedDecisions for TLC.                           *)
EXTENDS GovernedDecisions, TLC

CONSTANTS a1, a2, g1

\* Two artifacts of one slug.
OneSlug == [a \in {a1, a2} |-> g1]

Symmetry == Permutations(Artifacts) \cup Permutations(Revisions)
=============================================================================
