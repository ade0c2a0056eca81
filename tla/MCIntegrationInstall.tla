----------------------- MODULE MCIntegrationInstall -----------------------
(* A small instance of IntegrationInstall for TLC: two packages that share  *)
(* an environment, a skill tree and a server.                               *)
EXTENDS IntegrationInstall, TLC

CONSTANTS core, full, p, q, g, m

MCBase == [c \in {p, q, g, m} |-> core]
MCProfile == (core :> {p, q}) @@ (full :> {p, q, g, m})
MCDerived == {{q}}
MCOrder == (p :> 1) @@ (q :> 2) @@ (g :> 3) @@ (m :> 4)

\* Versions are interchangeable: the code asks only whether two differ.
Symmetry == Permutations(Versions)
=============================================================================
