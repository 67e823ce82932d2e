---------------------------- MODULE MCTransitive ----------------------------
(* Transitive for TLC: every graph over three objects in up to two clusters. *)
EXTENDS Transitive, TLC

CONSTANTS o1, o2, o3, ca, cb

\* Objects that are not roots are interchangeable, and so are clusters.
Symmetry == Permutations(Objects \ Roots) \cup Permutations(Clusters)
=============================================================================
