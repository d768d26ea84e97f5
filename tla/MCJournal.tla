----------------------------- MODULE MCJournal -----------------------------
(* Model-checking instances of Journal *)
EXTENDS Journal, TLC

CONSTANTS n1, n2, n3

\* A child with two generations above it
Pedigree == {<<n1, n2>>, <<n2, n3>>}
\* Two values of a row are as good as two others
Symmetry == Permutations(Version)
=============================================================================
