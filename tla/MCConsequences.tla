--------------------------- MODULE MCConsequences ---------------------------
(* A model-checking instance of Consequences *)
EXTENDS Consequences, TLC

CONSTANTS a, b, c, d

\* d rests on c, c on b, and b on a: one layer further than the taint of a may go
Chain == (a :> {b}) @@ (b :> {c}) @@ (c :> {d}) @@ (d :> {})

Symmetry == Permutations(Process)
=============================================================================
