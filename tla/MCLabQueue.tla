----------------------------- MODULE MCLabQueue -----------------------------
(* Model-checking instances of LabQueue *)
EXTENDS LabQueue, TLC

\* Callers, pipelines and nodes are interchangeable (safety runs only)
Symmetry == Permutations(Run) \cup Permutations(Client) \cup Permutations(Node)
=============================================================================
