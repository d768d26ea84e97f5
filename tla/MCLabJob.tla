------------------------------ MODULE MCLabJob ------------------------------
(* Model-checking instances of LabJob *)
EXTENDS LabJob, TLC

\* The scans are alike
Symmetry == Permutations(Scanner)
=============================================================================
