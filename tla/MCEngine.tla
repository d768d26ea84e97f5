------------------------------ MODULE MCEngine ------------------------------
(* A model-checking instance of Engine *)
EXTENDS Engine, TLC
=============================================================================
