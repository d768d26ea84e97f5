---------------------------- MODULE MCKbPipeline ----------------------------
(* Model-checking instances of KbPipeline *)
EXTENDS KbPipeline
=============================================================================
