-------------------------- MODULE MCModelSemaphore --------------------------
(* Model-checking instances of ModelSemaphore *)
EXTENDS ModelSemaphore, TLC

\* The model's own configuration, and that of a call site that passes no pause
Paced2   == [max |-> 2, pause |-> 2]
Unpaced2 == [max |-> 2, pause |-> 0]
Both == {Paced2, Unpaced2}
=============================================================================
