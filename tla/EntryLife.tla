----------------------------- MODULE EntryLife -----------------------------
(***************************************************************************)
(* What the verification queue promises about its entries (the lifecycle   *)
(* described in evm/queue.ts and handlers/lab-queue-api.ts), with no       *)
(* caller, worker, tick or restart in sight: entries are queued one after  *)
(* the other, each for one node and for good; an entry waits, is taken by  *)
(* itself, may be given back, and ends once.  LabQueue implements it.      *)
(***************************************************************************)
EXTENDS Naturals

CONSTANTS Id,       \* the ids that may be given out, in order
          Node,     \* what an entry may be for
          NoNode    \* null value

VARIABLE row        \* the entries, by id

Life == {"absent", "waiting", "working", "ended"}
Row  == [life : Life, node : Node \cup {NoNode}]

Init == row = [i \in Id |-> [life |-> "absent", node |-> NoNode]]

\* The entries of S with their life set to l; what they are for stays
WithLife(S, l) ==
  [i \in Id |-> IF i \in S THEN [row[i] EXCEPT !.life = l] ELSE row[i]]

\* The next id is given out
Queue(i, n) ==
  /\ row[i].life = "absent"
  /\ \A j \in Id : j < i => row[j].life # "absent"
  /\ row' = [row EXCEPT ![i] = [life |-> "waiting", node |-> n]]

\* A worker takes one waiting entry
Take(i) == /\ row[i].life = "waiting"
           /\ row' = WithLife({i}, "working")

\* Entries that were taken wait again: a release, a recovery, a restart
GiveBack(S) == /\ \A i \in S : row[i].life = "working"
               /\ row' = WithLife(S, "waiting")

\* Entries end, from wherever they are; one that was never queued cannot
End(S) == /\ \A i \in S : row[i].life # "absent"
          /\ row' = WithLife(S, "ended")

Next == \/ \E S \in SUBSET Id : GiveBack(S) \/ End(S)
        \/ \E i \in Id : Take(i) \/ \E n \in Node : Queue(i, n)

Spec == Init /\ [][Next]_row
=============================================================================
