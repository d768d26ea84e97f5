-------------------------- MODULE LabQueue_proofs --------------------------
(***************************************************************************)
(* Proofs about LabQueue for every value of its constants: the type        *)
(* invariant, that no slot of the worker leaks, that the overshoot of the  *)
(* in-flight map is bounded, and that the queue implements EntryLife.      *)
(*                                                                         *)
(* The inductive invariant adds to them that every id in use (in the       *)
(* table, by a pipeline, by the tick, by a caller) has been given out:     *)
(* without it an INSERT might hit a row that has ended.                    *)
(***************************************************************************)
EXTENDS LabQueue, TLAPS, FiniteSetTheorems

\* Every id in use is at most lastId.
IdsGivenOut ==
  /\ \A i \in Ids : entry[i].status # "absent" => i <= lastId
  /\ \A r \in Run : run[r].pc # "idle" => run[r].id \in 1..lastId
  /\ tick.pc # "idle" => tick.id \in 1..lastId
  /\ \A c \in Client : client[c].ids \subseteq 1..lastId

\* Who enqueues or archives a node has one.
RemovesNode ==
  \A c \in Client : client[c].pc \in {"insert", "rmPending", "rmClear", "rmActive", "rmArchive"}
                       => client[c].node \in Node

IInv == TypeOK /\ SlotsOwned /\ IdsGivenOut /\ RemovesNode
-----------------------------------------------------------------------------
(* The helpers keep the types *)

\* Setting a status keeps the table well typed.
LEMMA WithStatusType ==
  ASSUME TypeOK, NEW S, NEW st \in Status
  PROVE  WithStatus(S, st) \in [Ids -> Entry]
  BY DEF TypeOK, WithStatus, Entry

\* Firing abort signals keeps the pipelines well typed.
LEMMA AbortingType ==
  ASSUME TypeOK, NEW R
  PROVE  Aborting(R) \in [Run -> Pipeline]
  BY DEF TypeOK, Aborting, Pipeline

\* An INSERT keeps the table well typed and hits the row after the last one.
LEMMA InsertType ==
  ASSUME TypeOK, NEW n \in Node \cup {NoNode}, NEW k \in 0..MaxRetries,
         NEW ch \in {"none", "critique", "retest"}, NEW d \in 0..MaxDepth,
         Insert(n, k, ch, d)
  PROVE  /\ entry' \in [Ids -> Entry]
         /\ lastId' \in 0..MaxEntries
         /\ lastId' = lastId + 1
  BY BoundAssumption DEF TypeOK, Insert, Entry, Ids, Status, Active, Terminal

\* Moving one pipeline on keeps the pipelines well typed.
LEMMA GotoType ==
  ASSUME TypeOK, NEW r \in Run, NEW p \in RunPC, Goto(r, p) \/ Catch(r)
  PROVE  run' \in [Run -> Pipeline]
<1>1. CASE Goto(r, p)
  BY <1>1 DEF TypeOK, Goto, Pipeline
<1>2. CASE Catch(r)
  <2> DEFINE failed == [run EXCEPT ![r].pc = "failed"]
  <2>1. failed \in [Run -> Pipeline]
    BY DEF TypeOK, Pipeline, RunPC
  <2>2. run' = [failed EXCEPT ![r].caught = TRUE]
    BY <1>2 DEF Catch
  <2> HIDE DEF failed
  <2> QED
    BY <2>1, <2>2 DEF Pipeline
<1> QED
  BY <1>1, <1>2

\* An exception moves a pipeline to the catch block, and leaves the rest of it alone.
LEMMA CatchKeeps ==
  ASSUME TypeOK, NEW r \in Run, Catch(r)
  PROVE  /\ run'[r].pc = "failed" /\ run'[r].id = run[r].id /\ run'[r].froze = run[r].froze
         /\ \A q \in Run : q # r => run'[q] = run[q]
<1> DEFINE failed == [run EXCEPT ![r].pc = "failed"]
<1>1. /\ failed[r] \in Pipeline /\ failed[r].pc = "failed" /\ failed[r].id = run[r].id
      /\ failed[r].froze = run[r].froze
      /\ \A q \in Run : q # r => failed[q] = run[q]
      /\ DOMAIN failed = Run
  BY DEF TypeOK, Pipeline, RunPC
<1>2. run' = [failed EXCEPT ![r].caught = TRUE]
  BY DEF Catch
<1> HIDE DEF failed
<1> QED
  BY <1>1, <1>2 DEF Pipeline
-----------------------------------------------------------------------------
(* The type invariant *)

\* The initial state satisfies the inductive invariant.
LEMMA InitIInv == Init => IInv
<1> SUFFICES ASSUME Init PROVE IInv
  OBVIOUS
<1>1. TypeOK
  <2>1. NoEntry \in Entry
    BY BoundAssumption DEF NoEntry, Entry, Status
  <2>2. IdleRun \in Pipeline
    BY BoundAssumption DEF IdleRun, Pipeline, RunPC
  <2>3. IdleTick \in [pc : TickPC, id : 0..MaxEntries]
    BY BoundAssumption DEF IdleTick, TickPC
  <2>4. IdleCall \in Call
    BY DEF IdleCall, Call, ClientPC
  <2>5. "null" \in VStatus /\ 0 \in 0..MaxEntries
    BY BoundAssumption DEF VStatus
  <2> QED
    BY <2>1, <2>2, <2>3, <2>4, <2>5 DEF Init, TypeOK
<1>2. SlotsOwned
  BY DEF Init, SlotsOwned
<1>3. IdsGivenOut
  BY DEF Init, IdsGivenOut, NoEntry, IdleRun, IdleTick, IdleCall
<1>4. RemovesNode
  BY DEF Init, RemovesNode, IdleCall
<1> QED
  BY <1>1, <1>2, <1>3, <1>4 DEF IInv

\* Every step keeps the types.
LEMMA TypeStep ==
  ASSUME TypeOK, IdsGivenOut, RemovesNode, [Next]_vars
  PROVE  TypeOK'
<1> USE BoundAssumption
<1>1. ASSUME NEW c \in Client, NEW n \in Node,
             Enqueue(c, n) \/ CancelByNode(c, n) \/ Remove(c, n)
      PROVE  TypeOK'
  <2>1. CASE Enqueue(c, n)
    BY <2>1 DEF Enqueue, TypeOK, Busy, Call, ClientPC, table, nodes, worker, outside
  <2>2. CASE CancelByNode(c, n)
    <3>1. entry' \in [Ids -> Entry]
      BY <2>2, WithStatusType DEF CancelByNode, Status, Terminal
    <3>2. client' \in [Client -> Call]
      BY <2>2 DEF CancelByNode, TypeOK, Busy, Call, ClientPC
    <3> QED
      BY <2>2, <3>1, <3>2 DEF CancelByNode, TypeOK, nodes, worker, outside
  <2>3. CASE Remove(c, n)
    <3>1. client' \in [Client -> Call]
      BY <2>3 DEF Remove, TypeOK, Busy, Call, ClientPC
    <3> QED
      BY <2>3, <3>1, AbortingType DEF Remove, TypeOK, table, nodes, outside
  <2> QED
    BY <1>1, <2>1, <2>2, <2>3
<1>2. ASSUME NEW c \in Client, NEW N \in SUBSET Node, Bulk(c, N)
      PROVE  TypeOK'
  <2>1. client' \in [Client -> Call]
    BY <1>2 DEF Bulk, TypeOK, Busy, Call, ClientPC, ActiveFor
  <2>2. inflight' \in [Ids -> Run \cup {NoRun}] /\ recovery' \in [Ids -> Nat]
    BY <1>2 DEF Bulk, TypeOK, Untracking
  <2> QED
    BY <1>2, <2>1, <2>2, AbortingType DEF Bulk, TypeOK, table, nodes, outside
<1>3. ASSUME NEW c \in Client, NEW i \in Ids, Cancel(c, i) \/ RemoveActive(c, i)
      PROVE  TypeOK'
  <2>1. CASE Cancel(c, i)
    <3>1. client' \in [Client -> Call]
      BY <2>1 DEF Cancel, TypeOK, Busy, Call, ClientPC, NodeOf, Entry
    <3> QED
      BY <2>1, <3>1 DEF Cancel, TypeOK, table, nodes, worker, outside
  <2>2. CASE RemoveActive(c, i)
    <3>1. entry' \in [Ids -> Entry]
      BY <2>2, WithStatusType DEF RemoveActive, Status, Terminal
    <3>2. inflight' \in [Ids -> Run \cup {NoRun}] /\ recovery' \in [Ids -> Nat]
      BY <2>2 DEF RemoveActive, TypeOK, Untracking
    <3>3. client' \in [Client -> Call]
      BY <2>2 DEF RemoveActive, TypeOK, Call
    <3> QED
      BY <2>2, <3>1, <3>2, <3>3, AbortingType DEF RemoveActive, TypeOK, nodes, outside
  <2> QED
    BY <1>3, <2>1, <2>2
<1>4. ASSUME NEW c \in Client,
             EnqueueInsert(c) \/ CancelUpdate(c) \/ CancelClear(c) \/ BulkUpdate(c) \/ BulkClear(c)
      PROVE  TypeOK'
  <2>1. CASE EnqueueInsert(c)
    <3>1. client[c].node \in Node \cup {NoNode}
      BY DEF TypeOK, Call
    <3>2. entry' \in [Ids -> Entry] /\ lastId' \in 0..MaxEntries
      <4>1. Insert(client[c].node, 0, "none", 0)
        BY <2>1 DEF EnqueueInsert
      <4>2. 0 \in 0..MaxRetries /\ 0 \in 0..MaxDepth
        OBVIOUS
      <4> QED
        BY <3>1, <4>1, <4>2, InsertType
    <3>3. vstatus' \in [Node -> VStatus] /\ claiming' \in Nat
      <4>1. vstatus' \in [Node -> VStatus]
        BY <2>1 DEF EnqueueInsert, TypeOK, VStatus
      <4>2. claiming' = claiming \/ claiming' = claiming + 1
        BY <2>1 DEF EnqueueInsert
      <4> QED
        BY <4>1, <4>2 DEF TypeOK
    <3>4. client' \in [Client -> Call]
      BY <2>1 DEF EnqueueInsert, TypeOK, IdleCall, Call, ClientPC
    <3> QED
      BY <2>1, <3>2, <3>3, <3>4 DEF EnqueueInsert, TypeOK, outside
  <2>2. CASE CancelUpdate(c)
    <3>1. entry' \in [Ids -> Entry]
      BY <2>2, WithStatusType DEF CancelUpdate, Status, Terminal
    <3>2. client' \in [Client -> Call]
      BY <2>2 DEF CancelUpdate, TypeOK, Call, ClientPC
    <3> QED
      BY <2>2, <3>1, <3>2 DEF CancelUpdate, TypeOK, nodes, worker, outside
  <2>3. CASE CancelClear(c)
    <3>1. vstatus' \in [Node -> VStatus]
      BY <2>3 DEF CancelClear, Clear, TypeOK, VStatus
    <3>2. client' \in [Client -> Call]
      BY <2>3 DEF CancelClear, TypeOK, IdleCall, Call, ClientPC
    <3> QED
      BY <2>3, <3>1, <3>2 DEF CancelClear, TypeOK, table, worker, outside
  <2>4. CASE BulkUpdate(c)
    <3>1. entry' \in [Ids -> Entry]
      BY <2>4, WithStatusType DEF BulkUpdate, Status, Terminal
    <3>2. client' \in [Client -> Call]
      BY <2>4 DEF BulkUpdate, TypeOK, Call, ClientPC
    <3> QED
      BY <2>4, <3>1, <3>2 DEF BulkUpdate, TypeOK, nodes, worker, outside
  <2>5. CASE BulkClear(c)
    <3>1. vstatus' \in [Node -> VStatus] /\ frozenBy' \in [Node -> 0..MaxEntries]
      BY <2>5 DEF BulkClear, Clear, Unfreeze, TypeOK, VStatus
    <3>2. client' \in [Client -> Call]
      BY <2>5 DEF BulkClear, TypeOK, IdleCall, Call, ClientPC
    <3> QED
      BY <2>5, <3>1, <3>2 DEF BulkClear, TypeOK, table, worker, outside
  <2> QED
    BY <1>4, <2>1, <2>2, <2>3, <2>4, <2>5
<1>5. ASSUME NEW c \in Client, RemovePending(c) \/ RemoveClear(c) \/ RemoveThaw(c) \/ RemoveArchive(c)
      PROVE  TypeOK'
  <2>1. CASE RemovePending(c)
    <3>1. entry' \in [Ids -> Entry]
      BY <2>1, WithStatusType DEF RemovePending, Status, Terminal
    <3>2. client' \in [Client -> Call]
      <4> DEFINE n  == client[c].node
                 at == IF PendingFor(n) = {} THEN Busy("rmActive", n, ProcessingFor(n))
                                             ELSE Busy("rmClear", n, {})
      <4>1. n \in Node \cup {NoNode} /\ ProcessingFor(n) \in SUBSET Ids
        BY DEF TypeOK, Call, ProcessingFor, ActiveFor
      <4>2. at \in Call
        <5> HIDE DEF n
        <5> QED BY <4>1 DEF Busy, Call, ClientPC
      <4>3. client' = [client EXCEPT ![c] = at]
        BY <2>1 DEF RemovePending
      <4> HIDE DEF at
      <4> QED
        BY <4>2, <4>3 DEF TypeOK
    <3> QED
      BY <2>1, <3>1, <3>2 DEF RemovePending, TypeOK, nodes, worker, outside
  <2>2. CASE RemoveThaw(c)
    <3>1. vstatus' \in [Node -> VStatus] /\ frozenBy' \in [Node -> 0..MaxEntries]
      BY <2>2 DEF RemoveThaw, Clear, Unfreeze, TypeOK, VStatus
    <3>2. client' \in [Client -> Call]
      BY <2>2 DEF RemoveThaw, TypeOK, Call, ClientPC
    <3> QED
      BY <2>2, <3>1, <3>2 DEF RemoveThaw, TypeOK, table, worker, outside
  <2>3. CASE RemoveArchive(c)
    <3>1. archived' \subseteq Node
      <4>1. client[c].node \in Node
        BY <2>3 DEF RemoveArchive, RemovesNode
      <4> QED
        BY <2>3, <4>1 DEF RemoveArchive, TypeOK
    <3>2. client' \in [Client -> Call]
      BY <2>3 DEF RemoveArchive, TypeOK, IdleCall, Call, ClientPC
    <3> QED
      BY <2>3, <3>1, <3>2 DEF RemoveArchive, TypeOK, table, worker, outside
  <2>4. CASE RemoveClear(c)
    <3>1. vstatus' \in [Node -> VStatus]
      BY <2>4 DEF RemoveClear, Clear, TypeOK, VStatus
    <3>2. client' \in [Client -> Call]
      BY <2>4 DEF RemoveClear, Busy, TypeOK, Call, ClientPC, ProcessingFor, ActiveFor
    <3> QED
      BY <2>4, <3>1, <3>2 DEF RemoveClear, TypeOK, table, worker, outside
  <2> QED
    BY <1>5, <2>1, <2>2, <2>3, <2>4
<1>6. ASSUME NEW r \in Run, NEW i \in Ids, Claim(r, i)
      PROVE  TypeOK'
  <2>1. entry' \in [Ids -> Entry]
    BY <1>6, WithStatusType DEF Claim, Status, Active
  <2>2. run' \in [Run -> Pipeline]
    <3>1. [IdleRun EXCEPT !.pc = "start", !.id = i] \in Pipeline
      <4>1. IdleRun \in Pipeline /\ i \in 0..MaxEntries /\ "start" \in RunPC
        BY DEF IdleRun, Pipeline, RunPC, Ids
      <4> QED
        BY <4>1 DEF Pipeline
    <3> QED
      BY <1>6, <3>1 DEF Claim, TypeOK
  <2>3. inflight' \in [Ids -> Run \cup {NoRun}] /\ recovery' \in [Ids -> Nat] /\ claiming' \in Nat
    BY <1>6 DEF Claim, TypeOK
  <2> QED
    BY <1>6, <2>1, <2>2, <2>3 DEF Claim, TypeOK, nodes, outside
<1>7. CASE StartClaim \/ ClaimNothing
  <2>1. claiming' \in Nat
    BY <1>7 DEF StartClaim, ClaimNothing, TypeOK
  <2> QED
    BY <1>7, <2>1 DEF StartClaim, ClaimNothing, TypeOK, table, nodes, outside
<1>8. ASSUME NEW r \in Run, NEW yes \in FreezeOnStart, Freeze(r, yes)
      PROVE  TypeOK'
  <2>1. run[r].id \in 0..MaxEntries /\ yes \in BOOLEAN
    BY DEF TypeOK, Pipeline
  <2>2. frozenBy' \in [Node -> 0..MaxEntries]
    BY <1>8, <2>1 DEF Freeze, TypeOK
  <2>3. run' \in [Run -> Pipeline]
    <3> DEFINE gated == [run EXCEPT ![r].pc = "gate"]
    <3>1. gated \in [Run -> Pipeline]
      BY DEF TypeOK, Pipeline, RunPC
    <3>2. run' = [gated EXCEPT ![r].froze = yes]
      BY <1>8 DEF Freeze
    <3> HIDE DEF gated
    <3>3. CASE yes = TRUE
      BY <3>1, <3>2, <3>3 DEF Pipeline
    <3>4. CASE yes = FALSE
      BY <3>1, <3>2, <3>4 DEF Pipeline
    <3> QED
      BY <2>1, <3>3, <3>4
  <2> QED
    BY <1>8, <2>2, <2>3 DEF Freeze, TypeOK, table, outside
<1>9. ASSUME NEW r \in Run,
             Release(r) \/ PassGate(r) \/ VerifyFailed(r) \/ Complete(r) \/ EndingThrows(r) \/ CompleteLost(r)
      PROVE  TypeOK'
  <2>1. CASE Release(r)
    <3>1. entry' \in [Ids -> Entry]
      BY <2>1, WithStatusType DEF Release, Status, Active, TypeOK
    <3>2. run' \in [Run -> Pipeline]
      BY <2>1, GotoType DEF Release, RunPC
    <3> QED
      BY <2>1, <3>1, <3>2 DEF Release, TypeOK, nodes, outside
  <2>2. CASE PassGate(r)
    <3>1. run' \in [Run -> Pipeline]
      BY <2>2, GotoType DEF PassGate, RunPC
    <3> QED
      BY <2>2, <3>1 DEF PassGate, TypeOK, table, nodes, outside
  <2>3. CASE VerifyFailed(r)
    <3>1. run' \in [Run -> Pipeline]
      <4>1. "failed" \in RunPC
        BY DEF RunPC
      <4> QED
        BY <2>3, <4>1, GotoType DEF VerifyFailed
    <3> QED
      BY <2>3, <3>1 DEF VerifyFailed, TypeOK, table, nodes, outside
  <2>4. CASE Complete(r)
    <3>1. entry' \in [Ids -> Entry]
      BY <2>4, WithStatusType DEF Complete, Status, Terminal
    <3>2. run' \in [Run -> Pipeline]
      BY <2>4, GotoType DEF Complete, RunPC
    <3> QED
      BY <2>4, <3>1, <3>2 DEF Complete, TypeOK, nodes, outside
  <2>5. CASE EndingThrows(r) \/ CompleteLost(r)
    <3>1. "failed" \in RunPC /\ "finally" \in RunPC
      BY DEF RunPC
    <3>2. run' \in [Run -> Pipeline]
      BY <2>5, <3>1, GotoType DEF EndingThrows, CompleteLost
    <3>3. lost' \in Nat
      BY <2>5 DEF EndingThrows, CompleteLost, TypeOK
    <3> QED
      BY <2>5, <3>2, <3>3 DEF EndingThrows, CompleteLost, TypeOK, table, nodes
  <2> QED
    BY <1>9, <2>1, <2>2, <2>3, <2>4, <2>5
<1>10. ASSUME NEW r \in Run, NEW b \in BOOLEAN, VerifyDone(r, b)
       PROVE  TypeOK'
  <2>1. run' \in [Run -> Pipeline]
    BY <1>10, GotoType DEF VerifyDone, RunPC
  <2>2. vstatus' \in [Node -> VStatus]
    BY <1>10 DEF VerifyDone, TypeOK, VStatus
  <2> QED
    BY <1>10, <2>1, <2>2 DEF VerifyDone, TypeOK, table, outside
<1>11. ASSUME NEW r \in Run, VerifyFollowUp(r)
       PROVE  TypeOK'
  <2> DEFINE i == run[r].id
             d == entry[i].depth + 1
             retest == entry[i].chain = "critique"
  <2>1. i \in Ids
    BY <1>11 DEF VerifyFollowUp, IdsGivenOut, TypeOK, Ids
  <2>2. NodeOf(i) \in Node \cup {NoNode} /\ entry[i].depth \in 0..MaxDepth
    BY <2>1 DEF NodeOf, TypeOK, Entry
  <2>3. d \in 0..MaxDepth
    BY <1>11, <2>2 DEF VerifyFollowUp
  <2>4. Insert(NodeOf(i), 0, IF retest THEN "retest" ELSE "critique", d)
    BY <1>11 DEF VerifyFollowUp
  <2>5. entry' \in [Ids -> Entry] /\ lastId' \in 0..MaxEntries
    <3>1. (IF retest THEN "retest" ELSE "critique") \in {"none", "critique", "retest"}
      OBVIOUS
    <3>2. 0 \in 0..MaxRetries
      OBVIOUS
    <3> HIDE DEF d, retest
    <3> QED
      BY <2>2, <2>3, <2>4, <3>1, <3>2, InsertType
  <2>6. run' \in [Run -> Pipeline]
    BY <1>11, GotoType DEF VerifyFollowUp, RunPC
  <2>7. vstatus' \in [Node -> VStatus]
    BY <1>11 DEF VerifyFollowUp, TypeOK, VStatus
  <2> QED
    BY <1>11, <2>5, <2>6, <2>7 DEF VerifyFollowUp, TypeOK, outside
<1>12. ASSUME NEW r \in Run, Requeue(r) \/ ClearAfter(r) \/ Finally(r)
       PROVE  TypeOK'
  <2>1. CASE Requeue(r)
    <3> DEFINE e == entry[run[r].id]
    <3>1. run[r].id \in Ids
      BY <2>1 DEF Requeue, IdsGivenOut, TypeOK, Ids
    <3>2. e \in Entry
      BY <3>1 DEF TypeOK
    <3>3. entry' \in [Ids -> Entry] /\ lastId' \in 0..MaxEntries
      <4>1. CASE RetryLeft(e)
        <5>1. e.retries + 1 \in 0..MaxRetries
          BY <3>2, <4>1 DEF RetryLeft, Entry
        <5>2. Insert(e.node, e.retries + 1, e.chain, e.depth)
          BY <2>1, <4>1 DEF Requeue
        <5>3. /\ e.node \in Node \cup {NoNode}
              /\ e.chain \in {"none", "critique", "retest"}
              /\ e.depth \in 0..MaxDepth
          BY <3>2 DEF Entry
        <5> HIDE DEF e
        <5> QED
          BY <5>1, <5>2, <5>3, InsertType
      <4>2. CASE ~RetryLeft(e)
        BY <2>1, <4>2 DEF Requeue, TypeOK, table
      <4> QED
        BY <4>1, <4>2
    <3>4. run' \in [Run -> Pipeline]
      BY <2>1, GotoType DEF Requeue, RunPC
    <3> QED
      BY <2>1, <3>3, <3>4 DEF Requeue, TypeOK, nodes, outside
  <2>2. CASE ClearAfter(r)
    <3>1. run' \in [Run -> Pipeline]
      BY <2>2, GotoType DEF ClearAfter, RunPC
    <3>2. vstatus' \in [Node -> VStatus]
      BY <2>2 DEF ClearAfter, Clear, TypeOK, VStatus
    <3> QED
      BY <2>2, <3>1, <3>2 DEF ClearAfter, TypeOK, table, outside
  <2>3. CASE Finally(r)
    <3>1. run' \in [Run -> Pipeline]
      BY <2>3 DEF Finally, TypeOK, IdleRun, Pipeline, RunPC
    <3>2. inflight' \in [Ids -> Run \cup {NoRun}]
      BY <2>3 DEF Finally, TypeOK, Untracking
    <3>3. frozenBy' \in [Node -> 0..MaxEntries]
      BY <2>3 DEF Finally, TypeOK, Unfreeze
    <3> QED
      BY <2>3, <3>1, <3>2, <3>3 DEF Finally, TypeOK, table, outside
  <2> QED
    BY <1>12, <2>1, <2>2, <2>3
<1>13. ASSUME NEW i \in Ids, Watchdog(i)
       PROVE  TypeOK'
  <2>1. tick' \in [pc : TickPC, id : 0..MaxEntries]
    BY <1>13 DEF Watchdog, TickPC, Ids
  <2> QED
    BY <1>13, <2>1, AbortingType DEF Watchdog, TypeOK, table, nodes, outside
<1>14. ASSUME NEW i \in Ids, NEW late \in BOOLEAN, Orphan(i, late)
       PROVE  TypeOK'
  <2>1. tick' \in [pc : TickPC, id : 0..MaxEntries]
    BY <1>14 DEF Orphan, TickPC, Ids
  <2>2. recovery' \in [Ids -> Nat]
    BY <1>14 DEF Orphan, TypeOK
  <2> QED
    BY <1>14, <2>1, <2>2 DEF Orphan, TypeOK, table, nodes, outside
<1>15. CASE WatchdogFail
  <2>1. entry' \in [Ids -> Entry]
    BY <1>15, WithStatusType DEF WatchdogFail, Status, Terminal
  <2>2. tick' \in [pc : TickPC, id : 0..MaxEntries]
    BY <1>15 DEF WatchdogFail, TypeOK, TickPC
  <2> QED
    BY <1>15, <2>1, <2>2 DEF WatchdogFail, TypeOK, nodes, outside
<1>16. CASE OrphanReset
  <2>1. entry' \in [Ids -> Entry]
    BY <1>16, WithStatusType DEF OrphanReset, Status, Active, TypeOK
  <2>2. tick' \in [pc : TickPC, id : 0..MaxEntries]
    BY <1>16 DEF OrphanReset, TypeOK, TickPC
  <2> QED
    BY <1>16, <2>1, <2>2 DEF OrphanReset, TypeOK, nodes, outside
<1>17. CASE OrphanDrop
  <2>1. entry' \in [Ids -> Entry]
    BY <1>17, WithStatusType DEF OrphanDrop, Status, Terminal
  <2>2. tick' \in [pc : TickPC, id : 0..MaxEntries] /\ recovery' \in [Ids -> Nat]
    BY <1>17 DEF OrphanDrop, TypeOK, TickPC
  <2> QED
    BY <1>17, <2>1, <2>2 DEF OrphanDrop, TypeOK, nodes, outside
<1>18. CASE TickThaw
  <2>1. vstatus' \in [Node -> VStatus] /\ frozenBy' \in [Node -> 0..MaxEntries]
    BY <1>18 DEF TickThaw, Clear, Unfreeze, TypeOK, VStatus
  <2>2. inflight' \in [Ids -> Run \cup {NoRun}]
    BY <1>18 DEF TickThaw, TypeOK, Untracking
  <2>3. tick' \in [pc : TickPC, id : 0..MaxEntries]
    BY <1>18 DEF TickThaw, IdleTick, TickPC
  <2> QED
    BY <1>18, <2>1, <2>2, <2>3 DEF TickThaw, TypeOK, table, outside
<1>19. CASE Stop
  BY <1>19, AbortingType DEF Stop, TypeOK, table, nodes, outside
<1>20. CASE Start
  BY <1>20 DEF Start, TypeOK, table, nodes, outside
<1>21. CASE CrashRestart
  <2>1. entry' \in [Ids -> Entry]
    BY <1>21, WithStatusType DEF CrashRestart, Status, Active
  <2>2. frozenBy' \in [Node -> 0..MaxEntries]
    BY <1>21 DEF CrashRestart, TypeOK, Unfreeze
  <2>3. /\ inflight' \in [Ids -> Run \cup {NoRun}]
        /\ recovery' \in [Ids -> Nat]
        /\ run' \in [Run -> Pipeline]
        /\ client' \in [Client -> Call]
        /\ tick' \in [pc : TickPC, id : 0..MaxEntries]
        /\ crashes' \in Nat
    BY <1>21 DEF CrashRestart, TypeOK, Untracking, IdleRun, Pipeline, RunPC, IdleCall, Call,
       ClientPC, IdleTick, TickPC
  <2> QED
    BY <1>21, <2>1, <2>2, <2>3 DEF CrashRestart, TypeOK
<1>22. CASE Budget
  BY <1>22 DEF Budget, TypeOK, table, nodes, worker
<1>23. CASE UNCHANGED vars
  BY <1>23 DEF TypeOK, vars, table, nodes, worker, outside
<1>24. \A n \in Node : {n} \in SUBSET Node
  OBVIOUS
<1> QED
  BY <1>1, <1>2, <1>3, <1>4, <1>5, <1>6, <1>7, <1>8, <1>9, <1>10, <1>11, <1>12, <1>13, <1>14,
     <1>15, <1>16, <1>17, <1>18, <1>19, <1>20, <1>21, <1>22, <1>23, <1>24
     DEF Next, Caller, Execute, Verified, FillSlot, Heal
-----------------------------------------------------------------------------
(* No slot leaks *)

\* Where pipelines keep their ids and the map only loses keys, no slot leaks.
LEMMA SlotsKept ==
  ASSUME TypeOK, SlotsOwned,
         \A i \in Ids : inflight'[i] \in {inflight[i], NoRun},
         \A r \in Run : run[r].pc # "idle" => run'[r].pc # "idle" /\ run'[r].id = run[r].id
  PROVE  SlotsOwned'
  BY DEF TypeOK, SlotsOwned

\* Every step keeps the slots owned: a claim takes an idle pipeline, and a pipeline
\* that ends takes its id out of the map.
LEMMA SlotsStep ==
  ASSUME TypeOK, SlotsOwned, [Next]_vars
  PROVE  SlotsOwned'
<1>1. ASSUME UNCHANGED <<inflight, run>> PROVE SlotsOwned'
  BY <1>1 DEF SlotsOwned
<1>2. ASSUME NEW R, run' = Aborting(R), \A i \in Ids : inflight'[i] \in {inflight[i], NoRun}
      PROVE  SlotsOwned'
  <2>1. \A r \in Run : run'[r].pc = run[r].pc /\ run'[r].id = run[r].id
    BY <1>2 DEF Aborting, TypeOK, Pipeline
  <2> QED
    BY <1>2, <2>1, SlotsKept
<1>3. ASSUME NEW r \in Run, NEW p \in RunPC \ {"idle"}, Goto(r, p) \/ Catch(r),
             inflight' = inflight
      PROVE  SlotsOwned'
  <2>1. \A q \in Run : run[q].pc # "idle" => run'[q].pc # "idle" /\ run'[q].id = run[q].id
    <3>1. CASE Goto(r, p)
      BY <1>3, <3>1 DEF Goto, TypeOK, Pipeline
    <3>2. CASE Catch(r)
      BY <3>2, CatchKeeps
    <3> QED
      BY <1>3, <3>1, <3>2
  <2> QED
    BY <1>3, <2>1, SlotsKept
<1>4. ASSUME NEW c \in Client, Caller(c) PROVE SlotsOwned'
  <2>1. ASSUME NEW n \in Node, Enqueue(c, n) \/ CancelByNode(c, n) \/ Remove(c, n)
        PROVE  SlotsOwned'
    <3>1. CASE Enqueue(c, n) \/ CancelByNode(c, n)
      BY <1>1, <3>1 DEF Enqueue, CancelByNode, worker
    <3>2. CASE Remove(c, n)
      BY <1>2, <3>2 DEF Remove
    <3> QED
      BY <2>1, <3>1, <3>2
  <2>2. ASSUME NEW N, Bulk(c, N) PROVE SlotsOwned'
    <3>1. \A i \in Ids : inflight'[i] \in {inflight[i], NoRun}
      BY <2>2 DEF Bulk, Untracking
    <3> QED
      BY <1>2, <2>2, <3>1 DEF Bulk
  <2>3. ASSUME NEW i \in Ids, Cancel(c, i) \/ RemoveActive(c, i)
        PROVE  SlotsOwned'
    <3>1. CASE Cancel(c, i)
      BY <1>1, <3>1 DEF Cancel, worker
    <3>2. CASE RemoveActive(c, i)
      <4>1. \A j \in Ids : inflight'[j] \in {inflight[j], NoRun}
        BY <3>2 DEF RemoveActive, Untracking
      <4> QED
        BY <1>2, <3>2, <4>1 DEF RemoveActive
    <3> QED
      BY <2>3, <3>1, <3>2
  <2>4. CASE \/ EnqueueInsert(c) \/ CancelUpdate(c) \/ CancelClear(c)
             \/ RemovePending(c) \/ RemoveClear(c) \/ RemoveThaw(c) \/ RemoveArchive(c)
             \/ BulkUpdate(c) \/ BulkClear(c)
    BY <1>1, <2>4 DEF EnqueueInsert, CancelUpdate, CancelClear, RemovePending, RemoveClear,
       RemoveThaw, RemoveArchive, BulkUpdate, BulkClear, worker
  <2> QED
    BY <1>4, <2>1, <2>2, <2>3, <2>4 DEF Caller
<1>5. ASSUME NEW r \in Run, Execute(r) PROVE SlotsOwned'
  <2>1. ASSUME NEW yes \in FreezeOnStart, Freeze(r, yes) PROVE SlotsOwned'
    <3> DEFINE gated == [run EXCEPT ![r].pc = "gate"]
    <3>1. run' = [gated EXCEPT ![r].froze = yes] /\ inflight' = inflight
      BY <2>1 DEF Freeze
    <3>2. gated \in [Run -> Pipeline]
      BY DEF TypeOK, Pipeline, RunPC
    <3>3. \A q \in Run : run[q].pc # "idle" => gated[q].pc # "idle" /\ gated[q].id = run[q].id
      BY DEF TypeOK, Pipeline
    <3> HIDE DEF gated
    <3>4. \A q \in Run : run'[q].pc = gated[q].pc /\ run'[q].id = gated[q].id
      BY <3>1, <3>2 DEF Pipeline
    <3> QED
      BY <3>1, <3>3, <3>4, SlotsKept
  <2>2. CASE \/ Release(r) \/ PassGate(r) \/ Complete(r) \/ EndingThrows(r) \/ CompleteLost(r)
             \/ Requeue(r) \/ ClearAfter(r)
    <3>1. \E p \in RunPC \ {"idle"} : Goto(r, p) \/ Catch(r)
      BY <2>2 DEF Release, PassGate, Complete, EndingThrows, CompleteLost, Requeue, ClearAfter, RunPC
    <3> QED
      BY <1>3, <2>2, <3>1 DEF Release, PassGate, Complete, EndingThrows, CompleteLost, Requeue, ClearAfter
  <2>3. CASE Verified(r)
    <3>1. \E p \in RunPC \ {"idle"} : Goto(r, p) \/ Catch(r)
      BY <2>3 DEF Verified, VerifyDone, VerifyFollowUp, VerifyFailed, RunPC
    <3> QED
      BY <1>3, <2>3, <3>1 DEF Verified, VerifyDone, VerifyFollowUp, VerifyFailed
  <2>4. CASE Finally(r)
    <3>1. /\ inflight' = Untracking({run[r].id})
          /\ \A q \in Run \ {r} : run'[q] = run[q]
      BY <2>4 DEF Finally, TypeOK
    <3> SUFFICES ASSUME NEW i \in Ids, inflight'[i] # NoRun
                 PROVE  run'[inflight'[i]].id = i /\ run'[inflight'[i]].pc # "idle"
      BY DEF SlotsOwned
    <3>2. inflight'[i] = inflight[i] /\ i # run[r].id
      BY <3>1 DEF Untracking
    <3>3. inflight[i] \in Run /\ run[inflight[i]].id = i /\ run[inflight[i]].pc # "idle"
      BY <3>2 DEF SlotsOwned, TypeOK
    <3> QED
      BY <3>1, <3>2, <3>3
  <2> QED
    BY <1>5, <2>1, <2>2, <2>3, <2>4 DEF Execute
<1>6. CASE FillSlot
  <2>1. CASE StartClaim \/ ClaimNothing
    BY <1>1, <2>1 DEF StartClaim, ClaimNothing
  <2>2. ASSUME NEW r \in Run, NEW i \in Ids, Claim(r, i) PROVE SlotsOwned'
    <3>1. /\ run[r].pc = "idle"
          /\ inflight' = [inflight EXCEPT ![i] = r]
          /\ run'[r].pc = "start" /\ run'[r].id = i /\ \A q \in Run : q # r => run'[q] = run[q]
      BY <2>2 DEF Claim, IdleRun, TypeOK
    <3> QED
      BY <3>1, NullAssumption DEF SlotsOwned, TypeOK
  <2> QED
    BY <1>6, <2>1, <2>2 DEF FillSlot
<1>7. CASE Heal
  <2>1. ASSUME NEW i \in Ids, Watchdog(i) PROVE SlotsOwned'
    BY <1>2, <2>1 DEF Watchdog
  <2>2. ASSUME NEW i \in Ids, NEW late \in BOOLEAN, Orphan(i, late) PROVE SlotsOwned'
    BY <1>1, <2>2 DEF Orphan
  <2>3. CASE WatchdogFail \/ OrphanReset \/ OrphanDrop
    BY <1>1, <2>3 DEF WatchdogFail, OrphanReset, OrphanDrop
  <2>4. CASE TickThaw
    <3>1. \A i \in Ids : inflight'[i] \in {inflight[i], NoRun}
      BY <2>4 DEF TickThaw, Untracking
    <3> QED
      BY <2>4, <3>1, SlotsKept DEF TickThaw
  <2> QED
    BY <1>7, <2>1, <2>2, <2>3, <2>4 DEF Heal
<1>8. CASE Stop
  BY <1>2, <1>8 DEF Stop
<1>9. CASE Start \/ Budget \/ UNCHANGED vars
  BY <1>1, <1>9 DEF Start, Budget, worker, vars
<1>10. CASE CrashRestart
  BY <1>10 DEF CrashRestart, Untracking, SlotsOwned
<1> QED
  BY <1>4, <1>5, <1>6, <1>7, <1>8, <1>9, <1>10 DEF Next
-----------------------------------------------------------------------------
(* Every id in use has been given out *)

\* The four parts of IdsGivenOut, with lastId growing.
LEMMA GivenOutKept ==
  ASSUME TypeOK, IdsGivenOut, lastId' \in Nat, lastId' >= lastId,
         \A i \in Ids : entry'[i].status # "absent" => entry[i].status # "absent" \/ i <= lastId',
         \A r \in Run : run'[r].pc # "idle" =>
           \/ run[r].pc # "idle" /\ run'[r].id = run[r].id
           \/ run'[r].id \in 1..lastId,
         tick'.pc # "idle" =>
           \/ tick.pc # "idle" /\ tick'.id = tick.id
           \/ tick'.id \in 1..lastId,
         \A c \in Client : client'[c].ids \subseteq client[c].ids \cup 1..lastId
  PROVE  IdsGivenOut'
<1>1. lastId \in Nat /\ 1..lastId \subseteq 1..lastId'
  BY DEF TypeOK
<1>2. \A i \in Ids : entry'[i].status # "absent" => i <= lastId'
  BY <1>1 DEF IdsGivenOut, Ids
<1>3. \A r \in Run : run'[r].pc # "idle" => run'[r].id \in 1..lastId'
  BY <1>1 DEF IdsGivenOut
<1>4. tick'.pc # "idle" => tick'.id \in 1..lastId'
  BY <1>1 DEF IdsGivenOut
<1>5. \A c \in Client : client'[c].ids \subseteq 1..lastId'
  BY <1>1 DEF IdsGivenOut
<1> QED
  BY <1>2, <1>3, <1>4, <1>5 DEF IdsGivenOut

\* An UPDATE of rows that exist makes no row.
LEMMA UpdateMakesNoRow ==
  ASSUME TypeOK, NEW S, NEW st, entry' = WithStatus(S, st), \A i \in S : i <= lastId
  PROVE  \A i \in Ids : entry'[i].status # "absent" => entry[i].status # "absent" \/ i <= lastId
  BY DEF TypeOK, WithStatus

\* Moving on, and aborting, keep a pipeline's id.
LEMMA GotoKeepsId ==
  ASSUME TypeOK, NEW r \in Run, NEW p, Goto(r, p) \/ Catch(r), run[r].pc # "idle"
  PROVE  \A q \in Run : run'[q].pc # "idle" => run[q].pc # "idle" /\ run'[q].id = run[q].id
<1>1. CASE Goto(r, p)
  BY <1>1 DEF TypeOK, Goto, Pipeline
<1>2. CASE Catch(r)
  BY <1>2, CatchKeeps
<1> QED
  BY <1>1, <1>2

LEMMA AbortingKeepsId ==
  ASSUME TypeOK, NEW R, run' = Aborting(R)
  PROVE  \A q \in Run : run'[q].pc # "idle" => run[q].pc # "idle" /\ run'[q].id = run[q].id
  BY DEF TypeOK, Aborting, Pipeline

\* Every step keeps the ids given out: rows come from Insert, and a pipeline, the tick
\* and the callers take ids from rows or from the in-flight map.
LEMMA GivenOutStep ==
  ASSUME TypeOK, SlotsOwned, IdsGivenOut, [Next]_vars
  PROVE  IdsGivenOut'
<1>0. lastId \in Nat /\ lastId >= lastId
  BY DEF TypeOK
<1>1. \A i \in Ids : entry[i].status # "absent" => i \in 1..lastId
  BY DEF IdsGivenOut, TypeOK, Ids
<1>2. \A n \in Node : ActiveFor(n) \subseteq 1..lastId
  BY <1>1 DEF ActiveFor, Active
<1>3. ASSUME UNCHANGED <<entry, lastId, run, tick>>,
             \A c \in Client : client'[c].ids \subseteq client[c].ids \cup 1..lastId
      PROVE  IdsGivenOut'
  BY <1>0, <1>3, GivenOutKept
<1>4. ASSUME UNCHANGED <<entry, lastId, tick, client>>,
             \A q \in Run : run'[q].pc # "idle" => run[q].pc # "idle" /\ run'[q].id = run[q].id
      PROVE  IdsGivenOut'
  BY <1>0, <1>4, GivenOutKept
<1>5. ASSUME NEW c \in Client, Caller(c) PROVE IdsGivenOut'
  <2>1. ASSUME NEW n \in Node, Enqueue(c, n) PROVE IdsGivenOut'
    <3>1. \A d \in Client : client'[d].ids \subseteq client[d].ids \cup 1..lastId
      BY <2>1 DEF Enqueue, Busy, TypeOK
    <3> QED
      BY <1>3, <2>1, <3>1 DEF Enqueue, table, worker
  <2>2. ASSUME NEW n \in Node, CancelByNode(c, n) PROVE IdsGivenOut'
    <3>1. \A d \in Client : client'[d].ids \subseteq client[d].ids \cup 1..lastId
      BY <2>2 DEF CancelByNode, Busy, TypeOK
    <3>2. \A i \in Ids : entry'[i].status # "absent" => entry[i].status # "absent" \/ i <= lastId
      <4>1. entry' = WithStatus(PendingFor(n), "cancelled")
        BY <2>2 DEF CancelByNode
      <4>2. \A i \in PendingFor(n) : i <= lastId
        BY <1>2 DEF PendingFor
      <4> QED
        BY <4>1, <4>2, UpdateMakesNoRow
    <3> QED
      BY <1>0, <2>2, <3>1, <3>2, GivenOutKept DEF CancelByNode, worker
  <2>3. ASSUME NEW n \in Node, Remove(c, n) PROVE IdsGivenOut'
    <3>1. \A d \in Client : client'[d].ids \subseteq client[d].ids \cup 1..lastId
      BY <2>3 DEF Remove, Busy, TypeOK
    <3>2. \A q \in Run : run'[q].pc # "idle" => run[q].pc # "idle" /\ run'[q].id = run[q].id
      BY <2>3, AbortingKeepsId DEF Remove
    <3> QED
      BY <1>0, <2>3, <3>1, <3>2, GivenOutKept DEF Remove, table
  <2>4. ASSUME NEW N \in SUBSET Node, Bulk(c, N) PROVE IdsGivenOut'
    <3>1. \A d \in Client : client'[d].ids \subseteq client[d].ids \cup 1..lastId
      BY <1>2, <2>4 DEF Bulk, Busy, TypeOK
    <3>2. \A q \in Run : run'[q].pc # "idle" => run[q].pc # "idle" /\ run'[q].id = run[q].id
      BY <2>4, AbortingKeepsId DEF Bulk
    <3> QED
      BY <1>0, <2>4, <3>1, <3>2, GivenOutKept DEF Bulk, table
  <2>5. ASSUME NEW i \in Ids, Cancel(c, i) PROVE IdsGivenOut'
    <3>1. i \in 1..lastId
      BY <1>1, <2>5 DEF Cancel
    <3>2. \A d \in Client : client'[d].ids \subseteq client[d].ids \cup 1..lastId
      BY <2>5, <3>1 DEF Cancel, Busy, TypeOK
    <3> QED
      BY <1>3, <2>5, <3>2 DEF Cancel, table, worker
  <2>6. ASSUME NEW i \in Ids, RemoveActive(c, i) PROVE IdsGivenOut'
    <3>1. \A d \in Client : client'[d].ids \subseteq client[d].ids \cup 1..lastId
      BY <2>6 DEF RemoveActive, TypeOK, Call
    <3>2. \A q \in Run : run'[q].pc # "idle" => run[q].pc # "idle" /\ run'[q].id = run[q].id
      BY <2>6, AbortingKeepsId DEF RemoveActive
    <3>3. i \in 1..lastId
      BY <2>6 DEF RemoveActive, IdsGivenOut
    <3>4. \A j \in Ids : entry'[j].status # "absent" => entry[j].status # "absent" \/ j <= lastId
      <4>1. \A j \in {i} : j <= lastId
        BY <3>3
      <4>2. entry' = WithStatus({i}, "cancelled")
        BY <2>6 DEF RemoveActive
      <4> QED
        BY <4>1, <4>2, UpdateMakesNoRow
    <3> QED
      BY <1>0, <2>6, <3>1, <3>2, <3>4, GivenOutKept DEF RemoveActive
  <2>7. CASE EnqueueInsert(c)
    <3>1. \A d \in Client : client'[d].ids \subseteq client[d].ids \cup 1..lastId
      BY <2>7 DEF EnqueueInsert, IdleCall, TypeOK
    <3>2. lastId' = lastId + 1
      BY <2>7 DEF EnqueueInsert, Insert
    <3>3. \A i \in Ids : entry'[i].status # "absent" => entry[i].status # "absent" \/ i <= lastId'
      BY <2>7, <3>2 DEF EnqueueInsert, Insert, TypeOK
    <3> QED
      BY <1>0, <2>7, <3>1, <3>2, <3>3, GivenOutKept DEF EnqueueInsert
  <2>8. CASE CancelUpdate(c) \/ BulkUpdate(c)
    <3>1. \A d \in Client : client'[d].ids \subseteq client[d].ids \cup 1..lastId
      BY <2>8 DEF CancelUpdate, BulkUpdate, TypeOK, Call
    <3>2. client[c].ids \subseteq 1..lastId
      BY DEF IdsGivenOut
    <3>3. \A i \in client[c].ids : i <= lastId
      BY <3>2
    <3>4. \A i \in Ids : entry'[i].status # "absent" => entry[i].status # "absent" \/ i <= lastId
      BY <2>8, <3>3, UpdateMakesNoRow DEF CancelUpdate, BulkUpdate
    <3> QED
      BY <1>0, <2>8, <3>1, <3>4, GivenOutKept DEF CancelUpdate, BulkUpdate, worker
  <2>9. CASE CancelClear(c) \/ RemoveThaw(c) \/ RemoveArchive(c) \/ BulkClear(c)
    <3>1. \A d \in Client : client'[d].ids \subseteq client[d].ids \cup 1..lastId
      BY <2>9 DEF CancelClear, RemoveThaw, RemoveArchive, BulkClear, IdleCall, TypeOK, Call
    <3> QED
      BY <1>3, <2>9, <3>1 DEF CancelClear, RemoveThaw, RemoveArchive, BulkClear, table, worker
  <2>10. CASE RemovePending(c) \/ RemoveClear(c)
    <3> DEFINE n  == client[c].node
               at == IF PendingFor(n) = {} THEN Busy("rmActive", n, ProcessingFor(n))
                                           ELSE Busy("rmClear", n, {})
    <3>1. PendingFor(n) \subseteq 1..lastId /\ ProcessingFor(n) \subseteq 1..lastId
      BY <1>1 DEF PendingFor, ProcessingFor, ActiveFor, Active
    <3>2. at.ids \subseteq 1..lastId
      BY <3>1 DEF Busy
    <3>3. CASE RemovePending(c)
      <4>1. client' = [client EXCEPT ![c] = at] /\ entry' = WithStatus(PendingFor(n), "cancelled")
        BY <3>3 DEF RemovePending
      <4> HIDE DEF n, at
      <4>2. \A d \in Client : client'[d].ids \subseteq client[d].ids \cup 1..lastId
        BY <3>2, <4>1 DEF TypeOK
      <4>3. \A i \in PendingFor(n) : i <= lastId
        BY <3>1
      <4>4. \A i \in Ids : entry'[i].status # "absent" => entry[i].status # "absent" \/ i <= lastId
        BY <4>1, <4>3, UpdateMakesNoRow
      <4> QED
        BY <1>0, <3>3, <4>2, <4>4, GivenOutKept DEF RemovePending, worker
    <3>4. CASE RemoveClear(c)
      <4>1. client' = [client EXCEPT ![c] = Busy("rmActive", n, ProcessingFor(n))]
        BY <3>4 DEF RemoveClear
      <4>2. \A d \in Client : client'[d].ids \subseteq client[d].ids \cup 1..lastId
        BY <3>1, <4>1 DEF TypeOK, Busy
      <4> QED
        BY <1>3, <3>4, <4>2 DEF RemoveClear, table, worker
    <3> QED
      BY <2>10, <3>3, <3>4
  <2>11. \A n \in Node : {n} \in SUBSET Node
    OBVIOUS
  <2> QED
    BY <1>5, <2>1, <2>2, <2>3, <2>4, <2>5, <2>6, <2>7, <2>8, <2>9, <2>10, <2>11 DEF Caller
<1>6. ASSUME NEW r \in Run, Execute(r) PROVE IdsGivenOut'
  <2>1. ASSUME NEW yes \in FreezeOnStart, Freeze(r, yes) PROVE IdsGivenOut'
    <3> DEFINE gated == [run EXCEPT ![r].pc = "gate"]
    <3>1. /\ run' = [gated EXCEPT ![r].froze = yes]
          /\ run[r].pc = "start"
      BY <2>1 DEF Freeze
    <3>2. gated \in [Run -> Pipeline]
      BY DEF TypeOK, Pipeline, RunPC
    <3>3. \A q \in Run : gated[q].pc # "idle" => run[q].pc # "idle" /\ gated[q].id = run[q].id
      BY <3>1 DEF TypeOK, Pipeline
    <3> HIDE DEF gated
    <3>4. \A q \in Run : run'[q].pc = gated[q].pc /\ run'[q].id = gated[q].id
      BY <3>1, <3>2 DEF Pipeline
    <3> QED
      BY <1>4, <2>1, <3>3, <3>4 DEF Freeze, table
  <2>2. run[r].pc # "idle" => run[r].id \in 1..lastId
    BY DEF IdsGivenOut
  <2>3. CASE Release(r) \/ Complete(r)
    <3>1. \A q \in Run : run'[q].pc # "idle" => run[q].pc # "idle" /\ run'[q].id = run[q].id
      BY <2>3, GotoKeepsId DEF Release, Complete
    <3>2. \A i \in Ids : entry'[i].status # "absent" => entry[i].status # "absent" \/ i <= lastId
      <4>1. \A i \in {run[r].id} : i <= lastId
        BY <2>2, <2>3 DEF Release, Complete
      <4>2. entry' = entry \/ \E st \in Status : entry' = WithStatus({run[r].id}, st)
        BY <2>3 DEF Release, Complete, Status, Active, Terminal
      <4> QED
        BY <4>1, <4>2, UpdateMakesNoRow
    <3> QED
      BY <1>0, <2>3, <3>1, <3>2, GivenOutKept DEF Release, Complete
  <2>4. CASE PassGate(r) \/ EndingThrows(r) \/ CompleteLost(r) \/ ClearAfter(r) \/ VerifyFailed(r)
    <3>1. \A q \in Run : run'[q].pc # "idle" => run[q].pc # "idle" /\ run'[q].id = run[q].id
      BY <2>4, GotoKeepsId DEF PassGate, EndingThrows, CompleteLost, ClearAfter, VerifyFailed
    <3> QED
      BY <1>4, <2>4, <3>1 DEF PassGate, EndingThrows, CompleteLost, ClearAfter, VerifyFailed, table
  <2>5. ASSUME NEW b \in BOOLEAN, VerifyDone(r, b) PROVE IdsGivenOut'
    <3>1. \A q \in Run : run'[q].pc # "idle" => run[q].pc # "idle" /\ run'[q].id = run[q].id
      BY <2>5, GotoKeepsId DEF VerifyDone
    <3> QED
      BY <1>4, <2>5, <3>1 DEF VerifyDone, table
  <2>6. CASE VerifyFollowUp(r) \/ Requeue(r)
    <3>1. \A q \in Run : run'[q].pc # "idle" => run[q].pc # "idle" /\ run'[q].id = run[q].id
      BY <2>6, GotoKeepsId DEF VerifyFollowUp, Requeue
    <3>2. /\ lastId' \in Nat /\ lastId' >= lastId
          /\ \A i \in Ids : entry'[i].status # "absent" => entry[i].status # "absent" \/ i <= lastId'
      <4>1. CASE UNCHANGED table
        BY <1>0, <4>1 DEF table
      <4>2. ASSUME NEW n, NEW k, NEW ch, NEW d, Insert(n, k, ch, d)
            PROVE  <3>2!1 /\ <3>2!2
        BY <1>0, <4>2 DEF Insert, TypeOK
      <4> QED
        BY <2>6, <4>1, <4>2 DEF VerifyFollowUp, Requeue
    <3> QED
      BY <1>0, <2>6, <3>1, <3>2, GivenOutKept DEF VerifyFollowUp, Requeue
  <2>7. CASE Finally(r)
    <3>1. \A q \in Run : run'[q].pc # "idle" => run[q].pc # "idle" /\ run'[q].id = run[q].id
      BY <2>7 DEF Finally, IdleRun, TypeOK
    <3> QED
      BY <1>4, <2>7, <3>1 DEF Finally, table
  <2> QED
    BY <1>6, <2>1, <2>3, <2>4, <2>5, <2>6, <2>7 DEF Execute, Verified
<1>7. CASE FillSlot
  <2>1. CASE StartClaim \/ ClaimNothing
    BY <1>4, <2>1 DEF StartClaim, ClaimNothing, table
  <2>2. ASSUME NEW r \in Run, NEW i \in Ids, Claim(r, i) PROVE IdsGivenOut'
    <3>1. i \in 1..lastId
      BY <1>1, <2>2 DEF Claim, Next1
    <3>2. \A j \in Ids : entry'[j].status # "absent" => entry[j].status # "absent" \/ j <= lastId
      <4>1. \A j \in {i} : j <= lastId
        BY <3>1
      <4>2. entry' = WithStatus({i}, "processing")
        BY <2>2 DEF Claim
      <4> QED
        BY <4>1, <4>2, UpdateMakesNoRow
    <3>3. \A q \in Run : run'[q].pc # "idle" =>
            \/ run[q].pc # "idle" /\ run'[q].id = run[q].id
            \/ run'[q].id \in 1..lastId
      BY <2>2, <3>1 DEF Claim, TypeOK
    <3> QED
      BY <1>0, <2>2, <3>2, <3>3, GivenOutKept DEF Claim
  <2> QED
    BY <1>7, <2>1, <2>2 DEF FillSlot
<1>8. CASE Heal
  <2>1. ASSUME NEW i \in Ids, Watchdog(i) PROVE IdsGivenOut'
    <3>1. \A q \in Run : run'[q].pc # "idle" => run[q].pc # "idle" /\ run'[q].id = run[q].id
      BY <2>1, AbortingKeepsId DEF Watchdog
    <3>2. tick'.pc # "idle" => tick'.id \in 1..lastId
      BY <2>1 DEF Watchdog, SlotsOwned, IdsGivenOut, TypeOK
    <3> QED
      BY <1>0, <2>1, <3>1, <3>2, GivenOutKept DEF Watchdog, table
  <2>2. ASSUME NEW i \in Ids, NEW late \in BOOLEAN, Orphan(i, late) PROVE IdsGivenOut'
    <3>1. tick'.pc # "idle" => tick'.id \in 1..lastId
      BY <1>1, <2>2 DEF Orphan
    <3> QED
      BY <1>0, <2>2, <3>1, GivenOutKept DEF Orphan, table
  <2>3. CASE WatchdogFail \/ OrphanReset \/ OrphanDrop
    <3>1. tick.pc # "idle" /\ tick'.id = tick.id
      BY <2>3 DEF WatchdogFail, OrphanReset, OrphanDrop, TypeOK
    <3>2. \A i \in {tick.id} : i <= lastId
      BY <3>1 DEF IdsGivenOut
    <3>3. \A i \in Ids : entry'[i].status # "absent" => entry[i].status # "absent" \/ i <= lastId
      BY <2>3, <3>2, UpdateMakesNoRow DEF WatchdogFail, OrphanReset, OrphanDrop
    <3> QED
      BY <1>0, <2>3, <3>1, <3>3, GivenOutKept DEF WatchdogFail, OrphanReset, OrphanDrop
  <2>4. CASE TickThaw
    <3>1. tick'.pc = "idle"
      BY <2>4 DEF TickThaw, IdleTick
    <3> QED
      BY <1>0, <2>4, <3>1, GivenOutKept DEF TickThaw, table
  <2> QED
    BY <1>8, <2>1, <2>2, <2>3, <2>4 DEF Heal
<1>9. CASE Stop
  <2>1. \A q \in Run : run'[q].pc # "idle" => run[q].pc # "idle" /\ run'[q].id = run[q].id
    BY <1>9, AbortingKeepsId DEF Stop
  <2> QED
    BY <1>4, <1>9, <2>1 DEF Stop, table
<1>10. CASE Start \/ Budget \/ UNCHANGED vars
  BY <1>4, <1>10 DEF Start, Budget, table, worker, vars
<1>11. CASE CrashRestart
  <2> DEFINE S == {i \in Ids : entry[i].status = "processing"}
  <2>1. \A i \in S : i <= lastId
    BY <1>1
  <2>2. entry' = WithStatus(S, "pending") /\ lastId' = lastId
    BY <1>11 DEF CrashRestart
  <2> HIDE DEF S
  <2>3. \A i \in Ids : entry'[i].status # "absent" => entry[i].status # "absent" \/ i <= lastId
    BY <2>1, <2>2, UpdateMakesNoRow
  <2>4. /\ \A r \in Run : run'[r].pc = "idle"
        /\ tick'.pc = "idle"
        /\ \A c \in Client : client'[c].ids = {}
    BY <1>11 DEF CrashRestart, IdleRun, IdleTick, IdleCall
  <2> QED
    BY <1>0, <2>2, <2>3, <2>4, GivenOutKept
<1> QED
  BY <1>5, <1>6, <1>7, <1>8, <1>9, <1>10, <1>11 DEF Next

\* Every step keeps RemovesNode: the node is chosen by Enqueue or Remove and kept to
\* the end.
LEMMA RemovesNodeStep ==
  ASSUME TypeOK, RemovesNode, [Next]_vars
  PROVE  RemovesNode'
<1>1. CASE UNCHANGED client
  BY <1>1 DEF RemovesNode
<1>2. ASSUME NEW c \in Client, Caller(c) PROVE RemovesNode'
  <2>1. ASSUME NEW n \in Node, Enqueue(c, n) \/ CancelByNode(c, n) \/ Remove(c, n)
        PROVE  RemovesNode'
    BY <2>1 DEF Enqueue, CancelByNode, Remove, Busy, RemovesNode, TypeOK
  <2>2. ASSUME NEW N, Bulk(c, N) PROVE RemovesNode'
    <3>1. client'[c].pc = "bulk" /\ \A d \in Client \ {c} : client'[d] = client[d]
      BY <2>2 DEF Bulk, Busy, TypeOK
    <3> QED
      BY <3>1 DEF RemovesNode
  <2>3. ASSUME NEW i \in Ids, Cancel(c, i) \/ RemoveActive(c, i) PROVE RemovesNode'
    <3>1. CASE Cancel(c, i)
      BY <2>3, <3>1 DEF Cancel, Busy, RemovesNode, TypeOK
    <3>2. CASE RemoveActive(c, i)
      <4>1. \A d \in Client : client'[d].pc = client[d].pc /\ client'[d].node = client[d].node
        BY <3>2 DEF RemoveActive, TypeOK, Call
      <4> QED
        BY <4>1 DEF RemovesNode
    <3> QED
      BY <2>3, <3>1, <3>2
  <2>4. CASE \/ EnqueueInsert(c) \/ CancelUpdate(c) \/ CancelClear(c)
             \/ RemoveThaw(c) \/ RemoveArchive(c) \/ BulkUpdate(c) \/ BulkClear(c)
    BY <2>4 DEF EnqueueInsert, CancelUpdate, CancelClear, RemoveThaw, RemoveArchive, BulkUpdate,
       BulkClear, IdleCall, RemovesNode, TypeOK, Call
  <2>5. CASE RemovePending(c) \/ RemoveClear(c)
    <3>1. /\ client[c].node \in Node
          /\ \A d \in Client : client'[d].node = client[d].node
          /\ \A d \in Client \ {c} : client'[d] = client[d]
      BY <2>5 DEF RemovePending, RemoveClear, Busy, RemovesNode, TypeOK, Call
    <3> QED
      BY <3>1 DEF RemovesNode
  <2> QED
    BY <1>2, <2>1, <2>2, <2>3, <2>4, <2>5 DEF Caller
<1>3. ASSUME NEW r \in Run, Execute(r) PROVE RemovesNode'
  BY <1>1, <1>3 DEF Execute, Verified, Freeze, Release, PassGate, VerifyDone, VerifyFollowUp,
     VerifyFailed, Complete, EndingThrows, CompleteLost, Requeue, ClearAfter, Finally
<1>4. CASE FillSlot \/ Heal \/ Stop \/ Start \/ Budget
  BY <1>1, <1>4 DEF FillSlot, StartClaim, ClaimNothing, Claim, Heal, Watchdog, Orphan,
     WatchdogFail, OrphanReset, OrphanDrop, TickThaw, Stop, Start, Budget
<1>5. CASE CrashRestart
  BY <1>5 DEF CrashRestart, IdleCall, RemovesNode
<1>6. CASE UNCHANGED vars
  BY <1>1, <1>6 DEF vars
<1> QED
  BY <1>2, <1>3, <1>4, <1>5, <1>6 DEF Next
-----------------------------------------------------------------------------
(* The theorems *)

\* The inductive invariant holds of every behaviour.
LEMMA Inductive == Spec => []IInv
<1>1. IInv /\ [Next]_vars => IInv'
  BY TypeStep, SlotsStep, GivenOutStep, RemovesNodeStep DEF IInv
<1> QED
  BY <1>1, InitIInv, PTL DEF Spec

\* The type invariant, the retry budget and the depth of the critique chain included.
THEOREM TypeCorrect == Spec => []TypeOK
<1>1. IInv => TypeOK
  BY DEF IInv
<1> QED
  BY <1>1, Inductive, PTL

\* No slot of the worker ever leaks (evm/queue-worker.ts, the in-flight map).
THEOREM NoSlotLeaks == Spec => []SlotsOwned
<1>1. IInv => SlotsOwned
  BY DEF IInv
<1> QED
  BY <1>1, Inductive, PTL

-----------------------------------------------------------------------------
(* The queue implements EntryLife *)

\* Every id given out has a row, for a node: no operation of the queue deletes one (a
\* rollback of the journal does: see Journal).
RowsNamed == \A i \in Ids : i <= lastId => entry[i].status # "absent" /\ entry[i].node \in Node

\* What a step may do to the table: rows in use end, rows being processed wait again,
\* one waiting row is taken, or a row is inserted for a node.
RowsEnd      == \E S \in SUBSET (1..lastId), st \in Terminal : entry' = WithStatus(S, st)
RowsGiveBack == \E S \in SUBSET Ids : /\ \A i \in S : entry[i].status = "processing"
                                      /\ entry' = WithStatus(S, "pending")
RowTaken     == \E i \in Ids : /\ entry[i].status = "pending"
                              /\ entry' = WithStatus({i}, "processing")
RowInserted  == \E n \in Node : \E k, ch, d : Insert(n, k, ch, d)
TableMove == \/ lastId' = lastId /\ (RowsEnd \/ RowsGiveBack \/ RowTaken)
             \/ RowInserted
             \/ UNCHANGED table

\* An UPDATE that names the id only ends a row in use.
LEMMA EndsOne ==
  ASSUME NEW i \in 1..lastId, NEW st \in Terminal, entry' = WithStatus({i}, st),
         lastId' = lastId
  PROVE  TableMove
  BY DEF TableMove, RowsEnd

\* An UPDATE that asks for 'processing' gives a row back or does nothing.
LEMMA GivesBackOne ==
  ASSUME NEW i \in Ids, lastId' = lastId,
         IF entry[i].status = "processing" THEN entry' = WithStatus({i}, "pending")
                                           ELSE entry' = entry
  PROVE  TableMove
  BY DEF TableMove, RowsGiveBack, table

\* Every step of every caller, pipeline, tick and restart is such a move.
LEMMA EveryStepMoves ==
  ASSUME IInv, RowsNamed, [Next]_vars
  PROVE  TableMove
<1> USE DEF IInv
<1>1. lastId \in Nat /\ 1..lastId \subseteq Ids
  BY BoundAssumption DEF TypeOK, Ids
<1>2. ASSUME UNCHANGED table PROVE TableMove
  BY <1>2 DEF TableMove
<1>3. \A i \in Ids : entry[i].status # "absent" => i \in 1..lastId
  BY <1>1 DEF IdsGivenOut, Ids
<1>4. ASSUME NEW r \in Run, run[r].pc # "idle"
      PROVE  run[r].id \in 1..lastId /\ entry[run[r].id].node \in Node
  BY <1>1, <1>4 DEF IdsGivenOut, RowsNamed
<1>5. ASSUME tick.pc # "idle" PROVE tick.id \in 1..lastId
  BY <1>5 DEF IdsGivenOut
<1>6. ASSUME NEW n PROVE PendingFor(n) \subseteq 1..lastId
  BY <1>3 DEF PendingFor, ActiveFor, Active
<1>7. "cancelled" \in Terminal /\ "failed" \in Terminal /\ "completed" \in Terminal
  BY DEF Terminal
<1>8. ASSUME NEW c \in Client, Caller(c) PROVE TableMove
  <2>1. ASSUME NEW n \in Node, Enqueue(c, n) \/ CancelByNode(c, n) \/ Remove(c, n)
        PROVE  TableMove
    <3>1. CASE CancelByNode(c, n)
      BY <1>6, <1>7, <3>1 DEF CancelByNode, TableMove, RowsEnd
    <3> QED
      BY <1>2, <2>1, <3>1 DEF Enqueue, Remove
  <2>2. ASSUME NEW N, Bulk(c, N) PROVE TableMove
    BY <1>2, <2>2 DEF Bulk
  <2>3. ASSUME NEW i \in Ids, Cancel(c, i) \/ RemoveActive(c, i) PROVE TableMove
    <3>1. CASE RemoveActive(c, i)
      <4>1. i \in 1..lastId
        BY <3>1 DEF RemoveActive, IdsGivenOut
      <4> QED
        BY <1>7, <3>1, <4>1, EndsOne DEF RemoveActive
    <3> QED
      BY <1>2, <2>3, <3>1 DEF Cancel
  <2>4. CASE EnqueueInsert(c)
    <3>1. client[c].node \in Node
      BY <2>4 DEF EnqueueInsert, RemovesNode
    <3> QED
      BY <2>4, <3>1 DEF EnqueueInsert, TableMove, RowInserted
  <2>5. CASE CancelUpdate(c) \/ BulkUpdate(c)
    <3>1. client[c].ids \subseteq 1..lastId
      BY DEF IdsGivenOut
    <3> QED
      BY <1>7, <2>5, <3>1 DEF CancelUpdate, BulkUpdate, TableMove, RowsEnd
  <2>6. CASE RemovePending(c)
    BY <1>6, <1>7, <2>6 DEF RemovePending, TableMove, RowsEnd
  <2>7. CASE CancelClear(c) \/ RemoveClear(c) \/ RemoveThaw(c) \/ RemoveArchive(c) \/ BulkClear(c)
    BY <1>2, <2>7 DEF CancelClear, RemoveClear, RemoveThaw, RemoveArchive, BulkClear
  <2> QED
    BY <1>8, <2>1, <2>2, <2>3, <2>4, <2>5, <2>6, <2>7 DEF Caller
<1>9. ASSUME NEW r \in Run, Execute(r) PROVE TableMove
  <2>1. CASE Release(r)
    <3>1. run[r].id \in Ids
      BY <1>1, <1>4, <2>1 DEF Release
    <3> QED
      BY <2>1, <3>1, GivesBackOne DEF Release
  <2>2. CASE Complete(r)
    <3>1. run[r].id \in 1..lastId
      BY <1>4, <2>2 DEF Complete
    <3>2. \E st \in Terminal : entry' = WithStatus({run[r].id}, st)
      BY <1>7, <2>2 DEF Complete
    <3> QED
      BY <2>2, <3>1, <3>2, EndsOne DEF Complete
  <2>3. CASE Requeue(r)
    <3>1. entry[run[r].id].node \in Node
      BY <1>4, <2>3 DEF Requeue
    <3> QED
      BY <1>2, <2>3, <3>1 DEF Requeue, TableMove, RowInserted
  <2>4. CASE VerifyFollowUp(r)
    <3>1. NodeOf(run[r].id) \in Node
      BY <1>4, <2>4 DEF VerifyFollowUp, NodeOf
    <3> QED
      BY <2>4, <3>1 DEF VerifyFollowUp, TableMove, RowInserted
  <2>5. CASE UNCHANGED table
    BY <1>2, <2>5
  <2> QED
    BY <1>9, <2>1, <2>2, <2>3, <2>4, <2>5 DEF Execute, Verified, Freeze, PassGate, VerifyDone,
       VerifyFailed, EndingThrows, CompleteLost, ClearAfter, Finally
<1>10. CASE FillSlot
  <2>1. ASSUME NEW r \in Run, NEW i \in Ids, Claim(r, i) PROVE TableMove
    BY <2>1 DEF Claim, Next1, TableMove, RowTaken
  <2> QED
    BY <1>2, <1>10, <2>1 DEF FillSlot, StartClaim, ClaimNothing
<1>11. CASE Heal
  <2>1. CASE OrphanReset
    <3>1. tick.id \in Ids
      BY <1>1, <1>5, <2>1 DEF OrphanReset
    <3> QED
      BY <2>1, <3>1, GivesBackOne DEF OrphanReset
  <2>2. CASE WatchdogFail \/ OrphanDrop
    <3>1. tick.id \in 1..lastId
      BY <1>5, <2>2 DEF WatchdogFail, OrphanDrop
    <3> QED
      BY <1>7, <2>2, <3>1, EndsOne DEF WatchdogFail, OrphanDrop
  <2>3. CASE UNCHANGED table
    BY <1>2, <2>3
  <2> QED
    BY <1>11, <2>1, <2>2, <2>3 DEF Heal, Watchdog, Orphan, TickThaw
<1>12. CASE CrashRestart
  BY <1>12 DEF CrashRestart, TableMove, RowsGiveBack
<1>13. CASE Stop \/ Start \/ Budget \/ UNCHANGED vars
  BY <1>2, <1>13 DEF Stop, Start, Budget, vars
<1> QED
  BY <1>8, <1>9, <1>10, <1>11, <1>12, <1>13 DEF Next

\* No move deletes a row or takes its node away.
LEMMA RowsStayNamed ==
  ASSUME TypeOK, RowsNamed, TableMove
  PROVE  RowsNamed'
<1>1. ASSUME NEW S, NEW st \in Status \ {"absent"}, entry' = WithStatus(S, st), lastId' = lastId
      PROVE  RowsNamed'
  BY <1>1 DEF RowsNamed, WithStatus, TypeOK, Entry
<1>2. CASE RowInserted
  BY <1>2 DEF RowInserted, Insert, RowsNamed, TypeOK, Ids
<1>3. CASE UNCHANGED table
  BY <1>3 DEF RowsNamed, table
<1> QED
  BY <1>1, <1>2, <1>3 DEF TableMove, RowsEnd, RowsGiveBack, RowTaken, Status, Active, Terminal

\* A status set on the rows of S is a life set on them.
LEMMA StatusIsLife ==
  ASSUME TypeOK, NEW S, NEW st, entry' = WithStatus(S, st)
  PROVE  [i \in Ids |-> Row(i)]' = Life!WithLife(S, LifeOf(st))
<1>1. \A i \in Ids : entry'[i].node = entry[i].node
                   /\ entry'[i].status = IF i \in S THEN st ELSE entry[i].status
  BY DEF TypeOK, WithStatus, Entry
<1> QED
  BY <1>1 DEF Row, NodeOf, Life!WithLife

\* Every move of the table is a step of EntryLife, or leaves the lives alone.
LEMMA MovesAreSteps ==
  ASSUME IInv, RowsNamed, TableMove
  PROVE  [Life!Next]_[i \in Ids |-> Row(i)]
<1> USE DEF IInv
<1>1. /\ \A st \in Status : LifeOf(st) = "absent" <=> st = "absent"
      /\ \A st \in Terminal : LifeOf(st) = "ended"
      /\ LifeOf("pending") = "waiting" /\ LifeOf("processing") = "working"
  BY DEF LifeOf, Status, Active, Terminal
<1>2. lastId \in Nat /\ 1..lastId \subseteq Ids
  BY BoundAssumption DEF TypeOK, Ids
<1>3. \A i \in Ids : [j \in Ids |-> Row(j)][i].life = LifeOf(entry[i].status)
  BY DEF Row
<1>4. \A i \in Ids : entry[i].status \in Status
  BY DEF TypeOK, Entry
<1>5. CASE RowsEnd
  <2>1. PICK S \in SUBSET (1..lastId), st \in Terminal : entry' = WithStatus(S, st)
    BY <1>5 DEF RowsEnd
  <2>2. \A i \in S : i \in Ids /\ entry[i].status # "absent"
    BY <1>2, <2>1 DEF RowsNamed
  <2>3. \A i \in S : [j \in Ids |-> Row(j)][i].life # "absent"
    BY <1>1, <1>3, <1>4, <2>2
  <2>4. [i \in Ids |-> Row(i)]' = Life!WithLife(S, "ended")
    BY <1>1, <2>1, StatusIsLife
  <2>5. Life!End(S)
    BY <2>3, <2>4 DEF Life!End
  <2> QED
    BY <1>2, <2>5 DEF Life!Next
<1>6. CASE RowsGiveBack
  <2>1. PICK S \in SUBSET Ids : /\ \A i \in S : entry[i].status = "processing"
                                /\ entry' = WithStatus(S, "pending")
    BY <1>6 DEF RowsGiveBack
  <2>2. \A i \in S : [j \in Ids |-> Row(j)][i].life = "working"
    BY <1>1, <1>3, <2>1
  <2>3. [i \in Ids |-> Row(i)]' = Life!WithLife(S, "waiting")
    BY <1>1, <2>1, StatusIsLife
  <2>4. Life!GiveBack(S)
    BY <2>2, <2>3 DEF Life!GiveBack
  <2> QED
    BY <2>4 DEF Life!Next
<1>7. CASE RowTaken
  <2>1. PICK i \in Ids : entry[i].status = "pending" /\ entry' = WithStatus({i}, "processing")
    BY <1>7 DEF RowTaken
  <2>2. [j \in Ids |-> Row(j)][i].life = "waiting"
    BY <1>1, <1>3, <2>1
  <2>3. [j \in Ids |-> Row(j)]' = Life!WithLife({i}, "working")
    BY <1>1, <2>1, StatusIsLife
  <2>4. Life!Take(i)
    BY <2>2, <2>3 DEF Life!Take
  <2> QED
    BY <2>4 DEF Life!Next
<1>8. CASE RowInserted
  <2>1. PICK n \in Node : \E k, ch, d : Insert(n, k, ch, d)
    BY <1>8 DEF RowInserted
  <2> DEFINE new == lastId + 1
  <2>2. /\ new \in Ids
        /\ entry[new].status = "absent"
        /\ \A j \in Ids : j < new => entry[j].status # "absent"
    BY <1>2, <2>1, BoundAssumption DEF Insert, Ids, IdsGivenOut, RowsNamed
  <2>3. /\ entry'[new].status = "pending" /\ entry'[new].node = n
        /\ \A j \in Ids : j # new => entry'[j] = entry[j]
    BY <2>1, <2>2 DEF Insert, TypeOK
  <2>4. /\ [j \in Ids |-> Row(j)][new].life = "absent"
        /\ \A j \in Ids : j < new => [k \in Ids |-> Row(k)][j].life # "absent"
    BY <1>1, <1>3, <1>4, <2>2
  <2> HIDE DEF new
  <2>5. [j \in Ids |-> Row(j)]'
          = [[j \in Ids |-> Row(j)] EXCEPT ![new] = [life |-> "waiting", node |-> n]]
    BY <1>1, <2>2, <2>3 DEF Row, NodeOf
  <2>6. Life!Queue(new, n)
    BY <2>4, <2>5 DEF Life!Queue
  <2> QED
    BY <2>2, <2>6 DEF Life!Next
<1>9. CASE UNCHANGED table
  BY <1>9 DEF table, Row, NodeOf
<1> QED
  BY <1>5, <1>6, <1>7, <1>8, <1>9 DEF TableMove

\* The queue (evm/queue.ts) keeps its promise: it implements EntryLife, so that a row is
\* given out once, taken by one claim, given back only while taken, and ended for good.
THEOREM QueueImplementsEntryLife == Spec => EntriesLive
<1>1. Init => RowsNamed /\ Life!Init
  <2>1. ASSUME Init PROVE RowsNamed
    BY <2>1 DEF Init, RowsNamed, Ids
  <2>2. ASSUME Init PROVE Life!Init
    BY <2>2 DEF Init, Life!Init, Row, NodeOf, NoEntry, LifeOf
  <2> QED
    BY <2>1, <2>2
<1>2. IInv /\ RowsNamed /\ [Next]_vars => RowsNamed' /\ [Life!Next]_[i \in Ids |-> Row(i)]
  BY EveryStepMoves, RowsStayNamed, MovesAreSteps DEF IInv
<1> QED
  BY <1>1, <1>2, Inductive, PTL DEF Spec, EntriesLive, Life!Spec
-----------------------------------------------------------------------------
(* The overshoot of the in-flight map *)

\* The ids are finitely many, so the tracked ones are.
LEMMA TrackedFinite ==
  ASSUME NEW S, S \subseteq Ids
  PROVE  IsFiniteSet(S) /\ Cardinality(S) \in Nat
<1>1. IsFiniteSet(Ids)
  BY BoundAssumption, FS_Interval DEF Ids
<1>2. IsFiniteSet(S)
  BY <1>1, FS_Subset
<1> QED
  BY <1>2, FS_CardinalityType

\* Where the map only loses keys and no claim begins, the bound is kept.
LEMMA BoundKept ==
  ASSUME TypeOK, SlotBound, claiming' \in Nat, claiming' <= claiming,
         \A i \in Ids : inflight'[i] \in {inflight[i], NoRun}
  PROVE  SlotBound'
<1>1. Tracked' \subseteq Tracked /\ Tracked \subseteq Ids
  BY DEF Tracked
<1>2. Cardinality(Tracked') <= Cardinality(Tracked)
  BY <1>1, TrackedFinite, FS_Subset
<1>3. Cardinality(Tracked) \in Nat /\ Cardinality(Tracked') \in Nat
  BY <1>1, TrackedFinite
<1> QED
  BY <1>2, <1>3, BoundAssumption DEF SlotBound, TypeOK

\* Where the map is unchanged and a claim begins behind the size check, so is it.
LEMMA BoundWhenClaiming ==
  ASSUME TypeOK, SlotBound, SlotFree, claiming' = claiming + 1, inflight' = inflight
  PROVE  SlotBound'
<1>1. Tracked' = Tracked
  BY DEF Tracked
<1>2. Cardinality(Tracked) \in Nat
  BY TrackedFinite DEF Tracked
<1> QED
  BY <1>1, <1>2, BoundAssumption DEF SlotBound, SlotFree, TypeOK

\* The in-flight map and the claims under way never exceed the configured limit by more
\* than the concurrent fillers less one (evm/queue-worker.ts, _claimAndStart).
THEOREM OvershootBounded == Spec => []SlotBound
<1>1. Init => SlotBound
  <2> SUFFICES ASSUME Init PROVE SlotBound
    OBVIOUS
  <2>1. Tracked = {} /\ claiming = 0
    BY DEF Init, Tracked
  <2> QED
    BY <2>1, FS_EmptySet, BoundAssumption DEF SlotBound
<1>2. ASSUME IInv, SlotBound, [Next]_vars PROVE SlotBound'
  <2> USE <1>2 DEF IInv
  <2>0. claiming \in Nat
    BY DEF TypeOK
  <2>1. ASSUME UNCHANGED <<inflight, claiming>> PROVE SlotBound'
    BY <2>0, <2>1, BoundKept
  <2>2. ASSUME claiming' = claiming, NEW S, inflight' = Untracking(S) PROVE SlotBound'
    BY <2>0, <2>2, BoundKept DEF Untracking
  <2>3. ASSUME NEW c \in Client, Caller(c) PROVE SlotBound'
    <3>1. CASE EnqueueInsert(c)
      BY <2>1, <3>1, BoundWhenClaiming DEF EnqueueInsert
    <3>2. ASSUME NEW N, Bulk(c, N) PROVE SlotBound'
      BY <2>1, <2>2, <3>2 DEF Bulk
    <3>3. ASSUME NEW i \in Ids, RemoveActive(c, i) PROVE SlotBound'
      BY <2>2, <3>3 DEF RemoveActive
    <3>4. CASE UNCHANGED <<inflight, claiming>>
      BY <2>1, <3>4
    <3> QED
      BY <2>3, <3>1, <3>2, <3>3, <3>4 DEF Caller, Enqueue, CancelByNode, Remove, Cancel,
         CancelUpdate, CancelClear, RemovePending, RemoveClear, RemoveThaw, RemoveArchive,
         BulkUpdate, BulkClear, worker
  <2>4. ASSUME NEW r \in Run, Execute(r) PROVE SlotBound'
    <3>1. CASE Finally(r)
      BY <2>2, <3>1 DEF Finally
    <3>2. CASE UNCHANGED <<inflight, claiming>>
      BY <2>1, <3>2
    <3> QED
      BY <2>4, <3>1, <3>2 DEF Execute, Verified, Freeze, Release, PassGate, VerifyDone,
         VerifyFollowUp, VerifyFailed, Complete, EndingThrows, CompleteLost, Requeue, ClearAfter
  <2>5. CASE FillSlot
    <3>1. CASE StartClaim
      BY <3>1, BoundWhenClaiming DEF StartClaim
    <3>2. CASE ClaimNothing
      BY <2>0, <3>2, BoundKept DEF ClaimNothing
    <3>3. ASSUME NEW r \in Run, NEW i \in Ids, Claim(r, i) PROVE SlotBound'
      <4>1. Tracked' \subseteq Tracked \cup {i} /\ Tracked \cup {i} \subseteq Ids
        BY <3>3 DEF Claim, Tracked, TypeOK
      <4>2. Tracked \subseteq Ids /\ Tracked' \subseteq Ids
        BY <4>1
      <4>3. Cardinality(Tracked') <= Cardinality(Tracked \cup {i})
        BY <4>1, TrackedFinite, FS_Subset
      <4>4. Cardinality(Tracked \cup {i}) <= Cardinality(Tracked) + 1
        BY <4>2, TrackedFinite, FS_AddElement
      <4>5. /\ Cardinality(Tracked) \in Nat
            /\ Cardinality(Tracked') \in Nat
            /\ Cardinality(Tracked \cup {i}) \in Nat
        BY <4>1, <4>2, TrackedFinite
      <4>6. claiming' = claiming - 1
        BY <3>3 DEF Claim
      <4> QED
        BY <2>0, <4>3, <4>4, <4>5, <4>6, BoundAssumption DEF SlotBound
    <3> QED
      BY <2>5, <3>1, <3>2, <3>3 DEF FillSlot
  <2>6. CASE Heal
    <3>1. CASE TickThaw
      BY <2>1, <2>2, <3>1 DEF TickThaw
    <3>2. CASE UNCHANGED <<inflight, claiming>>
      BY <2>1, <3>2
    <3> QED
      BY <2>6, <3>1, <3>2 DEF Heal, Watchdog, Orphan, WatchdogFail, OrphanReset, OrphanDrop
  <2>7. CASE CrashRestart
    <3>1. claiming' = 0 /\ \A i \in Ids : inflight'[i] = NoRun
      BY <2>7 DEF CrashRestart, Untracking
    <3> QED
      BY <2>0, <3>1, BoundKept
  <2>8. CASE Stop \/ Start \/ Budget \/ UNCHANGED vars
    BY <2>1, <2>8 DEF Stop, Start, Budget, worker, vars
  <2> QED
    BY <2>3, <2>4, <2>5, <2>6, <2>7, <2>8 DEF Next
<1> QED
  BY <1>1, <1>2, Inductive, PTL DEF Spec
=============================================================================
