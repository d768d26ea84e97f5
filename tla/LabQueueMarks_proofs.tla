------------------------ MODULE LabQueueMarks_proofs ------------------------
(***************************************************************************)
(* Proofs about what LabQueue leaves behind, for every value of its        *)
(* constants: the mark of a queued node (InQueueHasEntry), the freeze      *)
(* (FrozenHasCause) and the retries (RetriedOnce).  Each is true only of   *)
(* some of the things that may happen, and each theorem says of which.     *)
(***************************************************************************)
EXTENDS LabQueue_proofs

Base == IInv /\ RowsNamed
-----------------------------------------------------------------------------
(* The invariants *)

\* Who will clear the mark of node n
RunMinds(r, n)  == run[r].pc \in {"retry", "clear"} /\ RunNode(r) = n
TickMinds(n)    == tick.pc \in {"killed", "dropped"} /\ NodeOf(tick.id) = n
CallMinds(c, n) == \/ client[c].pc \in {"clear", "rmClear", "rmActive"} /\ client[c].node = n
                   \/ client[c].pc = "bulkClear" /\ \E i \in client[c].ids : NodeOf(i) = n
Minding(n) == TickMinds(n) \/ (\E r \in Run : RunMinds(r, n)) \/ (\E c \in Client : CallMinds(c, n))

\* The mark is right, or will be cleared.
Settled(n) == vstatus[n] = "in_queue" => ActiveFor(n) # {}
Marked(n)  == Settled(n) \/ Minding(n)

\* A call that ends the rows it has read clears the node of these rows.
CallsFit == \A c \in Client : client[c].pc \in {"cancel", "rmActive"} =>
              \A i \in client[c].ids : NodeOf(i) = client[c].node

MarksFit == CallsFit /\ (crashes = 0 /\ lost = 0 => \A n \in Node : Marked(n))

\* Pipeline r is past the freezing of its node, n, and will thaw it.
Froze(r, n)   == run[r].pc \notin {"idle", "start"} /\ run[r].froze /\ RunNode(r) = n
FrozeAlive(n) == \E r \in Run : Froze(r, n)

\* What a node that is frozen is frozen by: a row of its own; while the server has not
\* crashed, a pipeline that is alive; and what FrozenHasCause asks for
Own(n)    == frozenBy[n] # 0 => frozenBy[n] <= lastId /\ NodeOf(frozenBy[n]) = n
Held(n)   == frozenBy[n] # 0 => FrozeAlive(n)
Caused(n) == frozenBy[n] # 0 => \/ entry[frozenBy[n]].status \in Active
                                \/ TickMinds(n) \/ FrozeAlive(n)

\* Nobody cancels a row, and every pipeline freezes its node.
Unattended == FreezeOnStart = {TRUE} /\ Ops \cap {"cancel", "cancelByNode", "remove", "bulk"} = {}
Served     == /\ \A c \in Client : client[c].pc \in {"idle", "insert"}
              /\ \A r \in Run : run[r].pc \notin {"idle", "start"} => run[r].froze

FreezesFit == /\ \A n \in Node : Own(n)
              /\ crashes = 0 => \A n \in Node : Held(n)
              /\ Unattended => Served /\ \A n \in Node : Caused(n)

\* The lab is not over budget and nobody cancels in bulk.
Undisturbed == Ops \cap {"budget", "bulk"} = {}

\* A pipeline is alone with its row, and tracked until the row has ended; what the tick
\* has found out still holds.
Tracks(r) == run[r].pc # "idle" => \/ entry[run[r].id].status \in Terminal
                                   \/ entry[run[r].id].status = "processing" /\ inflight[run[r].id] = r
Alone(r)  == \A q \in Run : q # r /\ run[r].pc # "idle" /\ run[q].pc # "idle" => run[q].id # run[r].id
Failed(r) == run[r].pc = "retry" => entry[run[r].id].status \in Terminal
TickFits  == /\ tick.pc = "killed" => entry[tick.id].status \in Terminal
             /\ tick.pc = "reset" =>
                  \/ entry[tick.id].status \in Terminal
                  \/ entry[tick.id].status = "processing" /\ inflight[tick.id] = NoRun
OneEach   == TickFits /\ \A r \in Run : Tracks(r) /\ Alone(r) /\ Failed(r)

\* The rows of retry k, and the ended ones of which no pipeline may yet insert a retry
Retry(k) == {i \in Ids : entry[i].retries = k}
Open     == RunPC \ {"idle", "clear", "finally"}
Spent(k) == {i \in Retry(k) : /\ entry[i].status \in Terminal
                              /\ \A r \in Run : run[r].pc \in Open => run[r].id # i}

Fits(k)  == Cardinality(Retry(k + 1)) <= Cardinality(Spent(k)) + lost

Calm == ~overBudget /\ \A c \in Client : client[c].pc \notin {"bulk", "bulkClear"}

RetriesFit ==
  /\ Calm /\ OneEach
  /\ \A k \in 0..MaxRetries : Fits(k)
-----------------------------------------------------------------------------
(* Rows *)

\* The base keeps, and every step is a move of the table.
LEMMA BaseStep ==
  ASSUME Base, [Next]_vars
  PROVE  Base' /\ TableMove
<1>1. IInv'
  BY TypeStep, SlotsStep, GivenOutStep, RemovesNodeStep DEF Base, IInv
<1>2. TableMove
  BY EveryStepMoves DEF Base
<1>3. RowsNamed'
  BY <1>2, RowsStayNamed DEF Base, IInv
<1> QED
  BY <1>1, <1>2, <1>3 DEF Base

\* Initially there are no rows.
LEMMA InitBase == Init => Base
<1>1. Init => RowsNamed
  BY DEF Init, RowsNamed, Ids
<1> QED
  BY <1>1, InitIInv DEF Base

\* What setting a status does to a row.
LEMMA StatusSet ==
  ASSUME TypeOK, NEW S, NEW st, entry' = WithStatus(S, st), NEW i \in Ids
  PROVE  /\ entry'[i].node = entry[i].node /\ entry'[i].retries = entry[i].retries
         /\ entry'[i].status = IF i \in S THEN st ELSE entry[i].status
<1>1. entry[i] \in Entry
  BY DEF TypeOK
<1>2. entry'[i] = IF i \in S THEN [entry[i] EXCEPT !.status = st] ELSE entry[i]
  BY DEF WithStatus
<1> QED
  BY <1>1, <1>2 DEF Entry

\* What setting the status of one row does to the statuses.
LEMMA OneSet ==
  ASSUME TypeOK, NEW i \in Ids, NEW st, entry' = WithStatus({i}, st)
  PROVE  entry'[i].status = st /\ \A j \in Ids : j # i => entry'[j].status = entry[j].status
<1>1. \A j \in Ids : entry'[j].status = IF j \in {i} THEN st ELSE entry[j].status
  BY StatusSet
<1> QED
  BY <1>1

\* What an INSERT does to the rows.
LEMMA RowIn ==
  ASSUME TypeOK, NEW n, NEW k, NEW ch, NEW d, Insert(n, k, ch, d)
  PROVE  /\ lastId + 1 \in Ids /\ lastId' = lastId + 1
         /\ entry'[lastId + 1].status = "pending" /\ entry'[lastId + 1].node = n
         /\ entry'[lastId + 1].retries = k
         /\ \A i \in Ids : i # lastId + 1 => entry'[i] = entry[i]
<1>1. lastId + 1 \in Ids
  BY BoundAssumption DEF TypeOK, Insert, Ids
<1> QED
  BY <1>1 DEF TypeOK, Insert

\* A row keeps its node and its retries, and one that has ended has ended.
LEMMA RowsKeep ==
  ASSUME Base, TableMove, NEW i \in 1..lastId
  PROVE  /\ i \in Ids /\ i \in 1..lastId' /\ NodeOf(i)' = NodeOf(i)
         /\ entry'[i].retries = entry[i].retries
         /\ entry[i].status \in Terminal => entry'[i].status \in Terminal
<1>0. TypeOK /\ lastId \in Nat /\ i \in Ids /\ i \in Nat
  BY BoundAssumption DEF Base, IInv, TypeOK, Ids
<1>1. ASSUME NEW S, NEW st, entry' = WithStatus(S, st), lastId' = lastId,
             st \in Terminal \/ \A j \in S : entry[j].status \notin Terminal
      PROVE  /\ i \in 1..lastId' /\ entry'[i].node = entry[i].node
             /\ entry'[i].retries = entry[i].retries
             /\ entry[i].status \in Terminal => entry'[i].status \in Terminal
  BY <1>0, <1>1, StatusSet
<1>2. "processing" \notin Terminal /\ "pending" \notin Terminal
  BY DEF Terminal
<1>3. CASE RowInserted
  <2>1. PICK n, k, ch, d : Insert(n, k, ch, d)
    BY <1>3 DEF RowInserted
  <2>2. lastId' = lastId + 1 /\ entry'[i] = entry[i]
    BY <1>0, <2>1, RowIn
  <2> QED
    BY <1>0, <2>2 DEF NodeOf
<1>4. CASE UNCHANGED table
  BY <1>0, <1>4 DEF table, NodeOf
<1>5. CASE lastId' = lastId /\ RowsEnd
  BY <1>0, <1>1, <1>5 DEF RowsEnd, NodeOf
<1>6. CASE lastId' = lastId /\ RowsGiveBack
  BY <1>0, <1>1, <1>2, <1>6 DEF RowsGiveBack, NodeOf
<1>7. CASE lastId' = lastId /\ RowTaken
  BY <1>0, <1>1, <1>2, <1>7 DEF RowTaken, NodeOf
<1> QED
  BY <1>3, <1>4, <1>5, <1>6, <1>7 DEF TableMove

\* The ids that pipelines, the tick and the callers use are those of rows.
LEMMA IdsUsed ==
  ASSUME Base
  PROVE  /\ \A r \in Run : run[r].pc # "idle" => run[r].id \in 1..lastId
         /\ tick.pc # "idle" => tick.id \in 1..lastId
         /\ \A c \in Client : client[c].ids \subseteq 1..lastId
         /\ \A n : ActiveFor(n) \subseteq 1..lastId
         /\ 1..lastId \subseteq Ids
<1>1. lastId \in Nat
  BY DEF Base, IInv, TypeOK
<1>2. 1..lastId \subseteq Ids
  BY <1>1, BoundAssumption DEF Base, IInv, TypeOK, Ids
<1>3. \A n : ActiveFor(n) \subseteq 1..lastId
  BY <1>1 DEF Base, IInv, IdsGivenOut, ActiveFor, Active, Ids
<1> QED
  BY <1>2, <1>3 DEF Base, IInv, IdsGivenOut

\* Aborting and moving a pipeline leave its row and its freeze alone.
LEMMA AbortKeeps ==
  ASSUME TypeOK, NEW R, run' = Aborting(R), NEW r \in Run
  PROVE  run'[r].pc = run[r].pc /\ run'[r].id = run[r].id /\ run'[r].froze = run[r].froze
<1>1. run[r] \in Pipeline
  BY DEF TypeOK
<1> QED
  BY <1>1 DEF Aborting, Pipeline

LEMMA GotoKeeps ==
  ASSUME TypeOK, NEW r \in Run, NEW p, Goto(r, p)
  PROVE  /\ run'[r].pc = p /\ run'[r].id = run[r].id /\ run'[r].froze = run[r].froze
         /\ \A q \in Run : q # r => run'[q] = run[q]
<1>1. run[r] \in Pipeline
  BY DEF TypeOK
<1> QED
  BY <1>1 DEF TypeOK, Goto, Pipeline

\* A pipeline moves on, by itself or by an exception.
Moves(r, p) == Goto(r, p) \/ (p = "failed" /\ Catch(r))

\* Moving on leaves everything else of a pipeline, and of the others, alone.
LEMMA MoveKeeps ==
  ASSUME TypeOK, NEW r \in Run, NEW p, Moves(r, p)
  PROVE  /\ run'[r].pc = p /\ run'[r].id = run[r].id /\ run'[r].froze = run[r].froze
         /\ \A q \in Run : q # r => run'[q] = run[q]
  BY GotoKeeps, CatchKeeps DEF Moves
-----------------------------------------------------------------------------
(* Marks *)

\* The node is settled where its mark was asked for again.
LEMMA ClearSettles ==
  ASSUME NEW N, Clear(N), entry' = entry, NEW n \in Node
  PROVE  /\ vstatus'[n] = "in_queue" => vstatus[n] = "in_queue"
         /\ n \in N => Settled(n)'
<1>1. ActiveFor(n)' = ActiveFor(n)
  BY DEF ActiveFor, NodeOf
<1> QED
  BY <1>1 DEF Clear, Settled

\* A pipeline, the tick or a call that has not moved minds the same nodes.
LEMMA RunStays ==
  ASSUME Base, TableMove, NEW n, NEW r \in Run, RunMinds(r, n),
         run'[r].pc = run[r].pc, run'[r].id = run[r].id
  PROVE  RunMinds(r, n)'
<1>1. run[r].id \in 1..lastId
  BY IdsUsed DEF RunMinds
<1>2. entry'[run[r].id].node = entry[run[r].id].node
  BY <1>1, RowsKeep DEF NodeOf
<1> QED
  BY <1>2 DEF RunMinds, RunNode, NodeOf

LEMMA TickStays ==
  ASSUME Base, TableMove, NEW n, TickMinds(n), tick' = tick
  PROVE  TickMinds(n)'
<1>1. tick.id \in 1..lastId
  BY IdsUsed DEF TickMinds
<1>2. entry'[tick.id].node = entry[tick.id].node
  BY <1>1, RowsKeep DEF NodeOf
<1> QED
  BY <1>2 DEF TickMinds, NodeOf

LEMMA CallStays ==
  ASSUME Base, TableMove, NEW n, NEW c \in Client, CallMinds(c, n), client'[c] = client[c]
  PROVE  CallMinds(c, n)'
<1>1. \A i \in client[c].ids : i \in 1..lastId
  BY IdsUsed
<1>2. \A i \in client[c].ids : entry'[i].node = entry[i].node
  BY <1>1, RowsKeep DEF NodeOf
<1> QED
  BY <1>2 DEF CallMinds, NodeOf

\* A row that stays active keeps its node from losing its last one.
LEMMA StaysActive ==
  ASSUME Base, TableMove, NEW n, NEW i \in ActiveFor(n), entry'[i].status \in Active
  PROVE  Settled(n)'
<1>1. i \in 1..lastId /\ NodeOf(i) = n
  BY IdsUsed DEF ActiveFor
<1>2. i \in ActiveFor(n)'
  BY <1>1, RowsKeep DEF ActiveFor
<1> QED
  BY <1>2 DEF Settled

\* A mark stays right unless its node loses a row or somebody who minds it moves on.
LEMMA MarkStep ==
  ASSUME Base, TableMove, NEW n \in Node, Marked(n),
         (vstatus'[n] = "in_queue" => vstatus[n] = "in_queue") \/ Marked(n)',
         \A i \in ActiveFor(n) : entry'[i].status \in Active \/ Marked(n)',
         \A r \in Run : RunMinds(r, n) =>
           Marked(n)' \/ (run'[r].pc = run[r].pc /\ run'[r].id = run[r].id),
         TickMinds(n) => tick' = tick \/ Marked(n)',
         \A c \in Client : CallMinds(c, n) => client'[c] = client[c] \/ Marked(n)'
  PROVE  Marked(n)'
<1>1. CASE TickMinds(n)
  BY <1>1, TickStays DEF Marked, Minding
<1>2. ASSUME NEW r \in Run, RunMinds(r, n)
      PROVE  Marked(n)'
  BY <1>2, RunStays DEF Marked, Minding
<1>3. ASSUME NEW c \in Client, CallMinds(c, n)
      PROVE  Marked(n)'
  BY <1>3, CallStays DEF Marked, Minding
<1>4. CASE Settled(n)
  <2>1. CASE vstatus'[n] # "in_queue"
    BY <2>1 DEF Marked, Settled
  <2>2. CASE vstatus[n] = "in_queue"
    <3>1. PICK i \in ActiveFor(n) : TRUE
      BY <1>4, <2>2 DEF Settled
    <3> QED
      BY <3>1, StaysActive DEF Marked
  <2> QED
    BY <2>1, <2>2
<1> QED
  BY <1>1, <1>2, <1>3, <1>4 DEF Marked, Minding

\* A step of caller c keeps the mark of n right if c does.
LEMMA CallerMarks ==
  ASSUME Base, TableMove, NEW n \in Node, Marked(n), NEW c \in Client, tick' = tick,
         \A r \in Run : run'[r].pc = run[r].pc /\ run'[r].id = run[r].id,
         \A d \in Client : d # c => client'[d] = client[d],
         (vstatus'[n] = "in_queue" => vstatus[n] = "in_queue") \/ Marked(n)',
         \A i \in ActiveFor(n) : entry'[i].status \in Active \/ Marked(n)',
         CallMinds(c, n) => Marked(n)'
  PROVE  Marked(n)'
<1>1. \A d \in Client : CallMinds(d, n) => client'[d] = client[d] \/ Marked(n)'
  OBVIOUS
<1> QED
  BY <1>1, MarkStep

\* A step of pipeline r keeps the mark of n right if r does.
LEMMA RunMarks ==
  ASSUME Base, TableMove, NEW n \in Node, Marked(n), NEW r \in Run,
         tick' = tick, client' = client,
         \A q \in Run : q # r => run'[q] = run[q],
         (vstatus'[n] = "in_queue" => vstatus[n] = "in_queue") \/ Marked(n)',
         \A i \in ActiveFor(n) : entry'[i].status \in Active \/ Marked(n)',
         RunMinds(r, n) => Marked(n)'
  PROVE  Marked(n)'
<1>1. \A q \in Run : RunMinds(q, n) =>
        Marked(n)' \/ (run'[q].pc = run[q].pc /\ run'[q].id = run[q].id)
  OBVIOUS
<1> QED
  BY <1>1, MarkStep

\* A step of the tick keeps the mark of n right if the tick does.
LEMMA TickMarks ==
  ASSUME Base, TableMove, NEW n \in Node, Marked(n), client' = client,
         \A r \in Run : run'[r].pc = run[r].pc /\ run'[r].id = run[r].id,
         (vstatus'[n] = "in_queue" => vstatus[n] = "in_queue") \/ Marked(n)',
         \A i \in ActiveFor(n) : entry'[i].status \in Active \/ Marked(n)',
         TickMinds(n) => Marked(n)'
  PROVE  Marked(n)'
  BY MarkStep

\* A row that is not set to another status stays active.
LEMMA OthersActive ==
  ASSUME TypeOK, NEW S, NEW st, entry' = WithStatus(S, st), NEW n, NEW i \in ActiveFor(n)
  PROVE  i \in S \/ entry'[i].status \in Active
  BY StatusSet DEF ActiveFor

\* An active row that is set to an active status stays active.
LEMMA SetActive ==
  ASSUME TypeOK, NEW S, NEW st \in Active, entry' = WithStatus(S, st), NEW n, NEW i \in ActiveFor(n)
  PROVE  entry'[i].status \in Active
<1>1. i \in Ids /\ entry[i].status \in Active
  BY DEF ActiveFor
<1>2. entry'[i].status = IF i \in S THEN st ELSE entry[i].status
  BY <1>1, StatusSet
<1> QED
  BY <1>1, <1>2

\* An INSERT ends no row, and its node has an active one.
LEMMA InsertActive ==
  ASSUME Base, NEW m, NEW k, NEW ch, NEW d, Insert(m, k, ch, d)
  PROVE  /\ \A n \in Node : \A i \in ActiveFor(n) : entry'[i].status \in Active
         /\ Settled(m)'
<1>1. TypeOK /\ lastId \in Nat
  BY DEF Base, IInv, TypeOK
<1>2. ASSUME NEW n \in Node, NEW i \in ActiveFor(n)
      PROVE  entry'[i].status \in Active
  <2>1. i \in 1..lastId /\ i \in Ids
    BY IdsUsed DEF ActiveFor
  <2>2. i # lastId + 1
    BY <1>1, <2>1
  <2> QED
    BY <1>1, <2>1, <2>2, RowIn DEF ActiveFor
<1>3. lastId + 1 \in Ids /\ entry'[lastId + 1].status \in Active /\ entry'[lastId + 1].node = m
  BY <1>1, RowIn DEF Active
<1>4. ActiveFor(m)' # {}
  BY <1>3 DEF ActiveFor, NodeOf
<1> QED
  BY <1>2, <1>4 DEF Settled

\* The rows that a call has read keep their node.
LEMMA CallFits ==
  ASSUME Base, TableMove, CallsFit, NEW c \in Client,
         \A d \in Client : d # c => client'[d] = client[d],
         client'[c].pc \in {"cancel", "rmActive"} =>
           \A i \in client'[c].ids : i \in 1..lastId /\ NodeOf(i) = client'[c].node
  PROVE  CallsFit'
<1>1. ASSUME NEW d \in Client, client'[d].pc \in {"cancel", "rmActive"}, NEW i \in client'[d].ids
      PROVE  NodeOf(i)' = client'[d].node
  <2>1. i \in 1..lastId /\ NodeOf(i) = client'[d].node
    <3>1. CASE d = c
      BY <1>1, <3>1
    <3>2. CASE d # c
      BY <1>1, <3>2, IdsUsed DEF CallsFit
    <3> QED
      BY <3>1, <3>2
  <2> QED
    BY <2>1, RowsKeep
<1> QED
  BY <1>1 DEF CallsFit

\* Every call ends rows of the node it will clear.
LEMMA CallsFitStep ==
  ASSUME Base, TableMove, CallsFit, [Next]_vars
  PROVE  CallsFit'
<1>0. TypeOK
  BY DEF Base, IInv
<1>1. CASE UNCHANGED client
  <2>1. ASSUME NEW c \in Client PROVE CallsFit'
    <3>1. client'[c].pc \in {"cancel", "rmActive"} =>
            \A i \in client'[c].ids : i \in 1..lastId /\ NodeOf(i) = client'[c].node
      BY <1>1, IdsUsed DEF CallsFit
    <3> QED
      BY <1>1, <3>1, CallFits
  <2> QED
    BY <2>1 DEF CallsFit
<1>2. ASSUME NEW c \in Client, Caller(c) PROVE CallsFit'
  <2>1. SUFFICES /\ \A d \in Client : d # c => client'[d] = client[d]
                 /\ client'[c].pc \in {"cancel", "rmActive"} =>
                      \A i \in client'[c].ids : i \in 1..lastId /\ NodeOf(i) = client'[c].node
    BY CallFits
  <2>2. ASSUME NEW n \in Node, Enqueue(c, n) \/ CancelByNode(c, n) \/ Remove(c, n)
        PROVE  /\ \A d \in Client : d # c => client'[d] = client[d]
               /\ client'[c].pc \notin {"cancel", "rmActive"}
    BY <1>0, <2>2 DEF Enqueue, CancelByNode, Remove, Busy, TypeOK
  <2>3. ASSUME NEW N, Bulk(c, N)
        PROVE  /\ \A d \in Client : d # c => client'[d] = client[d]
               /\ client'[c].pc \notin {"cancel", "rmActive"}
    BY <1>0, <2>3 DEF Bulk, Busy, TypeOK
  <2>4. ASSUME NEW i \in Ids, Cancel(c, i)
        PROVE  /\ \A d \in Client : d # c => client'[d] = client[d]
               /\ client'[c].node = NodeOf(i) /\ client'[c].ids = {i} /\ i \in 1..lastId
    <3>1. i \in 1..lastId
      BY <2>4 DEF Cancel, Base, IInv, IdsGivenOut, TypeOK, Ids
    <3> QED
      BY <1>0, <2>4, <3>1 DEF Cancel, Busy, TypeOK
  <2>5. ASSUME NEW i \in Ids, RemoveActive(c, i)
        PROVE  /\ \A d \in Client : d # c => client'[d] = client[d]
               /\ client'[c].node = client[c].node /\ client'[c].ids \subseteq client[c].ids
               /\ client[c].pc = "rmActive"
    BY <1>0, <2>5 DEF RemoveActive, TypeOK, Call
  <2>6. CASE \/ EnqueueInsert(c) \/ CancelUpdate(c) \/ CancelClear(c)
             \/ RemoveThaw(c) \/ RemoveArchive(c) \/ BulkUpdate(c) \/ BulkClear(c)
    BY <1>0, <2>6 DEF EnqueueInsert, CancelUpdate, CancelClear, RemoveThaw, RemoveArchive,
       BulkUpdate, BulkClear, IdleCall, TypeOK, Call
  <2>7. CASE RemovePending(c) \/ RemoveClear(c)
    <3>1. /\ \A d \in Client : d # c => client'[d] = client[d]
          /\ client'[c].node = client[c].node
          /\ client'[c].ids = {} \/ client'[c].ids = ProcessingFor(client[c].node)
      BY <1>0, <2>7 DEF RemovePending, RemoveClear, Busy, TypeOK, Call
    <3>2. \A i \in ProcessingFor(client[c].node) : i \in 1..lastId /\ NodeOf(i) = client[c].node
      BY IdsUsed DEF ProcessingFor, ActiveFor
    <3> QED
      BY <3>1, <3>2
  <2>8. ASSUME NEW i \in Ids, RemoveActive(c, i)
        PROVE  \A j \in client'[c].ids : j \in 1..lastId /\ NodeOf(j) = client'[c].node
    BY <2>5, <2>8, IdsUsed DEF CallsFit
  <2> QED
    BY <1>2, <2>2, <2>3, <2>4, <2>5, <2>6, <2>7, <2>8 DEF Caller
<1>3. ASSUME NEW r \in Run, Execute(r) PROVE CallsFit'
  BY <1>1, <1>3 DEF Execute, Verified, Freeze, Release, PassGate, VerifyDone, VerifyFollowUp,
     VerifyFailed, Complete, EndingThrows, CompleteLost, Requeue, ClearAfter, Finally
<1>4. CASE FillSlot \/ Heal \/ Stop \/ Start \/ Budget
  BY <1>1, <1>4 DEF FillSlot, StartClaim, ClaimNothing, Claim, Heal, Watchdog, Orphan,
     WatchdogFail, OrphanReset, OrphanDrop, TickThaw, Stop, Start, Budget
<1>5. CASE CrashRestart
  BY <1>5 DEF CrashRestart, IdleCall, CallsFit
<1>6. CASE UNCHANGED vars
  BY <1>1, <1>6 DEF vars
<1> QED
  BY <1>2, <1>3, <1>4, <1>5, <1>6 DEF Next

\* Callers keep the marks right.
LEMMA MarksOfCaller ==
  ASSUME Base, TableMove, CallsFit, NEW n \in Node, Marked(n), NEW c \in Client, Caller(c)
  PROVE  Marked(n)'
<1>0. TypeOK
  BY DEF Base, IInv
<1>1. ASSUME UNCHANGED <<entry, vstatus, tick, run>>, ~CallMinds(c, n),
             \A d \in Client : d # c => client'[d] = client[d]
      PROVE  Marked(n)'
  BY <1>1, CallerMarks DEF ActiveFor
<1>2. ASSUME NEW m, Enqueue(c, m) PROVE Marked(n)'
  BY <1>0, <1>1, <1>2 DEF Enqueue, Busy, TypeOK, table, nodes, worker, CallMinds
<1>3. ASSUME NEW m \in Node, CancelByNode(c, m) PROVE Marked(n)'
  <2>1. /\ tick' = tick /\ run' = run /\ vstatus' = vstatus /\ ~CallMinds(c, n)
        /\ \A d \in Client : d # c => client'[d] = client[d]
        /\ client'[c].pc = "clear" /\ client'[c].node = m
    BY <1>0, <1>3 DEF CancelByNode, Busy, TypeOK, nodes, worker, CallMinds
  <2>2. \A i \in ActiveFor(n) : entry'[i].status \in Active \/ Marked(n)'
    <3>1. ASSUME NEW i \in ActiveFor(n), i \in PendingFor(m) PROVE CallMinds(c, n)'
      BY <2>1, <3>1 DEF PendingFor, ActiveFor, CallMinds
    <3>2. entry' = WithStatus(PendingFor(m), "cancelled")
      BY <1>3 DEF CancelByNode
    <3> QED
      BY <1>0, <3>1, <3>2, OthersActive DEF Marked, Minding
  <2> QED
    BY <2>1, <2>2, CallerMarks
<1>4. ASSUME NEW S, run' = Aborting(S), UNCHANGED <<entry, vstatus, tick>>, ~CallMinds(c, n),
             \A d \in Client : d # c => client'[d] = client[d]
      PROVE  Marked(n)'
  <2>1. \A r \in Run : run'[r].pc = run[r].pc /\ run'[r].id = run[r].id
    BY <1>0, <1>4, AbortKeeps
  <2> QED
    BY <1>4, <2>1, CallerMarks DEF ActiveFor
<1>5. ASSUME NEW m, Remove(c, m) PROVE Marked(n)'
  <2>1. \E S : run' = Aborting(S)
    BY <1>5 DEF Remove
  <2> QED
    BY <1>0, <1>4, <1>5, <2>1 DEF Remove, Busy, TypeOK, table, nodes, CallMinds
<1>6. ASSUME NEW N, Bulk(c, N) PROVE Marked(n)'
  <2>1. \E S : run' = Aborting(S)
    BY <1>6 DEF Bulk
  <2> QED
    BY <1>0, <1>4, <1>6, <2>1 DEF Bulk, Busy, TypeOK, table, nodes, CallMinds
<1>7. ASSUME NEW i \in Ids, Cancel(c, i) PROVE Marked(n)'
  BY <1>0, <1>1, <1>7 DEF Cancel, Busy, TypeOK, table, nodes, worker, CallMinds
<1>8. ASSUME NEW i \in Ids, RemoveActive(c, i) PROVE Marked(n)'
  <2>1. /\ tick' = tick /\ vstatus' = vstatus
        /\ \A d \in Client : d # c => client'[d] = client[d]
        /\ client'[c].pc = "rmActive" /\ client'[c].node = client[c].node
        /\ client[c].pc = "rmActive"
    BY <1>0, <1>8 DEF RemoveActive, TypeOK, Call, nodes
  <2>2. \A r \in Run : run'[r].pc = run[r].pc /\ run'[r].id = run[r].id
    <3>1. \E S : run' = Aborting(S)
      BY <1>8 DEF RemoveActive
    <3> QED
      BY <1>0, <3>1, AbortKeeps
  <2>3. CallMinds(c, n) => CallMinds(c, n)'
    BY <2>1 DEF CallMinds
  <2>4. i \in ActiveFor(n) => CallMinds(c, n)'
    BY <1>8, <2>1 DEF RemoveActive, CallsFit, ActiveFor, CallMinds
  <2>5. \A j \in ActiveFor(n) : entry'[j].status \in Active \/ Marked(n)'
    <3>1. entry' = WithStatus({i}, "cancelled")
      BY <1>8 DEF RemoveActive
    <3> QED
      BY <1>0, <2>4, <3>1, OthersActive DEF Marked, Minding
  <2> QED
    BY <2>1, <2>2, <2>3, <2>5, CallerMarks DEF Marked, Minding
<1>9. CASE EnqueueInsert(c)
  <2> DEFINE m == client[c].node
  <2>1. /\ tick' = tick /\ run' = run /\ ~CallMinds(c, n)
        /\ \A d \in Client : d # c => client'[d] = client[d]
        /\ n # m => vstatus'[n] = vstatus[n]
    BY <1>0, <1>9 DEF EnqueueInsert, TypeOK, CallMinds
  <2>2. /\ \A i \in ActiveFor(n) : entry'[i].status \in Active
        /\ n = m => Marked(n)'
    <3>1. Insert(m, 0, "none", 0)
      BY <1>9 DEF EnqueueInsert
    <3> HIDE DEF m
    <3> QED
      BY <3>1, InsertActive DEF Marked
  <2> QED
    BY <2>1, <2>2, CallerMarks
<1>10. CASE CancelUpdate(c)
  <2>1. /\ tick' = tick /\ run' = run /\ vstatus' = vstatus /\ ~CallMinds(c, n)
        /\ \A d \in Client : d # c => client'[d] = client[d]
        /\ client'[c].pc = "clear" /\ client'[c].node = client[c].node
    BY <1>0, <1>10 DEF CancelUpdate, TypeOK, Call, nodes, worker, CallMinds
  <2>2. \A i \in ActiveFor(n) : i \in client[c].ids => CallMinds(c, n)'
    BY <1>10, <2>1 DEF CancelUpdate, CallsFit, ActiveFor, CallMinds
  <2>3. \A i \in ActiveFor(n) : entry'[i].status \in Active \/ Marked(n)'
    <3>1. entry' = WithStatus(client[c].ids, "cancelled")
      BY <1>10 DEF CancelUpdate
    <3> QED
      BY <1>0, <2>2, <3>1, OthersActive DEF Marked, Minding
  <2> QED
    BY <2>1, <2>3, CallerMarks
<1>11. ASSUME UNCHANGED <<entry, tick, run>>, NEW N, Clear(N), CallMinds(c, n) => Marked(n)' \/ n \in N,
              \A d \in Client : d # c => client'[d] = client[d]
       PROVE  Marked(n)'
  <2>1. (vstatus'[n] = "in_queue" => vstatus[n] = "in_queue") /\ (n \in N => Marked(n)')
    BY <1>11, ClearSettles DEF Marked
  <2>2. \A i \in ActiveFor(n) : entry'[i].status \in Active
    BY <1>11 DEF ActiveFor
  <2> QED
    BY <1>11, <2>1, <2>2, CallerMarks
<1>12. CASE CancelClear(c) \/ RemoveThaw(c)
  <2>1. Clear({client[c].node}) /\ UNCHANGED <<entry, tick, run>>
    BY <1>12 DEF CancelClear, RemoveThaw, table, worker
  <2>2. /\ CallMinds(c, n) => n \in {client[c].node}
        /\ \A d \in Client : d # c => client'[d] = client[d]
    BY <1>0, <1>12 DEF CancelClear, RemoveThaw, TypeOK, CallMinds
  <2> QED
    BY <1>11, <2>1, <2>2
<1>13. CASE RemoveClear(c)
  <2>1. Clear({client[c].node}) /\ UNCHANGED <<entry, tick, run>>
    BY <1>13 DEF RemoveClear, table, worker
  <2>2. /\ CallMinds(c, n) => n \in {client[c].node}
        /\ \A d \in Client : d # c => client'[d] = client[d]
    BY <1>0, <1>13 DEF RemoveClear, TypeOK, CallMinds
  <2> QED
    BY <1>11, <2>1, <2>2
<1>14. CASE BulkClear(c)
  <2>1. PICK N : N = {NodeOf(i) : i \in client[c].ids}
    OBVIOUS
  <2>2. Clear(N) /\ UNCHANGED <<entry, tick, run>>
    BY <1>14, <2>1 DEF BulkClear, table, worker
  <2>3. CallMinds(c, n) => n \in N
    BY <1>14, <2>1 DEF BulkClear, CallMinds
  <2>4. \A d \in Client : d # c => client'[d] = client[d]
    BY <1>0, <1>14 DEF BulkClear, TypeOK
  <2> QED
    BY <1>11, <2>2, <2>3, <2>4
<1>15. CASE RemovePending(c)
  <2> DEFINE m == client[c].node
  <2>1. /\ tick' = tick /\ run' = run /\ vstatus' = vstatus /\ ~CallMinds(c, n)
        /\ \A d \in Client : d # c => client'[d] = client[d]
    BY <1>0, <1>15 DEF RemovePending, TypeOK, nodes, worker, CallMinds
  <2>2. client'[c].pc \in {"rmActive", "rmClear"} /\ client'[c].node = m
    BY <1>0, <1>15 DEF RemovePending, Busy, TypeOK
  <2>3. \A i \in ActiveFor(n) : i \in PendingFor(m) => CallMinds(c, n)'
    BY <2>2 DEF PendingFor, ActiveFor, CallMinds
  <2>4. \A i \in ActiveFor(n) : entry'[i].status \in Active \/ Marked(n)'
    <3>1. entry' = WithStatus(PendingFor(m), "cancelled")
      BY <1>15 DEF RemovePending
    <3> QED
      BY <1>0, <2>3, <3>1, OthersActive DEF Marked, Minding
  <2> QED
    BY <2>1, <2>4, CallerMarks
<1>16. CASE RemoveArchive(c)
  BY <1>0, <1>1, <1>16 DEF RemoveArchive, TypeOK, table, worker, CallMinds
<1>17. CASE BulkUpdate(c)
  <2>1. /\ tick' = tick /\ run' = run /\ vstatus' = vstatus /\ ~CallMinds(c, n)
        /\ \A d \in Client : d # c => client'[d] = client[d]
        /\ client'[c].pc = "bulkClear" /\ client'[c].ids = client[c].ids
    BY <1>0, <1>17 DEF BulkUpdate, TypeOK, Call, nodes, worker, CallMinds
  <2>2. ASSUME NEW i \in ActiveFor(n), i \in client[c].ids PROVE CallMinds(c, n)'
    <3>1. NodeOf(i)' = n
      BY IdsUsed, RowsKeep DEF ActiveFor
    <3> QED
      BY <2>1, <2>2, <3>1 DEF CallMinds
  <2>3. \A i \in ActiveFor(n) : entry'[i].status \in Active \/ Marked(n)'
    <3>1. entry' = WithStatus(client[c].ids, "cancelled")
      BY <1>17 DEF BulkUpdate
    <3> QED
      BY <1>0, <2>2, <3>1, OthersActive DEF Marked, Minding
  <2> QED
    BY <2>1, <2>3, CallerMarks
<1> QED
  BY <1>2, <1>3, <1>5, <1>6, <1>7, <1>8, <1>9, <1>10, <1>12, <1>13, <1>14, <1>15, <1>16, <1>17
  DEF Caller

\* Pipelines keep the marks right.
LEMMA MarksOfRun ==
  ASSUME Base, TableMove, NEW n \in Node, Marked(n), NEW r \in Run, Execute(r),
         UNCHANGED lost
  PROVE  Marked(n)'
<1>0. TypeOK
  BY DEF Base, IInv
<1>1. ASSUME \E p : Moves(r, p),
             UNCHANGED <<entry, vstatus, tick, client>>, ~RunMinds(r, n)
      PROVE  Marked(n)'
  <2>1. \A q \in Run : q # r => run'[q] = run[q]
    BY <1>0, <1>1, MoveKeeps
  <2> QED
    BY <1>1, <2>1, RunMarks DEF ActiveFor
<1>2. ASSUME NEW yes \in FreezeOnStart, Freeze(r, yes) PROVE Marked(n)'
  <2>1. /\ \A q \in Run : q # r => run'[q] = run[q]
        /\ ~RunMinds(r, n) /\ UNCHANGED <<entry, vstatus, tick, client>>
    BY <1>0, <1>2 DEF Freeze, TypeOK, table, RunMinds
  <2> QED
    BY <2>1, RunMarks DEF ActiveFor
<1>3. CASE Release(r)
  <2>1. /\ \A q \in Run : q # r => run'[q] = run[q]
        /\ ~RunMinds(r, n) /\ UNCHANGED <<vstatus, tick, client>>
    BY <1>0, <1>3, GotoKeeps DEF Release, nodes, RunMinds
  <2>2. \A i \in ActiveFor(n) : entry'[i].status \in Active
    <3>1. CASE entry' = entry
      BY <3>1 DEF ActiveFor
    <3>2. CASE entry' = WithStatus({run[r].id}, "pending")
      BY <1>0, <3>2, SetActive DEF Active
    <3> QED
      BY <1>3, <3>1, <3>2 DEF Release
  <2> QED
    BY <2>1, <2>2, RunMarks
<1>4. CASE PassGate(r) \/ VerifyFailed(r)
  <2>1. \E p : Moves(r, p)
    BY <1>4 DEF PassGate, VerifyFailed, Moves
  <2>2. UNCHANGED <<entry, vstatus, tick, client>> /\ ~RunMinds(r, n)
    BY <1>4 DEF PassGate, VerifyFailed, table, nodes, RunMinds
  <2> QED
    BY <1>1, <2>1, <2>2
<1>5. ASSUME NEW b \in BOOLEAN, VerifyDone(r, b) PROVE Marked(n)'
  <2>1. /\ \A q \in Run : q # r => run'[q] = run[q]
        /\ ~RunMinds(r, n) /\ UNCHANGED <<entry, tick, client>>
    BY <1>0, <1>5, GotoKeeps DEF VerifyDone, table, RunMinds
  <2>2. vstatus'[n] = "in_queue" => vstatus[n] = "in_queue"
    BY <1>0, <1>5 DEF VerifyDone, TypeOK
  <2> QED
    BY <2>1, <2>2, RunMarks DEF ActiveFor
<1>6. CASE VerifyFollowUp(r)
  <2>1. /\ \A q \in Run : q # r => run'[q] = run[q]
        /\ ~RunMinds(r, n) /\ UNCHANGED <<tick, client>>
    BY <1>0, <1>6, GotoKeeps DEF VerifyFollowUp, RunMinds
  <2>2. PICK m, k, ch, d : Insert(m, k, ch, d) /\ m = RunNode(r)
    BY <1>6 DEF VerifyFollowUp, RunNode
  <2>3. n # RunNode(r) => vstatus'[n] = vstatus[n]
    BY <1>0, <1>6 DEF VerifyFollowUp, TypeOK, RunNode
  <2>4. /\ \A i \in ActiveFor(n) : entry'[i].status \in Active
        /\ n = m => Marked(n)'
    BY <2>2, InsertActive DEF Marked
  <2> QED
    BY <2>1, <2>2, <2>3, <2>4, RunMarks
<1>7. CASE Complete(r)
  <2>1. /\ \A q \in Run : q # r => run'[q] = run[q]
        /\ run'[r].pc \in {"retry", "clear"} /\ run'[r].id = run[r].id
        /\ ~RunMinds(r, n) /\ UNCHANGED <<vstatus, tick, client>>
    BY <1>0, <1>7, GotoKeeps DEF Complete, nodes, RunMinds
  <2>2. ASSUME NEW i \in ActiveFor(n), i = run[r].id PROVE Marked(n)'
    <3>1. i \in 1..lastId /\ NodeOf(i) = n
      BY IdsUsed DEF ActiveFor
    <3>2. entry'[i].node = n
      BY <3>1, RowsKeep DEF NodeOf
    <3>3. RunMinds(r, n)'
      BY <2>1, <2>2, <3>2 DEF RunMinds, RunNode, NodeOf
    <3> QED
      BY <3>3 DEF Marked, Minding
  <2>3. \A i \in ActiveFor(n) : entry'[i].status \in Active \/ Marked(n)'
    <3>1. \E st : entry' = WithStatus({run[r].id}, st)
      BY <1>7 DEF Complete
    <3> QED
      BY <1>0, <2>2, <3>1, OthersActive
  <2> QED
    BY <2>1, <2>3, RunMarks
<1>8. CASE Requeue(r)
  <2>1. UNCHANGED <<vstatus, tick, client>>
    BY <1>8 DEF Requeue, nodes
  <2>2. \E p : Goto(r, p)
    BY <1>8 DEF Requeue
  <2>3. /\ \A q \in Run : q # r => run'[q] = run[q]
        /\ run'[r].id = run[r].id
    BY <1>0, <2>2, GotoKeeps
  <2>4. run[r].id \in 1..lastId
    BY <1>8, IdsUsed DEF Requeue
  <2>5. CASE UNCHANGED table /\ Goto(r, "clear")
    <3>1. RunMinds(r, n) => RunMinds(r, n)'
      <4>1. run'[r].pc = "clear"
        BY <1>0, <2>5, GotoKeeps
      <4> QED
        BY <2>3, <2>5, <4>1 DEF table, RunMinds, RunNode, NodeOf
    <3>2. \A i \in ActiveFor(n) : entry'[i].status \in Active
      BY <2>5 DEF table, ActiveFor
    <3> QED
      BY <2>1, <2>3, <3>1, <3>2, RunMarks DEF Marked, Minding
  <2>6. ASSUME NEW k, NEW ch, NEW d, Insert(RunNode(r), k, ch, d) PROVE Marked(n)'
    <3>1. PICK m : m = RunNode(r)
      OBVIOUS
    <3>2. /\ \A i \in ActiveFor(n) : entry'[i].status \in Active
          /\ n = m => Marked(n)'
      BY <2>6, <3>1, InsertActive DEF Marked
    <3>3. RunMinds(r, n) => n = m
      BY <3>1 DEF RunMinds
    <3> QED
      BY <2>1, <2>3, <3>2, <3>3, RunMarks
  <2> QED
    BY <1>8, <2>5, <2>6 DEF Requeue, RunNode, NodeOf
<1>9. CASE ClearAfter(r)
  <2>1. /\ \A q \in Run : q # r => run'[q] = run[q]
        /\ UNCHANGED <<entry, tick, client>>
    BY <1>0, <1>9, GotoKeeps DEF ClearAfter, table
  <2>2. /\ vstatus'[n] = "in_queue" => vstatus[n] = "in_queue"
        /\ n \in {RunNode(r)} => Marked(n)'
    BY <1>9, <2>1, ClearSettles DEF ClearAfter, Marked
  <2>3. RunMinds(r, n) => n \in {RunNode(r)}
    BY DEF RunMinds
  <2> QED
    BY <2>1, <2>2, <2>3, RunMarks DEF ActiveFor
<1>10. CASE Finally(r)
  <2>1. /\ \A q \in Run : q # r => run'[q] = run[q]
        /\ ~RunMinds(r, n) /\ UNCHANGED <<entry, vstatus, tick, client>>
    BY <1>0, <1>10 DEF Finally, TypeOK, table, RunMinds
  <2> QED
    BY <2>1, RunMarks DEF ActiveFor
<1>11. ~EndingThrows(r) /\ ~CompleteLost(r)
  BY <1>0 DEF EndingThrows, CompleteLost, TypeOK
<1> QED
  BY <1>2, <1>3, <1>4, <1>5, <1>6, <1>7, <1>8, <1>9, <1>10, <1>11 DEF Execute, Verified

\* The worker's slots and its tick keep the marks right.
LEMMA MarksOfWorker ==
  ASSUME Base, TableMove, NEW n \in Node, Marked(n), FillSlot \/ Heal
  PROVE  Marked(n)'
<1>0. TypeOK
  BY DEF Base, IInv
<1>1. CASE StartClaim \/ ClaimNothing
  <2>1. UNCHANGED <<entry, vstatus, tick, client, run>>
    BY <1>1 DEF StartClaim, ClaimNothing, table, nodes
  <2> QED
    BY <2>1, MarkStep DEF ActiveFor
<1>2. ASSUME NEW r \in Run, NEW i \in Ids, Claim(r, i) PROVE Marked(n)'
  <2>1. /\ \A q \in Run : q # r => run'[q] = run[q]
        /\ ~RunMinds(r, n) /\ UNCHANGED <<vstatus, tick, client>>
    BY <1>0, <1>2 DEF Claim, TypeOK, nodes, RunMinds
  <2>2. \A j \in ActiveFor(n) : entry'[j].status \in Active
    BY <1>0, <1>2, SetActive DEF Claim, Active
  <2> QED
    BY <2>1, <2>2, RunMarks
<1>3. ASSUME NEW i \in Ids, Watchdog(i) PROVE Marked(n)'
  <2>1. UNCHANGED <<entry, vstatus, client>> /\ ~TickMinds(n)
    BY <1>3 DEF Watchdog, table, nodes, TickMinds
  <2>2. \A r \in Run : run'[r].pc = run[r].pc /\ run'[r].id = run[r].id
    <3>1. \E S : run' = Aborting(S)
      BY <1>3 DEF Watchdog
    <3> QED
      BY <1>0, <3>1, AbortKeeps
  <2> QED
    BY <2>1, <2>2, TickMarks DEF ActiveFor
<1>4. ASSUME NEW i \in Ids, NEW late, Orphan(i, late) PROVE Marked(n)'
  <2>1. UNCHANGED <<entry, vstatus, client, run>> /\ ~TickMinds(n)
    BY <1>4 DEF Orphan, table, nodes, TickMinds
  <2> QED
    BY <2>1, TickMarks DEF ActiveFor
<1>5. CASE WatchdogFail \/ OrphanDrop
  <2>1. /\ UNCHANGED <<vstatus, client, run>> /\ ~TickMinds(n)
        /\ tick'.pc \in {"killed", "dropped"} /\ tick'.id = tick.id
    BY <1>0, <1>5 DEF WatchdogFail, OrphanDrop, TypeOK, nodes, TickMinds
  <2>2. ASSUME NEW i \in ActiveFor(n), i = tick.id PROVE Marked(n)'
    <3>1. i \in 1..lastId /\ NodeOf(i) = n
      BY IdsUsed DEF ActiveFor
    <3>2. entry'[i].node = n
      BY <3>1, RowsKeep DEF NodeOf
    <3>3. TickMinds(n)'
      BY <2>1, <2>2, <3>2 DEF TickMinds, NodeOf
    <3> QED
      BY <3>3 DEF Marked, Minding
  <2>3. \A i \in ActiveFor(n) : entry'[i].status \in Active \/ Marked(n)'
    <3>1. \E st : entry' = WithStatus({tick.id}, st)
      BY <1>5 DEF WatchdogFail, OrphanDrop
    <3> QED
      BY <1>0, <2>2, <3>1, OthersActive
  <2> QED
    BY <2>1, <2>3, TickMarks
<1>6. CASE OrphanReset
  <2>1. UNCHANGED <<vstatus, client, run>> /\ ~TickMinds(n)
    BY <1>6 DEF OrphanReset, nodes, TickMinds
  <2>2. \A i \in ActiveFor(n) : entry'[i].status \in Active
    <3>1. CASE entry' = entry
      BY <3>1 DEF ActiveFor
    <3>2. CASE entry' = WithStatus({tick.id}, "pending")
      BY <1>0, <3>2, SetActive DEF Active
    <3> QED
      BY <1>6, <3>1, <3>2 DEF OrphanReset
  <2> QED
    BY <2>1, <2>2, TickMarks
<1>7. CASE TickThaw
  <2>1. UNCHANGED <<entry, client, run>>
    BY <1>7 DEF TickThaw, table
  <2>2. CASE tick.pc = "wasReset"
    BY <1>7, <2>1, <2>2, TickMarks DEF TickThaw, TickMinds, ActiveFor
  <2>3. CASE Clear({NodeOf(tick.id)})
    <3>1. /\ vstatus'[n] = "in_queue" => vstatus[n] = "in_queue"
          /\ n \in {NodeOf(tick.id)} => Marked(n)'
      BY <2>1, <2>3, ClearSettles DEF Marked
    <3>2. TickMinds(n) => n \in {NodeOf(tick.id)}
      BY DEF TickMinds
    <3> QED
      BY <2>1, <3>1, <3>2, TickMarks DEF ActiveFor
  <2> QED
    BY <1>7, <2>2, <2>3 DEF TickThaw
<1> QED
  BY <1>1, <1>2, <1>3, <1>4, <1>5, <1>6, <1>7 DEF FillSlot, Heal

\* As long as the server has not crashed every step keeps the marks right.
LEMMA MarksStep ==
  ASSUME Base, MarksFit, [Next]_vars
  PROVE  MarksFit'
<1>0. TableMove /\ TypeOK
  BY BaseStep DEF Base, IInv
<1>1. CallsFit'
  BY <1>0, CallsFitStep DEF MarksFit
<1>2. CASE CrashRestart
  BY <1>0, <1>1, <1>2 DEF CrashRestart, MarksFit, TypeOK
<1>3. ASSUME UNCHANGED <<crashes, lost>>, \A n \in Node : Marked(n) => Marked(n)'
      PROVE  MarksFit'
  BY <1>1, <1>3 DEF MarksFit
<1>4. ASSUME NEW c \in Client, Caller(c) PROVE MarksFit'
  <2>1. UNCHANGED <<crashes, lost>>
    BY <1>4 DEF Caller, Enqueue, CancelByNode, Remove, Bulk, Cancel, RemoveActive, EnqueueInsert,
       CancelUpdate, CancelClear, RemovePending, RemoveClear, RemoveThaw, RemoveArchive, BulkUpdate,
       BulkClear, outside
  <2> QED
    BY <1>0, <1>3, <1>4, <2>1, MarksOfCaller DEF MarksFit
<1>5. ASSUME NEW r \in Run, Execute(r) PROVE MarksFit'
  <2>1. CASE EndingThrows(r) \/ CompleteLost(r)
    BY <1>0, <1>1, <2>1 DEF EndingThrows, CompleteLost, MarksFit, TypeOK
  <2>2. CASE ~EndingThrows(r) /\ ~CompleteLost(r)
    <3>1. UNCHANGED <<crashes, lost>>
      BY <1>5, <2>2 DEF Execute, Verified, Freeze, Release, PassGate, VerifyDone, VerifyFollowUp,
         VerifyFailed, Complete, Requeue, ClearAfter, Finally, outside
    <3> QED
      BY <1>0, <1>3, <1>5, <3>1, MarksOfRun
  <2> QED
    BY <2>1, <2>2
<1>6. CASE FillSlot \/ Heal
  <2>1. UNCHANGED <<crashes, lost>>
    BY <1>6 DEF FillSlot, StartClaim, ClaimNothing, Claim, Heal, Watchdog, Orphan, WatchdogFail,
       OrphanReset, OrphanDrop, TickThaw, outside
  <2> QED
    BY <1>0, <1>3, <1>6, <2>1, MarksOfWorker
<1>7. CASE Stop
  <2>1. UNCHANGED <<crashes, lost, entry, vstatus, tick, client>>
    BY <1>7 DEF Stop, table, nodes, outside
  <2>2. \A r \in Run : run'[r].pc = run[r].pc /\ run'[r].id = run[r].id
    <3>1. \E S : run' = Aborting(S)
      BY <1>7 DEF Stop
    <3> QED
      BY <1>0, <3>1, AbortKeeps
  <2>3. \A n \in Node : Marked(n) => Marked(n)'
    BY <1>0, <2>1, <2>2, MarkStep DEF ActiveFor
  <2> QED
    BY <1>3, <2>1, <2>3
<1>8. CASE Start \/ Budget \/ UNCHANGED vars
  <2>1. UNCHANGED <<crashes, lost, entry, vstatus, tick, client, run>>
    BY <1>8 DEF Start, Budget, vars, table, nodes, worker, outside
  <2>2. \A n \in Node : Marked(n) => Marked(n)'
    BY <1>0, <2>1, MarkStep DEF ActiveFor
  <2> QED
    BY <1>3, <2>1, <2>2
<1> QED
  BY <1>2, <1>4, <1>5, <1>6, <1>7, <1>8 DEF Next

\* Until the server crashes or a write at the end of a pipeline fails, a node shows
\* 'in_queue' only while it has an active row or while somebody who ended its last one is
\* about to clear the mark (evm/queue.ts, clearNodeQueueStatus).  Either fault loses who
\* was about to, and nothing that comes later looks at the marks.
THEOREM MarksCleared == Spec => [](crashes = 0 /\ lost = 0 => InQueueHasEntry)
<1>1. Init => Base /\ MarksFit
  BY InitBase DEF Init, MarksFit, CallsFit, IdleCall, Marked, Settled
<1>2. Base /\ MarksFit /\ [Next]_vars => (Base /\ MarksFit)'
  BY BaseStep, MarksStep
<1>3. Base /\ MarksFit => (crashes = 0 /\ lost = 0 => InQueueHasEntry)
  BY DEF MarksFit, Marked, Settled, Minding, TickMinds, RunMinds, CallMinds, InQueueHasEntry
<1> QED
  BY <1>1, <1>2, <1>3, PTL DEF Spec
-----------------------------------------------------------------------------
(* Freezes *)

\* A pipeline that goes on still holds the freeze of its node.
LEMMA FrozeStays ==
  ASSUME Base, TableMove, NEW n, NEW r \in Run, Froze(r, n),
         run'[r].pc \notin {"idle", "start"}, run'[r].id = run[r].id, run'[r].froze = run[r].froze
  PROVE  FrozeAlive(n)'
<1>1. run[r].id \in 1..lastId
  BY IdsUsed DEF Froze
<1>2. entry'[run[r].id].node = entry[run[r].id].node
  BY <1>1, RowsKeep DEF NodeOf
<1>3. Froze(r, n)'
  BY <1>2 DEF Froze, RunNode, NodeOf
<1> QED
  BY <1>3 DEF FrozeAlive

\* A node that is not frozen anew stays one row's, and held if it was.
LEMMA FreezeKeeps ==
  ASSUME Base, TableMove, NEW n \in Node, Own(n),
         frozenBy'[n] = 0 \/ frozenBy'[n] = frozenBy[n],
         \A r \in Run : Froze(r, n) => frozenBy'[n] = 0 \/ FrozeAlive(n)'
  PROVE  Own(n)' /\ (Held(n) => Held(n)')
<1>1. ASSUME frozenBy'[n] # 0 PROVE frozenBy'[n] \in 1..lastId
  BY <1>1 DEF Own, Base, IInv, TypeOK
<1>2. Own(n)'
  <2>1. ASSUME frozenBy'[n] # 0
        PROVE  frozenBy'[n] <= lastId' /\ entry'[frozenBy'[n]].node = n
    <3>1. PICK i \in 1..lastId : i = frozenBy'[n]
      BY <1>1, <2>1
    <3>2. NodeOf(i) = n
      BY <2>1, <3>1 DEF Own
    <3>3. i \in 1..lastId' /\ entry'[i].node = n
      BY <3>2, RowsKeep DEF NodeOf
    <3> QED
      BY <3>1, <3>3
  <2> QED
    BY <2>1 DEF Own, NodeOf
<1>3. Held(n) => Held(n)'
  BY DEF Held, FrozeAlive
<1> QED
  BY <1>2, <1>3

\* A freeze keeps its cause unless the row ends, or who would thaw the node moves on.
LEMMA CauseKeeps ==
  ASSUME Base, TableMove, NEW n \in Node, Own(n), Caused(n),
         frozenBy'[n] = 0 \/ frozenBy'[n] = frozenBy[n],
         \A r \in Run : Froze(r, n) => Caused(n)' \/ FrozeAlive(n)',
         TickMinds(n) => Caused(n)' \/ tick' = tick,
         \A i \in ActiveFor(n) : Caused(n)' \/ entry'[i].status \in Active
  PROVE  Caused(n)'
<1>1. CASE frozenBy'[n] = 0
  BY <1>1 DEF Caused
<1>2. CASE frozenBy'[n] # 0
  <2>1. frozenBy'[n] = frozenBy[n] /\ frozenBy[n] # 0
    BY <1>2
  <2>2. CASE FrozeAlive(n)
    BY <2>2 DEF Caused, FrozeAlive
  <2>3. CASE TickMinds(n)
    BY <2>3, TickStays DEF Caused
  <2>4. CASE entry[frozenBy[n]].status \in Active
    <3>1. frozenBy[n] \in 1..lastId /\ NodeOf(frozenBy[n]) = n
      BY <2>1 DEF Own, Base, IInv, TypeOK
    <3>2. frozenBy[n] \in ActiveFor(n)
      BY <2>4, <3>1, IdsUsed DEF ActiveFor
    <3> QED
      BY <2>1, <3>2 DEF Caused
  <2> QED
    BY <2>1, <2>2, <2>3, <2>4 DEF Caused
<1> QED
  BY <1>1, <1>2

\* What a step keeps of the freeze of node n, the last part when nobody cancels and
\* every pipeline freezes
FreezeOn(n) == /\ Own(n)'
               /\ Held(n) => Held(n)'
               /\ Unattended /\ Served /\ Caused(n) => Caused(n)'

\* Callers keep the freezes right: who cancels the entry of a freeze thaws the node.
LEMMA FreezesOfCaller ==
  ASSUME Base, TableMove, NEW n \in Node, Own(n), NEW c \in Client, Caller(c)
  PROVE  FreezeOn(n)
<1>0. TypeOK
  BY DEF Base, IInv
<1>1. \A r \in Run : run'[r].pc = run[r].pc /\ run'[r].id = run[r].id /\ run'[r].froze = run[r].froze
  <2>1. run' = run \/ \E S : run' = Aborting(S)
    BY DEF Caller, Enqueue, CancelByNode, Remove, Bulk, Cancel, RemoveActive, EnqueueInsert,
       CancelUpdate, CancelClear, RemovePending, RemoveClear, RemoveThaw, RemoveArchive, BulkUpdate,
       BulkClear, worker
  <2> QED
    BY <1>0, <2>1, AbortKeeps
<1>2. frozenBy'[n] = 0 \/ frozenBy'[n] = frozenBy[n]
  <2>1. frozenBy' = frozenBy \/ \E N : Unfreeze(N)
    BY DEF Caller, Enqueue, CancelByNode, Remove, Bulk, Cancel, RemoveActive, EnqueueInsert,
       CancelUpdate, CancelClear, RemovePending, RemoveClear, RemoveThaw, RemoveArchive, BulkUpdate,
       BulkClear, nodes
  <2> QED
    BY <2>1 DEF Unfreeze
<1>3. \A r \in Run : Froze(r, n) => FrozeAlive(n)'
  BY <1>1, FrozeStays DEF Froze
<1>4. Own(n)' /\ (Held(n) => Held(n)')
  BY <1>2, <1>3, FreezeKeeps
<1>5. ASSUME Unattended, Served, Caused(n) PROVE Caused(n)'
  <2>1. \/ \E m \in Node : Enqueue(c, m)
        \/ EnqueueInsert(c)
    BY <1>5 DEF Caller, Unattended, Served, CancelByNode, Remove, Bulk, Cancel, RemoveActive,
       CancelUpdate, CancelClear, RemovePending, RemoveClear, RemoveThaw, RemoveArchive, BulkUpdate,
       BulkClear
  <2>2. tick' = tick
    BY <2>1 DEF Enqueue, EnqueueInsert, worker
  <2>3. \A i \in ActiveFor(n) : entry'[i].status \in Active
    <3>1. CASE \E m \in Node : Enqueue(c, m)
      BY <3>1 DEF Enqueue, table, ActiveFor
    <3>2. CASE EnqueueInsert(c)
      <4>1. \E m : Insert(m, 0, "none", 0)
        BY <3>2 DEF EnqueueInsert
      <4> QED
        BY <4>1, InsertActive
    <3> QED
      BY <2>1, <3>1, <3>2
  <2> QED
    BY <1>2, <1>3, <1>5, <2>2, <2>3, CauseKeeps
<1> QED
  BY <1>4, <1>5 DEF FreezeOn

\* Pipelines keep the freezes right: who froze the node thaws it last.
LEMMA FreezesOfRun ==
  ASSUME Base, TableMove, NEW n \in Node, Own(n), NEW r \in Run, Execute(r)
  PROVE  FreezeOn(n)
<1>0. TypeOK
  BY DEF Base, IInv
<1>1. UNCHANGED <<tick, client>>
  BY DEF Execute, Verified, Freeze, Release, PassGate, VerifyDone, VerifyFollowUp,
     VerifyFailed, Complete, EndingThrows, CompleteLost, Requeue, ClearAfter, Finally
<1>2. \A q \in Run : q # r => run'[q] = run[q]
  <2>1. CASE \E p : Moves(r, p)
    BY <1>0, <2>1, MoveKeeps
  <2>2. CASE (\E yes \in FreezeOnStart : Freeze(r, yes)) \/ Finally(r)
    BY <1>0, <2>2 DEF Freeze, Finally, TypeOK
  <2> QED
    BY <2>1, <2>2 DEF Execute, Verified, Release, PassGate, VerifyDone, VerifyFollowUp,
       VerifyFailed, Complete, EndingThrows, CompleteLost, Requeue, ClearAfter, Moves
<1>3. ASSUME NEW q \in Run, q # r, Froze(q, n) PROVE FrozeAlive(n)'
  BY <1>2, <1>3, FrozeStays DEF Froze
<1>4. ASSUME NEW p, Moves(r, p),
             {p, run[r].pc} \cap {"idle", "start"} = {}, UNCHANGED frozenBy,
             \A i \in ActiveFor(n) : entry'[i].status \in Active \/ i = run[r].id
      PROVE  FreezeOn(n)
  <2>1. run'[r].pc = p /\ run'[r].id = run[r].id /\ run'[r].froze = run[r].froze
    BY <1>0, <1>4, MoveKeeps
  <2>2. Froze(r, n) => FrozeAlive(n)'
    BY <1>4, <2>1, FrozeStays
  <2>3. \A q \in Run : Froze(q, n) => FrozeAlive(n)'
    BY <1>3, <2>2
  <2>4. Own(n)' /\ (Held(n) => Held(n)')
    BY <1>4, <2>3, FreezeKeeps
  <2>5. ASSUME Served, Caused(n) PROVE Caused(n)'
    <3>1. \A i \in ActiveFor(n) : i = run[r].id => Froze(r, n)
      BY <1>4, <2>5 DEF Served, Froze, RunNode, ActiveFor
    <3>2. \A i \in ActiveFor(n) : Caused(n)' \/ entry'[i].status \in Active
      BY <1>4, <2>2, <3>1 DEF Caused
    <3> QED
      BY <1>1, <1>4, <2>3, <2>5, <3>2, CauseKeeps
  <2> QED
    BY <2>4, <2>5 DEF FreezeOn
<1>5. ASSUME NEW i \in ActiveFor(n), UNCHANGED entry PROVE entry'[i].status \in Active
  BY <1>5 DEF ActiveFor
<1>6. CASE PassGate(r) \/ VerifyFailed(r) \/ EndingThrows(r) \/ CompleteLost(r) \/ ClearAfter(r)
  <2>1. PICK p \in {"verify", "failed", "finally"} : Moves(r, p)
    BY <1>6 DEF PassGate, VerifyFailed, EndingThrows, CompleteLost, ClearAfter, Moves
  <2>2. UNCHANGED <<entry, frozenBy>> /\ run[r].pc \in {"gate", "verify", "done", "failed", "retry", "clear"}
    BY <1>6 DEF PassGate, VerifyFailed, EndingThrows, CompleteLost, ClearAfter, table, nodes
  <2> QED
    BY <1>4, <1>5, <2>1, <2>2
<1>7. ASSUME NEW b \in BOOLEAN, VerifyDone(r, b) PROVE FreezeOn(n)
  <2>1. /\ Goto(r, "done") /\ run[r].pc = "verify" /\ UNCHANGED <<entry, frozenBy>>
    BY <1>7 DEF VerifyDone, table
  <2> QED
    BY <1>4, <1>5, <2>1 DEF Moves
<1>8. CASE Release(r)
  <2>1. /\ Goto(r, "finally") /\ run[r].pc \in {"gate", "verify"} /\ UNCHANGED frozenBy
        /\ entry' = entry \/ entry' = WithStatus({run[r].id}, "pending")
    BY <1>8 DEF Release, nodes
  <2>2. \A i \in ActiveFor(n) : entry'[i].status \in Active
    BY <1>0, <1>5, <2>1, SetActive DEF Active
  <2> QED
    BY <1>4, <2>1, <2>2 DEF Moves
<1>9. CASE VerifyFollowUp(r)
  <2>1. /\ Goto(r, "done") /\ run[r].pc = "verify" /\ UNCHANGED frozenBy
        /\ \E m, k, ch, d : Insert(m, k, ch, d)
    BY <1>9 DEF VerifyFollowUp
  <2>2. \A i \in ActiveFor(n) : entry'[i].status \in Active
    BY <2>1, InsertActive
  <2> QED
    BY <1>4, <2>1, <2>2 DEF Moves
<1>10. CASE Complete(r)
  <2>1. PICK p \in {"clear", "retry"} : Goto(r, p)
    BY <1>10 DEF Complete
  <2>2. /\ run[r].pc \in {"done", "failed"} /\ UNCHANGED frozenBy
        /\ \E st : entry' = WithStatus({run[r].id}, st)
    BY <1>10 DEF Complete, nodes
  <2>3. \A i \in ActiveFor(n) : entry'[i].status \in Active \/ i = run[r].id
    BY <1>0, <2>2, OthersActive
  <2> QED
    BY <1>4, <2>1, <2>2, <2>3 DEF Moves
<1>11. CASE Requeue(r)
  <2>1. PICK p \in {"clear", "finally"} : Goto(r, p)
    BY <1>11 DEF Requeue
  <2>2. /\ run[r].pc = "retry" /\ UNCHANGED frozenBy
        /\ UNCHANGED entry \/ \E m, k, ch, d : Insert(m, k, ch, d)
    BY <1>11 DEF Requeue, table, nodes
  <2>3. \A i \in ActiveFor(n) : entry'[i].status \in Active
    BY <1>5, <2>2, InsertActive
  <2> QED
    BY <1>4, <2>1, <2>2, <2>3 DEF Moves
<1>12. CASE Finally(r)
  <2>1. UNCHANGED entry /\ (run[r].froze => Unfreeze({RunNode(r)})) /\ (~run[r].froze => UNCHANGED frozenBy)
    BY <1>12 DEF Finally, table
  <2>2. /\ frozenBy'[n] = 0 \/ frozenBy'[n] = frozenBy[n]
        /\ Froze(r, n) => frozenBy'[n] = 0
    BY <2>1 DEF Unfreeze, Froze
  <2>3. \A q \in Run : Froze(q, n) => frozenBy'[n] = 0 \/ FrozeAlive(n)'
    BY <1>3, <2>2
  <2>4. Own(n)' /\ (Held(n) => Held(n)')
    BY <2>2, <2>3, FreezeKeeps
  <2>5. frozenBy'[n] = 0 => Caused(n)'
    BY DEF Caused
  <2>6. Caused(n) => Caused(n)'
    BY <1>1, <1>5, <2>1, <2>2, <2>3, <2>5, CauseKeeps
  <2> QED
    BY <2>4, <2>6 DEF FreezeOn
<1>13. ASSUME NEW yes \in FreezeOnStart, Freeze(r, yes) PROVE FreezeOn(n)
  <2>1. /\ run[r].pc = "start" /\ UNCHANGED entry /\ run'[r].pc = "gate" /\ run'[r].id = run[r].id
        /\ run'[r].froze = yes
    <3>1. run[r] \in Pipeline
      BY <1>0 DEF TypeOK
    <3> QED
      BY <1>0, <1>13, <3>1 DEF Freeze, TypeOK, table, Pipeline
  <2>2. \A q \in Run : Froze(q, n) => FrozeAlive(n)'
    BY <1>3, <2>1 DEF Froze
  <2>3. CASE frozenBy'[n] = frozenBy[n]
    <3>1. Own(n)' /\ (Held(n) => Held(n)')
      BY <2>2, <2>3, FreezeKeeps
    <3>2. Caused(n) => Caused(n)'
      BY <1>1, <1>5, <2>1, <2>2, <2>3, CauseKeeps
    <3> QED
      BY <3>1, <3>2 DEF FreezeOn
  <2>4. CASE frozenBy'[n] # frozenBy[n]
    <3>1. yes /\ n = RunNode(r) /\ frozenBy'[n] = run[r].id
      BY <1>0, <1>13, <2>4 DEF Freeze, TypeOK
    <3>2. run[r].id \in 1..lastId
      BY <2>1, IdsUsed
    <3>3. run[r].id <= lastId' /\ entry'[run[r].id].node = n
      BY <2>1, <3>1, <3>2, RowsKeep DEF RunNode, NodeOf
    <3>4. Froze(r, n)'
      BY <2>1, <3>1, <3>3 DEF Froze, RunNode, NodeOf
    <3>5. Own(n)' /\ FrozeAlive(n)'
      BY <3>1, <3>3, <3>4 DEF Own, NodeOf, FrozeAlive
    <3> QED
      BY <3>5 DEF FreezeOn, Held, Caused
  <2> QED
    BY <2>3, <2>4
<1> QED
  BY <1>6, <1>7, <1>8, <1>9, <1>10, <1>11, <1>12, <1>13 DEF Execute, Verified

\* So do the worker's slots and its tick: who ends an entry goes on to thaw its node.
LEMMA FreezesOfWorker ==
  ASSUME Base, TableMove, NEW n \in Node, Own(n), FillSlot \/ Heal
  PROVE  FreezeOn(n)
<1>0. TypeOK
  BY DEF Base, IInv
<1>1. \A r \in Run : run[r].pc # "idle" =>
        run'[r].pc = run[r].pc /\ run'[r].id = run[r].id /\ run'[r].froze = run[r].froze
  <2>1. CASE run' = run
    BY <2>1
  <2>2. CASE \E S : run' = Aborting(S)
    BY <1>0, <2>2, AbortKeeps
  <2>3. CASE \E r \in Run, i \in Ids : Claim(r, i)
    BY <1>0, <2>3 DEF Claim, TypeOK
  <2> QED
    BY <2>1, <2>2, <2>3 DEF FillSlot, StartClaim, ClaimNothing, Heal, Watchdog, Orphan,
       WatchdogFail, OrphanReset, OrphanDrop, TickThaw
<1>2. \A r \in Run : Froze(r, n) => FrozeAlive(n)'
  BY <1>1, FrozeStays DEF Froze
<1>3. frozenBy'[n] = 0 \/ frozenBy'[n] = frozenBy[n]
  <2>1. UNCHANGED frozenBy \/ \E N : Unfreeze(N)
    BY DEF FillSlot, StartClaim, ClaimNothing, Claim, Heal, Watchdog, Orphan, WatchdogFail,
       OrphanReset, OrphanDrop, TickThaw, nodes
  <2> QED
    BY <2>1 DEF Unfreeze
<1>4. Own(n)' /\ (Held(n) => Held(n)')
  BY <1>2, <1>3, FreezeKeeps
<1>5. SUFFICES ASSUME Caused(n)
               PROVE  /\ TickMinds(n) => Caused(n)' \/ tick' = tick
                      /\ \A i \in ActiveFor(n) : Caused(n)' \/ entry'[i].status \in Active
  BY <1>2, <1>3, <1>4, CauseKeeps DEF FreezeOn
<1>6. ASSUME UNCHANGED entry, NEW i \in ActiveFor(n) PROVE entry'[i].status \in Active
  BY <1>6 DEF ActiveFor
<1>7. CASE StartClaim \/ ClaimNothing
  BY <1>6, <1>7 DEF StartClaim, ClaimNothing, table
<1>8. ASSUME NEW r \in Run, NEW i \in Ids, Claim(r, i)
      PROVE  tick' = tick /\ \A j \in ActiveFor(n) : entry'[j].status \in Active
  BY <1>0, <1>8, SetActive DEF Claim, Active
<1>9. ASSUME NEW i \in Ids, Watchdog(i) \/ \E late \in BOOLEAN : Orphan(i, late)
      PROVE  UNCHANGED entry /\ ~TickMinds(n)
  BY <1>9 DEF Watchdog, Orphan, table, TickMinds
<1>10. CASE WatchdogFail \/ OrphanDrop
  <2>1. tick'.pc \in {"killed", "dropped"} /\ tick'.id = tick.id /\ ~TickMinds(n)
    BY <1>0, <1>10 DEF WatchdogFail, OrphanDrop, TypeOK, TickMinds
  <2>2. ASSUME NEW i \in ActiveFor(n), i = tick.id PROVE Caused(n)'
    <3>1. i \in 1..lastId /\ NodeOf(i) = n
      BY IdsUsed DEF ActiveFor
    <3>2. entry'[i].node = n
      BY <3>1, RowsKeep DEF NodeOf
    <3>3. TickMinds(n)'
      BY <2>1, <2>2, <3>2 DEF TickMinds, NodeOf
    <3> QED
      BY <3>3 DEF Caused
  <2>3. \E st : entry' = WithStatus({tick.id}, st)
    BY <1>10 DEF WatchdogFail, OrphanDrop
  <2> QED
    BY <1>0, <2>1, <2>2, <2>3, OthersActive
<1>11. CASE OrphanReset
  <2>1. entry' = entry \/ entry' = WithStatus({tick.id}, "pending")
    BY <1>11 DEF OrphanReset
  <2>2. ~TickMinds(n)
    BY <1>11 DEF OrphanReset, TickMinds
  <2>3. \A i \in ActiveFor(n) : entry'[i].status \in Active
    BY <1>0, <1>6, <2>1, SetActive DEF Active
  <2> QED
    BY <2>2, <2>3
<1>12. CASE TickThaw
  <2>1. TickMinds(n) => frozenBy'[n] = 0
    BY <1>12 DEF TickThaw, TickMinds, Unfreeze
  <2> QED
    BY <1>6, <1>12, <2>1 DEF TickThaw, table, Caused
<1> QED
  BY <1>6, <1>7, <1>8, <1>9, <1>10, <1>11, <1>12 DEF FillSlot, Heal

\* A restart keeps only the freezes whose entry is still to be processed.
LEMMA FreezesOfCrash ==
  ASSUME Base, TableMove, NEW n \in Node, Own(n), CrashRestart
  PROVE  Own(n)' /\ Caused(n)'
<1>0. TypeOK
  BY DEF Base, IInv
<1>1. frozenBy'[n] = IF n \in EndedFreezes THEN 0 ELSE frozenBy[n]
  BY DEF CrashRestart, Unfreeze
<1>2. CASE frozenBy'[n] = 0
  BY <1>2 DEF Own, Caused
<1>3. CASE frozenBy'[n] # 0
  <2>1. frozenBy'[n] = frozenBy[n] /\ frozenBy[n] # 0 /\ n \notin EndedFreezes
    BY <1>1, <1>3
  <2>2. PICK i \in 1..lastId : i = frozenBy[n] /\ NodeOf(i) = n
    BY <1>0, <2>1 DEF Own, TypeOK
  <2>3. i \in Ids /\ entry[i] \in Entry /\ entry[i].status # "absent"
    BY <1>0, <2>2, IdsUsed DEF Base, RowsNamed, TypeOK
  <2>4. entry[i].status \in Active
    BY <2>1, <2>2, <2>3 DEF EndedFreezes, Entry, Status
  <2>5. i \in ActiveFor(n)
    BY <2>2, <2>3, <2>4 DEF ActiveFor
  <2>6. entry'[i].status \in Active
    BY <1>0, <2>5, SetActive DEF CrashRestart, Active
  <2>7. i <= lastId' /\ entry'[i].node = n
    BY <2>2, RowsKeep DEF NodeOf
  <2> QED
    BY <2>1, <2>2, <2>6, <2>7 DEF Own, Caused, NodeOf
<1> QED
  BY <1>2, <1>3

\* If nobody cancels, no caller is ever about to; if every pipeline freezes, all have.
LEMMA ServedStep ==
  ASSUME TypeOK, Unattended, Served, [Next]_vars
  PROVE  Served'
<1>1. ASSUME NEW c \in Client, Caller(c) PROVE Served'
  <2>1. \/ \E m \in Node : Enqueue(c, m)
        \/ EnqueueInsert(c)
    BY <1>1 DEF Caller, Unattended, Served, CancelByNode, Remove, Bulk, Cancel, RemoveActive,
       CancelUpdate, CancelClear, RemovePending, RemoveClear, RemoveThaw, RemoveArchive, BulkUpdate,
       BulkClear
  <2> QED
    BY <2>1 DEF Enqueue, EnqueueInsert, Busy, IdleCall, Served, TypeOK, worker
<1>2. ASSUME UNCHANGED client, NEW r \in Run,
             \A q \in Run : q # r => run'[q] = run[q],
             run'[r].pc \notin {"idle", "start"} => run'[r].froze
      PROVE  Served'
  BY <1>2 DEF Served
<1>3. ASSUME NEW r \in Run, Execute(r) PROVE Served'
  <2>1. UNCHANGED client
    BY <1>3 DEF Execute, Verified, Freeze, Release, PassGate, VerifyDone, VerifyFollowUp,
       VerifyFailed, Complete, EndingThrows, CompleteLost, Requeue, ClearAfter, Finally
  <2>2. CASE (\E p : Moves(r, p)) /\ run[r].pc \notin {"idle", "start"}
    BY <1>2, <2>1, <2>2, MoveKeeps DEF Served
  <2>3. ASSUME NEW yes \in FreezeOnStart, Freeze(r, yes) PROVE Served'
    <3>1. run[r] \in Pipeline /\ yes = TRUE
      BY <2>3 DEF TypeOK, Unattended
    <3>2. run'[r].froze /\ \A q \in Run : q # r => run'[q] = run[q]
      BY <2>3, <3>1 DEF Freeze, TypeOK, Pipeline
    <3> QED
      BY <1>2, <2>1, <3>2
  <2>4. CASE Finally(r)
    BY <1>2, <2>1, <2>4 DEF Finally, IdleRun, TypeOK
  <2> QED
    BY <1>3, <2>2, <2>3, <2>4 DEF Execute, Verified, Release, PassGate, VerifyDone,
       VerifyFollowUp, VerifyFailed, Complete, EndingThrows, CompleteLost, Requeue, ClearAfter, Moves
<1>4. ASSUME UNCHANGED client, NEW S, run' = Aborting(S) PROVE Served'
  BY <1>4, AbortKeeps DEF Served
<1>5. ASSUME NEW r \in Run, NEW i \in Ids, Claim(r, i) PROVE Served'
  BY <1>2, <1>5 DEF Claim, TypeOK
<1>6. CASE CrashRestart
  BY <1>6 DEF CrashRestart, IdleRun, IdleCall, Served
<1>7. CASE UNCHANGED <<client, run>>
  BY <1>7 DEF Served
<1> QED
  BY <1>1, <1>3, <1>4, <1>5, <1>6, <1>7 DEF Next, FillSlot, StartClaim, ClaimNothing, Heal, Watchdog,
     Orphan, WatchdogFail, OrphanReset, OrphanDrop, TickThaw, Stop, Start, Budget, vars, worker

\* Every step keeps the freezes right.
LEMMA FreezesStep ==
  ASSUME Base, FreezesFit, [Next]_vars
  PROVE  FreezesFit'
<1>0. TableMove /\ TypeOK
  BY BaseStep DEF Base, IInv
<1>1. Unattended' <=> Unattended
  BY DEF Unattended
<1>2. Unattended => Served'
  BY <1>0, ServedStep DEF FreezesFit
<1>3. ASSUME UNCHANGED crashes, \A n \in Node : FreezeOn(n)
      PROVE  FreezesFit'
  BY <1>1, <1>2, <1>3 DEF FreezesFit, FreezeOn
<1>4. CASE CrashRestart
  <2>1. \A n \in Node : Own(n)' /\ Caused(n)'
    BY <1>0, <1>4, FreezesOfCrash DEF FreezesFit
  <2>2. crashes' # 0
    BY <1>0, <1>4 DEF CrashRestart, TypeOK
  <2> QED
    BY <1>1, <1>2, <2>1, <2>2 DEF FreezesFit
<1>5. ASSUME NEW c \in Client, Caller(c) PROVE FreezesFit'
  <2>1. UNCHANGED crashes
    BY <1>5 DEF Caller, Enqueue, CancelByNode, Remove, Bulk, Cancel, RemoveActive, EnqueueInsert,
       CancelUpdate, CancelClear, RemovePending, RemoveClear, RemoveThaw, RemoveArchive, BulkUpdate,
       BulkClear, outside
  <2> QED
    BY <1>0, <1>3, <1>5, <2>1, FreezesOfCaller DEF FreezesFit
<1>6. ASSUME NEW r \in Run, Execute(r) PROVE FreezesFit'
  <2>1. UNCHANGED crashes
    BY <1>6 DEF Execute, Verified, Freeze, Release, PassGate, VerifyDone, VerifyFollowUp,
       VerifyFailed, Complete, EndingThrows, CompleteLost, Requeue, ClearAfter, Finally, outside
  <2> QED
    BY <1>0, <1>3, <1>6, <2>1, FreezesOfRun DEF FreezesFit
<1>7. CASE FillSlot \/ Heal
  <2>1. UNCHANGED crashes
    BY <1>7 DEF FillSlot, StartClaim, ClaimNothing, Claim, Heal, Watchdog, Orphan, WatchdogFail,
       OrphanReset, OrphanDrop, TickThaw, outside
  <2> QED
    BY <1>0, <1>3, <1>7, <2>1, FreezesOfWorker DEF FreezesFit
<1>8. CASE Stop \/ Start \/ Budget \/ UNCHANGED vars
  <2>1. UNCHANGED <<crashes, entry, frozenBy, tick>>
    BY <1>8 DEF Stop, Start, Budget, vars, table, nodes, worker, outside
  <2>2. \A r \in Run : run'[r].pc = run[r].pc /\ run'[r].id = run[r].id /\ run'[r].froze = run[r].froze
    <3>1. run' = run \/ \E S : run' = Aborting(S)
      BY <1>8 DEF Stop, Start, Budget, vars, worker
    <3> QED
      BY <1>0, <3>1, AbortKeeps
  <2>3. ASSUME NEW n \in Node PROVE FreezeOn(n)
    <3>1. \A r \in Run : Froze(r, n) => FrozeAlive(n)'
      BY <1>0, <2>2, FrozeStays DEF Froze
    <3>2. Own(n) /\ \A i \in ActiveFor(n) : entry'[i].status \in Active
      BY <2>1 DEF ActiveFor, FreezesFit
    <3> QED
      BY <1>0, <2>1, <3>1, <3>2, FreezeKeeps, CauseKeeps DEF FreezeOn
  <2> QED
    BY <1>3, <2>1, <2>3
<1> QED
  BY <1>4, <1>5, <1>6, <1>7, <1>8 DEF Next

\* A node stays frozen only for a reason (lab/freeze.ts, and who thaws in
\* evm/queue-worker.ts), until the server crashes; and even if it does, when every
\* template freezes its node and nobody cancels entries.
THEOREM FreezesExplained == Spec => []((crashes = 0 \/ Unattended) => FrozenHasCause)
<1>1. Init => Base /\ FreezesFit
  BY InitBase DEF Init, FreezesFit, IdleCall, IdleRun, Own, Held, Caused, Served
<1>2. Base /\ FreezesFit /\ [Next]_vars => (Base /\ FreezesFit)'
  BY BaseStep, FreezesStep
<1>3. ASSUME Base, FreezesFit, crashes = 0 \/ Unattended PROVE FrozenHasCause
  <2>1. \A n \in Node : Caused(n)
    BY <1>3 DEF FreezesFit, Held, Caused
  <2>2. \A n \in Node : FrozeAlive(n) =>
          \E r \in Run : run[r].pc # "idle" /\ run[r].froze /\ RunNode(r) = n
    BY DEF FrozeAlive, Froze
  <2> QED
    BY <2>1, <2>2 DEF Caused, TickMinds, FrozenHasCause
<1>4. Base /\ FreezesFit => ((crashes = 0 \/ Unattended) => FrozenHasCause)
  BY <1>3
<1> QED
  BY <1>1, <1>2, <1>4, PTL DEF Spec
-----------------------------------------------------------------------------
(* Retries *)

\* Row i has ended, or it is as it was and tracked as it was.
Steady(i) == \/ entry'[i].status \in Terminal
             \/ entry'[i].status = entry[i].status /\ inflight'[i] = inflight[i]

\* A step in which pipelines at most move on and the rows in hand are steady
LEMMA OneEachKeeps ==
  ASSUME Base, TableMove, OneEach,
         \A r \in Run : run'[r].pc # "idle" =>
           run[r].pc # "idle" /\ run'[r].id = run[r].id /\ Steady(run[r].id),
         \A r \in Run : run'[r].pc = "retry" =>
           run[r].pc = "retry" \/ entry'[run'[r].id].status \in Terminal,
         TickFits'
  PROVE  OneEach'
<1>1. ASSUME NEW r \in Run PROVE Tracks(r)' /\ Alone(r)' /\ Failed(r)'
  <2>1. Tracks(r)'
    BY DEF OneEach, Tracks, Steady
  <2>2. Alone(r)'
    BY DEF OneEach, Alone
  <2>3. Failed(r)'
    <3>1. CASE run[r].pc = "retry" /\ run'[r].pc = "retry"
      <4>1. run[r].id \in 1..lastId /\ run'[r].id = run[r].id
        BY <3>1, IdsUsed
      <4>2. entry'[run[r].id].status \in Terminal
        BY <3>1, <4>1, RowsKeep DEF OneEach, Failed
      <4> QED
        BY <4>1, <4>2 DEF Failed
    <3> QED
      BY <3>1 DEF Failed
  <2> QED
    BY <2>1, <2>2, <2>3
<1> QED
  BY <1>1 DEF OneEach

\* What the tick has found out still holds if its row is steady or no longer tracked.
LEMMA TickFitsKeeps ==
  ASSUME Base, TableMove, OneEach, tick' = tick,
         tick.pc = "reset" => \/ Steady(tick.id)
                              \/ entry'[tick.id].status = entry[tick.id].status
                                 /\ inflight'[tick.id] = NoRun
  PROVE  TickFits'
<1>1. CASE tick.pc = "killed"
  <2>1. tick.id \in 1..lastId
    BY <1>1, IdsUsed
  <2>2. entry'[tick.id].status \in Terminal
    BY <1>1, <2>1, RowsKeep DEF OneEach, TickFits
  <2> QED
    BY <1>1, <2>2 DEF TickFits
<1>2. CASE tick.pc # "killed"
  BY <1>2 DEF TickFits, OneEach, Steady
<1> QED
  BY <1>1, <1>2

\* An UPDATE that ends rows leaves every row steady.
LEMMA EndsSteady ==
  ASSUME TypeOK, NEW S, NEW st \in Terminal, entry' = WithStatus(S, st), UNCHANGED inflight
  PROVE  \A i \in Ids : Steady(i)
<1>1. ASSUME NEW i \in Ids PROVE Steady(i)
  <2>1. entry'[i].status = IF i \in S THEN st ELSE entry[i].status
    BY StatusSet
  <2> QED
    BY <2>1 DEF Steady
<1> QED
  BY <1>1

\* An INSERT leaves the rows in use steady.
LEMMA InsertSteady ==
  ASSUME Base, NEW n, NEW k, NEW ch, NEW d, Insert(n, k, ch, d), UNCHANGED inflight
  PROVE  \A i \in 1..lastId : Steady(i)
<1>1. TypeOK /\ lastId \in Nat
  BY DEF Base, IInv, TypeOK
<1>2. ASSUME NEW i \in 1..lastId PROVE Steady(i)
  <2>1. i \in Ids /\ i # lastId + 1
    BY <1>1, IdsUsed
  <2> QED
    BY <1>1, <2>1, RowIn DEF Steady
<1> QED
  BY <1>2

\* Callers end rows, and untrack only those that they end.
LEMMA OneEachOfCaller ==
  ASSUME Base, TableMove, Undisturbed, Calm, OneEach, NEW c \in Client, Caller(c)
  PROVE  OneEach'
<1>0. TypeOK /\ 1..lastId \subseteq Ids
  BY IdsUsed DEF Base, IInv
<1>1. tick' = tick
  BY DEF Caller, Enqueue, CancelByNode, Remove, Bulk, Cancel, RemoveActive, EnqueueInsert,
     CancelUpdate, CancelClear, RemovePending, RemoveClear, RemoveThaw, RemoveArchive, BulkUpdate,
     BulkClear, worker
<1>2. \A r \in Run : run'[r].pc = run[r].pc /\ run'[r].id = run[r].id
  <2>1. run' = run \/ \E S : run' = Aborting(S)
    BY DEF Caller, Enqueue, CancelByNode, Remove, Bulk, Cancel, RemoveActive, EnqueueInsert,
       CancelUpdate, CancelClear, RemovePending, RemoveClear, RemoveThaw, RemoveArchive, BulkUpdate,
       BulkClear, worker
  <2> QED
    BY <1>0, <2>1, AbortKeeps
<1>3. \A i \in 1..lastId : Steady(i)
  <2>1. CASE UNCHANGED <<entry, inflight>>
    BY <2>1 DEF Steady
  <2>2. CASE UNCHANGED inflight /\ \E S : entry' = WithStatus(S, "cancelled")
    BY <1>0, <2>2, EndsSteady DEF Terminal
  <2>3. CASE EnqueueInsert(c)
    <3>1. UNCHANGED inflight /\ \E n : Insert(n, 0, "none", 0)
      BY <2>3 DEF EnqueueInsert
    <3> QED
      BY <3>1, InsertSteady
  <2>4. ASSUME NEW i \in Ids, RemoveActive(c, i) PROVE \A j \in 1..lastId : Steady(j)
    <3>1. ASSUME NEW j \in 1..lastId PROVE Steady(j)
      <4>1. entry' = WithStatus({i}, "cancelled")
        BY <2>4 DEF RemoveActive
      <4>2. entry'[j].status = IF j = i THEN "cancelled" ELSE entry[j].status
        BY <1>0, <4>1, OneSet
      <4>3. j # i => inflight'[j] = inflight[j]
        BY <1>0, <2>4 DEF RemoveActive, Untracking
      <4> QED
        BY <4>2, <4>3 DEF Steady, Terminal
    <3> QED
      BY <3>1
  <2> QED
    BY <2>1, <2>2, <2>3, <2>4 DEF Caller, Undisturbed, Calm, Enqueue, CancelByNode, Remove, Bulk,
       Cancel, CancelUpdate, CancelClear, RemovePending, RemoveClear, RemoveThaw, RemoveArchive,
       BulkUpdate, BulkClear, table, worker
<1>4. TickFits'
  BY <1>1, <1>3, IdsUsed, TickFitsKeeps
<1> QED
  BY <1>2, <1>3, <1>4, IdsUsed, OneEachKeeps

\* A pipeline ends its own row, and untracks it at the end.
LEMMA OneEachOfRun ==
  ASSUME Base, TableMove, Calm, OneEach, NEW r \in Run, Execute(r)
  PROVE  OneEach'
<1>0. TypeOK /\ 1..lastId \subseteq Ids
  BY IdsUsed DEF Base, IInv
<1>1. tick' = tick
  BY DEF Execute, Verified, Freeze, Release, PassGate, VerifyDone, VerifyFollowUp,
     VerifyFailed, Complete, EndingThrows, CompleteLost, Requeue, ClearAfter, Finally
<1>2. /\ run[r].pc # "idle"
      /\ \A q \in Run : q # r => run'[q] = run[q]
      /\ run'[r].pc # "idle" => run'[r].id = run[r].id
  <2>1. CASE (\E p : Moves(r, p)) /\ run[r].pc # "idle"
    BY <1>0, <2>1, MoveKeeps
  <2>2. CASE \E yes \in FreezeOnStart : Freeze(r, yes)
    <3>1. run[r] \in Pipeline
      BY <1>0 DEF TypeOK
    <3> QED
      BY <1>0, <2>2, <3>1 DEF Freeze, TypeOK, Pipeline
  <2>3. CASE Finally(r)
    BY <1>0, <2>3 DEF Finally, IdleRun, TypeOK
  <2> QED
    BY <2>1, <2>2, <2>3 DEF Execute, Verified, Release, PassGate, VerifyDone, VerifyFollowUp,
       VerifyFailed, Complete, EndingThrows, CompleteLost, Requeue, ClearAfter, Moves
<1>3. ASSUME \A i \in 1..lastId : Steady(i),
             run'[r].pc = "retry" => entry'[run'[r].id].status \in Terminal
      PROVE  OneEach'
  <2>1. TickFits'
    BY <1>1, <1>3, IdsUsed, TickFitsKeeps
  <2>2. \A q \in Run : run'[q].pc # "idle" =>
          run[q].pc # "idle" /\ run'[q].id = run[q].id /\ Steady(run[q].id)
    BY <1>2, <1>3, IdsUsed
  <2>3. \A q \in Run : run'[q].pc = "retry" =>
          run[q].pc = "retry" \/ entry'[run'[q].id].status \in Terminal
    BY <1>2, <1>3
  <2> QED
    BY <2>1, <2>2, <2>3, OneEachKeeps
<1>4. CASE Complete(r)
  <2>1. PICK st \in {"completed", "failed"} : entry' = WithStatus({run[r].id}, st)
    BY <1>4 DEF Complete
  <2>2. UNCHANGED inflight /\ run[r].pc # "idle"
    BY <1>4 DEF Complete
  <2>3. \A i \in 1..lastId : Steady(i)
    BY <1>0, <2>1, <2>2, EndsSteady DEF Terminal
  <2>4. run[r].id \in Ids
    BY <1>0, <2>2, IdsUsed
  <2>5. entry'[run[r].id].status \in Terminal
    BY <1>0, <2>1, <2>4, OneSet DEF Terminal
  <2> QED
    BY <1>2, <1>3, <2>3, <2>5
<1>5. CASE VerifyFollowUp(r) \/ Requeue(r)
  <2>1. UNCHANGED inflight /\ (UNCHANGED entry \/ \E n, k, ch, d : Insert(n, k, ch, d))
    BY <1>5 DEF VerifyFollowUp, Requeue, table
  <2>2. \A i \in 1..lastId : Steady(i)
    BY <2>1, InsertSteady DEF Steady
  <2>3. run'[r].pc # "retry"
    <3>1. \E p \in {"done", "clear", "finally"} : Goto(r, p)
      BY <1>5 DEF VerifyFollowUp, Requeue
    <3> QED
      BY <1>0, <3>1, GotoKeeps
  <2> QED
    BY <1>3, <2>2, <2>3
<1>6. CASE Finally(r)
  <2>1. /\ UNCHANGED entry /\ run'[r].pc = "idle"
        /\ \A i \in Ids : inflight'[i] = IF i = run[r].id THEN NoRun ELSE inflight[i]
    BY <1>0, <1>6 DEF Finally, table, Untracking, IdleRun, TypeOK
  <2>2. \A i \in Ids : i # run[r].id => Steady(i)
    BY <2>1 DEF Steady
  <2>3. \A q \in Run : run'[q].pc # "idle" =>
          run[q].pc # "idle" /\ run'[q].id = run[q].id /\ Steady(run[q].id)
    <3>1. ASSUME NEW q \in Run, run'[q].pc # "idle" PROVE q # r /\ run[q].id # run[r].id
      BY <1>2, <2>1, <3>1 DEF OneEach, Alone
    <3> QED
      BY <1>0, <1>2, <2>2, <3>1, IdsUsed
  <2>4. TickFits'
    <3>1. tick.pc = "reset" => \/ Steady(tick.id)
                               \/ entry'[tick.id].status = entry[tick.id].status
                                  /\ inflight'[tick.id] = NoRun
      BY <1>0, <2>1, <2>2, IdsUsed
    <3> QED
      BY <1>1, <3>1, TickFitsKeeps
  <2>5. \A q \in Run : run'[q].pc = "retry" =>
          run[q].pc = "retry" \/ entry'[run'[q].id].status \in Terminal
    BY <1>2, <2>1
  <2> QED
    BY <2>3, <2>4, <2>5, OneEachKeeps
<1>7. CASE UNCHANGED <<entry, inflight>> /\ run'[r].pc # "retry"
  BY <1>3, <1>7 DEF Steady
<1>8. ASSUME NEW yes \in FreezeOnStart, Freeze(r, yes) PROVE OneEach'
  <2>1. run'[r].pc = "gate"
    <3>1. run[r] \in Pipeline
      BY <1>0 DEF TypeOK
    <3> QED
      BY <1>0, <1>8, <3>1 DEF Freeze, TypeOK, Pipeline
  <2> QED
    BY <1>7, <1>8, <2>1 DEF Freeze, table
<1>9. ASSUME NEW p, Moves(r, p), p # "retry", UNCHANGED <<entry, inflight>>
      PROVE  OneEach'
  BY <1>0, <1>7, <1>9, MoveKeeps
<1>10. CASE PassGate(r) \/ VerifyFailed(r) \/ EndingThrows(r) \/ CompleteLost(r) \/ ClearAfter(r)
            \/ \E b \in BOOLEAN : VerifyDone(r, b)
  <2>1. /\ \E p \in {"verify", "done", "failed", "finally"} : Moves(r, p)
        /\ UNCHANGED <<entry, inflight>>
    BY <1>10 DEF PassGate, VerifyFailed, EndingThrows, CompleteLost, ClearAfter, VerifyDone, table,
       Moves
  <2> QED
    BY <1>9, <2>1
<1>11. ~Release(r)
  BY DEF Release, Calm
<1> QED
  BY <1>4, <1>5, <1>6, <1>8, <1>10, <1>11 DEF Execute, Verified

\* A claim takes a row that no pipeline holds; the tick resets only what nobody tracks.
LEMMA OneEachOfWorker ==
  ASSUME Base, TableMove, OneEach, FillSlot \/ Heal
  PROVE  OneEach'
<1>0. TypeOK /\ 1..lastId \subseteq Ids
  BY IdsUsed DEF Base, IInv
<1>1. ASSUME \A r \in Run : run'[r].pc = run[r].pc /\ run'[r].id = run[r].id,
             \A r \in Run : run[r].pc # "idle" => Steady(run[r].id), TickFits'
      PROVE  OneEach'
  BY <1>1, OneEachKeeps
<1>2. CASE StartClaim \/ ClaimNothing
  <2>1. UNCHANGED <<entry, inflight, run, tick>>
    BY <1>2 DEF StartClaim, ClaimNothing, table
  <2> QED
    BY <1>1, <2>1, TickFitsKeeps DEF Steady
<1>3. ASSUME NEW r \in Run, NEW i \in Ids, Claim(r, i) PROVE OneEach'
  <2>1. /\ run[r].pc = "idle" /\ entry[i].status = "pending" /\ tick' = tick
        /\ entry' = WithStatus({i}, "processing") /\ inflight' = [inflight EXCEPT ![i] = r]
        /\ run'[r].id = i /\ run'[r].pc = "start" /\ \A q \in Run : q # r => run'[q] = run[q]
    BY <1>0, <1>3 DEF Claim, Next1, TypeOK
  <2>2. \A j \in Ids : entry'[j].status = IF j \in {i} THEN "processing" ELSE entry[j].status
    BY <1>0, <2>1, StatusSet
  <2>3. \A j \in Ids : j # i => Steady(j)
    BY <1>0, <2>1, <2>2 DEF Steady, TypeOK
  <2>4. entry'[i].status = "processing" /\ inflight'[i] = r
    BY <1>0, <2>1, <2>2 DEF TypeOK
  <2>5. ASSUME NEW q \in Run, run[q].pc # "idle" PROVE run[q].id # i /\ Steady(run[q].id)
    <3>1. run[q].id # i
      BY <2>1, <2>5 DEF OneEach, Tracks, Terminal
    <3> QED
      BY <1>0, <2>3, <2>5, <3>1, IdsUsed
  <2>6. TickFits'
    <3>1. tick.pc = "reset" => Steady(tick.id)
      <4>1. tick.pc = "reset" => tick.id # i
        BY <2>1 DEF OneEach, TickFits, Terminal
      <4> QED
        BY <1>0, <2>3, <4>1, IdsUsed
    <3> QED
      BY <2>1, <3>1, TickFitsKeeps
  <2>7. ASSUME NEW q \in Run PROVE Tracks(q)' /\ Alone(q)' /\ Failed(q)'
    <3>1. Tracks(q)'
      <4>1. CASE q = r
        BY <2>1, <2>4, <4>1 DEF Tracks
      <4>2. CASE q # r
        <5>1. run'[q] = run[q] /\ Tracks(q)
          BY <2>1, <4>2 DEF OneEach
        <5>2. run[q].pc # "idle" => Steady(run[q].id)
          BY <2>5
        <5> QED
          BY <5>1, <5>2 DEF Tracks, Steady
      <4> QED
        BY <4>1, <4>2
    <3>2. Alone(q)'
      BY <2>1, <2>5 DEF OneEach, Alone
    <3>3. Failed(q)'
      <4>1. ASSUME run'[q].pc = "retry" PROVE entry'[run'[q].id].status \in Terminal
        <5>1. q # r /\ run[q].pc = "retry" /\ run'[q].id = run[q].id
          BY <2>1, <4>1
        <5>2. run[q].id \in 1..lastId /\ entry[run[q].id].status \in Terminal
          BY <5>1, IdsUsed DEF OneEach, Failed
        <5> QED
          BY <5>1, <5>2, RowsKeep
      <4> QED
        BY <4>1 DEF Failed
    <3> QED
      BY <3>1, <3>2, <3>3
  <2> QED
    BY <2>6, <2>7 DEF OneEach
<1>4. ASSUME NEW i \in Ids, Watchdog(i) PROVE OneEach'
  <2>1. UNCHANGED <<entry, inflight>> /\ tick'.pc = "kill" /\ \E S : run' = Aborting(S)
    BY <1>4 DEF Watchdog, table
  <2> QED
    BY <1>0, <1>1, <2>1, AbortKeeps DEF Steady, TickFits
<1>5. ASSUME NEW i \in Ids, NEW late \in BOOLEAN, Orphan(i, late) PROVE OneEach'
  <2>1. UNCHANGED <<entry, inflight, run>> /\ tick'.pc \in {"reset", "drop"} /\ tick'.id = i
        /\ entry[i].status = "processing" /\ inflight[i] = NoRun
    BY <1>5 DEF Orphan, table
  <2> QED
    BY <1>1, <2>1 DEF Steady, TickFits
<1>6. CASE WatchdogFail \/ OrphanDrop
  <2>1. PICK st \in {"failed", "cancelled"} : entry' = WithStatus({tick.id}, st)
    BY <1>6 DEF WatchdogFail, OrphanDrop
  <2>2. /\ UNCHANGED <<inflight, run>> /\ tick.pc # "idle"
        /\ tick'.pc \in {"killed", "dropped"} /\ tick'.id = tick.id
    BY <1>0, <1>6 DEF WatchdogFail, OrphanDrop, TypeOK
  <2>3. \A i \in Ids : Steady(i)
    BY <1>0, <2>1, <2>2, EndsSteady DEF Terminal
  <2>4. tick.id \in Ids
    BY <1>0, <2>2, IdsUsed
  <2>5. entry'[tick.id].status \in Terminal
    BY <1>0, <2>1, <2>4, OneSet DEF Terminal
  <2>6. TickFits'
    BY <2>2, <2>5 DEF TickFits
  <2> QED
    BY <1>0, <1>1, <2>2, <2>3, <2>6, IdsUsed
<1>7. CASE OrphanReset
  <2>1. /\ UNCHANGED <<inflight, run>> /\ tick.pc = "reset" /\ tick'.pc = "wasReset"
        /\ entry' = entry \/ (entry[tick.id].status = "processing"
                              /\ entry' = WithStatus({tick.id}, "pending"))
    BY <1>0, <1>7 DEF OrphanReset, TypeOK
  <2>2. ASSUME NEW r \in Run, run[r].pc # "idle" PROVE Steady(run[r].id)
    <3>1. CASE entry' = entry
      BY <2>1, <3>1 DEF Steady
    <3>2. CASE entry[tick.id].status = "processing" /\ entry' = WithStatus({tick.id}, "pending")
      <4>1. inflight[tick.id] = NoRun
        BY <2>1, <3>2 DEF OneEach, TickFits, Terminal
      <4>2. run[r].id # tick.id
        BY <2>2, <3>2, <4>1, NullAssumption DEF OneEach, Tracks, Terminal
      <4>3. tick.id \in Ids /\ run[r].id \in Ids
        BY <1>0, <2>1, <2>2, IdsUsed
      <4>4. entry'[run[r].id].status = entry[run[r].id].status
        BY <1>0, <3>2, <4>2, <4>3, OneSet
      <4> QED
        BY <2>1, <4>4 DEF Steady
    <3> QED
      BY <2>1, <3>1, <3>2
  <2>3. TickFits'
    BY <2>1 DEF TickFits
  <2> QED
    BY <1>1, <2>1, <2>2, <2>3
<1>8. CASE TickThaw
  <2>1. UNCHANGED <<entry, run>> /\ tick.pc # "idle" /\ tick' = IdleTick
        /\ inflight' = IF tick.pc = "killed" THEN Untracking({tick.id}) ELSE inflight
    BY <1>8 DEF TickThaw, table
  <2>2. ASSUME NEW i \in Ids PROVE Steady(i)
    <3>1. CASE tick.pc = "killed" /\ i = tick.id
      BY <2>1, <3>1 DEF OneEach, TickFits, Steady
    <3>2. CASE tick.pc # "killed" \/ i # tick.id
      BY <2>1, <3>2 DEF Untracking, Steady
    <3> QED
      BY <3>1, <3>2
  <2>3. TickFits'
    BY <2>1 DEF IdleTick, TickFits
  <2> QED
    BY <1>0, <1>1, <2>1, <2>2, <2>3, IdsUsed
<1> QED
  BY <1>2, <1>3, <1>4, <1>5, <1>6, <1>7, <1>8 DEF FillSlot, Heal

\* Every step keeps one pipeline to a row.
LEMMA OneEachStep ==
  ASSUME Base, Undisturbed, Calm, OneEach, [Next]_vars
  PROVE  OneEach'
<1>0. TableMove /\ TypeOK
  BY BaseStep DEF Base, IInv
<1>1. CASE CrashRestart
  BY <1>1 DEF CrashRestart, IdleRun, IdleTick, OneEach, TickFits, Tracks, Alone, Failed
<1>2. CASE Stop \/ Start \/ Budget \/ UNCHANGED vars
  <2>1. UNCHANGED <<entry, inflight, tick>>
    BY <1>2 DEF Stop, Start, Budget, vars, table, worker
  <2>2. \A r \in Run : run'[r].pc = run[r].pc /\ run'[r].id = run[r].id
    <3>1. run' = run \/ \E S : run' = Aborting(S)
      BY <1>2 DEF Stop, Start, Budget, vars, worker
    <3> QED
      BY <1>0, <3>1, AbortKeeps
  <2>3. TickFits'
    BY <1>0, <2>1, TickFitsKeeps DEF Steady
  <2> QED
    BY <1>0, <2>1, <2>2, <2>3, OneEachKeeps DEF Steady
<1> QED
  BY <1>0, <1>1, <1>2, OneEachOfCaller, OneEachOfRun, OneEachOfWorker DEF Next

\* The lab never gets over budget, and no caller comes to cancel in bulk.
LEMMA CalmStep ==
  ASSUME TypeOK, Undisturbed, Calm, [Next]_vars
  PROVE  Calm'
<1>1. ASSUME NEW c \in Client, Caller(c) PROVE Calm'
  <2>1. UNCHANGED overBudget
    BY <1>1 DEF Caller, Enqueue, CancelByNode, Remove, Bulk, Cancel, RemoveActive, EnqueueInsert,
       CancelUpdate, CancelClear, RemovePending, RemoveClear, RemoveThaw, RemoveArchive, BulkUpdate,
       BulkClear, outside
  <2>2. /\ \A d \in Client : d # c => client'[d] = client[d]
        /\ client'[c].pc \notin {"bulk", "bulkClear"}
    <3>1. client[c] \in Call
      BY DEF TypeOK
    <3>2. (\A N : ~Bulk(c, N)) /\ ~BulkUpdate(c) /\ ~BulkClear(c)
      BY DEF Undisturbed, Calm, Bulk, BulkUpdate, BulkClear
    <3>3. ASSUME NEW n \in Node, Enqueue(c, n) \/ CancelByNode(c, n) \/ Remove(c, n)
          PROVE  /\ \A d \in Client : d # c => client'[d] = client[d]
                 /\ client'[c].pc \notin {"bulk", "bulkClear"}
      BY <3>3 DEF Enqueue, CancelByNode, Remove, Busy, TypeOK
    <3>4. ASSUME NEW i \in Ids, Cancel(c, i) \/ RemoveActive(c, i)
          PROVE  /\ \A d \in Client : d # c => client'[d] = client[d]
                 /\ client'[c].pc \notin {"bulk", "bulkClear"}
      BY <3>1, <3>4 DEF Cancel, RemoveActive, Busy, TypeOK, Call
    <3>5. CASE \/ EnqueueInsert(c) \/ CancelUpdate(c) \/ CancelClear(c)
               \/ RemoveThaw(c) \/ RemoveArchive(c)
      BY <3>1, <3>5 DEF EnqueueInsert, CancelUpdate, CancelClear, RemoveThaw, RemoveArchive,
         IdleCall, TypeOK, Call
    <3>6. CASE RemovePending(c) \/ RemoveClear(c)
      BY <3>6 DEF RemovePending, RemoveClear, Busy, TypeOK
    <3> QED
      BY <1>1, <3>2, <3>3, <3>4, <3>5, <3>6 DEF Caller
  <2> QED
    BY <2>1, <2>2 DEF Calm
<1>2. CASE UNCHANGED <<client, overBudget>>
  BY <1>2 DEF Calm
<1>3. CASE CrashRestart
  BY <1>3 DEF CrashRestart, IdleCall, Calm
<1>4. ~Budget
  BY DEF Undisturbed, Budget
<1>5. ASSUME NEW r \in Run, Execute(r) PROVE Calm'
  BY <1>2, <1>5 DEF Execute, Verified, Freeze, Release, PassGate, VerifyDone, VerifyFollowUp,
     VerifyFailed, Complete, EndingThrows, CompleteLost, Requeue, ClearAfter, Finally, outside
<1>6. CASE FillSlot \/ Heal
  BY <1>2, <1>6 DEF FillSlot, StartClaim, ClaimNothing, Claim, Heal, Watchdog, Orphan, WatchdogFail,
     OrphanReset, OrphanDrop, TickThaw, outside
<1> QED
  BY <1>1, <1>2, <1>3, <1>4, <1>5, <1>6 DEF Next, Stop, Start, vars, outside

\* The sets of rows that are counted are finite.
LEMMA RetryFinite ==
  ASSUME NEW k
  PROVE  IsFiniteSet(Retry(k)) /\ IsFiniteSet(Spent(k))
  BY TrackedFinite DEF Retry, Spent

\* A pipeline comes to hold a row by claiming it, which has not ended; S are the others.
LEMMA SpentKeeps ==
  ASSUME Base, TableMove, NEW k, NEW S,
         \A r \in Run : run'[r].pc \in Open =>
           \/ run[r].pc \in Open /\ run[r].id = run'[r].id
           \/ entry[run'[r].id].status \notin Terminal
           \/ run'[r].id \in S
  PROVE  Spent(k) \ S \subseteq Spent(k)'
<1>1. ASSUME NEW i \in Spent(k) \ S PROVE i \in Spent(k)'
  <2>1. i \in Ids /\ entry[i].retries = k /\ entry[i].status \in Terminal
        /\ \A r \in Run : run[r].pc \in Open => run[r].id # i
    BY DEF Spent, Retry
  <2>2. i \in 1..lastId
    BY <2>1 DEF Base, IInv, IdsGivenOut, TypeOK, Ids, Terminal
  <2>3. entry'[i].status \in Terminal /\ entry'[i].retries = k
    BY <2>1, <2>2, RowsKeep
  <2>4. \A r \in Run : run'[r].pc \in Open => run'[r].id # i
    BY <2>1
  <2> QED
    BY <2>1, <2>3, <2>4 DEF Spent, Retry
<1> QED
  BY <1>1

\* Who holds a row after a step held it before, claims it, or ends it once more.
LEMMA HoldersStep ==
  ASSUME Base, [Next]_vars, NEW r \in Run, run'[r].pc \in Open
  PROVE  \/ run[r].pc \in Open /\ run[r].id = run'[r].id
         \/ entry[run'[r].id].status \notin Terminal
         \/ EndingThrows(r) /\ run[r].id = run'[r].id
<1>0. TypeOK /\ run[r] \in Pipeline
  BY DEF Base, IInv, TypeOK
<1>1. CASE run' = run \/ \E S : run' = Aborting(S)
  BY <1>0, <1>1, AbortKeeps
<1>2. ASSUME NEW q \in Run, NEW i \in Ids, Claim(q, i) PROVE run'[r] = run[r] \/ entry[run'[r].id].status \notin Terminal
  BY <1>0, <1>2 DEF Claim, Next1, TypeOK, Terminal
<1>3. ASSUME NEW q \in Run, Execute(q)
      PROVE  \/ run[r].pc \in Open /\ run[r].id = run'[r].id
             \/ EndingThrows(r) /\ run[r].id = run'[r].id
  <2>1. CASE \E p : Moves(q, p) /\ (run[q].pc \in Open \/ p \notin Open)
    <3>1. PICK p : Moves(q, p) /\ (run[q].pc \in Open \/ p \notin Open)
      BY <2>1
    <3>2. CASE q = r
      BY <1>0, <3>1, <3>2, MoveKeeps
    <3>3. CASE q # r
      BY <1>0, <3>1, <3>3, MoveKeeps
    <3> QED
      BY <3>2, <3>3
  <2>2. ASSUME NEW yes \in FreezeOnStart, Freeze(q, yes)
        PROVE  run[r].pc \in Open /\ run[r].id = run'[r].id
    <3>1. run[q] \in Pipeline
      BY <1>0 DEF TypeOK
    <3>2. q # r => run'[r] = run[r]
      BY <1>0, <2>2 DEF Freeze, TypeOK
    <3>3. q = r => run'[r].id = run[r].id /\ run[r].pc = "start"
      BY <1>0, <2>2, <3>1 DEF Freeze, TypeOK, Pipeline
    <3> QED
      BY <3>2, <3>3 DEF Open, RunPC
  <2>3. CASE Finally(q)
    BY <1>0, <2>3 DEF Finally, IdleRun, TypeOK, Open
  <2>4. CASE ClearAfter(q)
    <3>1. Moves(q, "finally") /\ "finally" \notin Open
      BY <2>4 DEF ClearAfter, Open, Moves
    <3> QED
      BY <2>1, <3>1
  <2>5. CASE Release(q) \/ PassGate(q) \/ Verified(q) \/ Complete(q) \/ Requeue(q)
    <3>1. run[q].pc \in Open /\ \E p : Moves(q, p)
      BY <2>5 DEF Verified, Release, PassGate, VerifyDone, VerifyFollowUp, VerifyFailed, Complete,
         Requeue, Open, RunPC, Moves
    <3> QED
      BY <2>1, <3>1
  <2>6. CASE CompleteLost(q)
    <3>1. Moves(q, "finally") /\ "finally" \notin Open
      BY <2>6 DEF CompleteLost, Open, Moves
    <3> QED
      BY <2>1, <3>1
  <2>7. CASE EndingThrows(q)
    <3>1. Moves(q, "failed")
      BY <2>7 DEF EndingThrows, Moves
    <3> QED
      BY <1>0, <2>7, <3>1, MoveKeeps
  <2> QED
    BY <1>3, <2>2, <2>3, <2>4, <2>5, <2>6, <2>7 DEF Execute
<1>4. CASE CrashRestart
  BY <1>4 DEF CrashRestart, IdleRun, Open
<1>5. ASSUME NEW c \in Client, Caller(c) PROVE run' = run \/ \E S : run' = Aborting(S)
  BY <1>5 DEF Caller, Enqueue, CancelByNode, Remove, Bulk, Cancel, RemoveActive, EnqueueInsert,
     CancelUpdate, CancelClear, RemovePending, RemoveClear, RemoveThaw, RemoveArchive, BulkUpdate,
     BulkClear, worker
<1> QED
  BY <1>1, <1>2, <1>3, <1>4, <1>5 DEF Next, FillSlot, StartClaim, ClaimNothing, Heal, Watchdog, Orphan,
     WatchdogFail, OrphanReset, OrphanDrop, TickThaw, Stop, Start, Budget, vars, worker

\* The rows of a retry grow only by an INSERT of that retry.
LEMMA RetryKeeps ==
  ASSUME Base, NEW k \in Nat,
         \/ UNCHANGED entry \/ \E S, st : entry' = WithStatus(S, st)
         \/ \E n, m, ch, d : Insert(n, m, ch, d) /\ m # k
  PROVE  Retry(k)' \subseteq Retry(k)
<1>0. TypeOK
  BY DEF Base, IInv
<1>1. CASE UNCHANGED entry
  BY <1>1 DEF Retry
<1>2. CASE \E S, st : entry' = WithStatus(S, st)
  BY <1>0, <1>2, StatusSet DEF Retry
<1>3. ASSUME NEW n, NEW m, NEW ch, NEW d, Insert(n, m, ch, d), m # k
      PROVE  Retry(k)' \subseteq Retry(k)
  <2>1. entry'[lastId + 1].retries # k /\ \A i \in Ids : i # lastId + 1 => entry'[i] = entry[i]
    BY <1>0, <1>3, RowIn
  <2> QED
    BY <2>1 DEF Retry
<1> QED
  BY <1>1, <1>2, <1>3

\* Lost writes are counted.
LostGrows == lost \in Nat /\ lost' \in {lost, lost + 1}

\* A step loses one write at most.
LEMMA LostStep ==
  ASSUME TypeOK, [Next]_vars
  PROVE  LostGrows
<1>1. lost \in Nat
  BY BoundAssumption DEF TypeOK
<1>2. ASSUME NEW c \in Client, Caller(c) PROVE lost' = lost
  BY <1>2 DEF Caller, Enqueue, CancelByNode, Remove, Bulk, Cancel, RemoveActive, EnqueueInsert,
     CancelUpdate, CancelClear, RemovePending, RemoveClear, RemoveThaw, RemoveArchive, BulkUpdate,
     BulkClear, outside
<1>3. ASSUME NEW r \in Run, Execute(r) PROVE lost' \in {lost, lost + 1}
  BY <1>3 DEF Execute, Verified, Freeze, Release, PassGate, VerifyDone, VerifyFollowUp,
     VerifyFailed, Complete, EndingThrows, CompleteLost, Requeue, ClearAfter, Finally, outside
<1>4. CASE FillSlot \/ Heal
  BY <1>1, <1>4 DEF FillSlot, StartClaim, ClaimNothing, Claim, Heal, Watchdog, Orphan, WatchdogFail,
     OrphanReset, OrphanDrop, TickThaw, outside, LostGrows
<1>5. CASE Stop \/ Start \/ CrashRestart \/ Budget \/ UNCHANGED vars
  BY <1>1, <1>5 DEF Stop, Start, CrashRestart, Budget, vars, outside, LostGrows
<1> QED
  BY <1>1, <1>2, <1>3, <1>4, <1>5 DEF Next, LostGrows

\* A step that inserts no retry of k keeps the count of the retries of k.
LEMMA CountKeeps ==
  ASSUME LostGrows, NEW k \in Nat, Fits(k),
         Retry(k + 1)' \subseteq Retry(k + 1), Spent(k) \subseteq Spent(k)'
  PROVE  Fits(k)'
<1>1. /\ IsFiniteSet(Retry(k + 1)) /\ IsFiniteSet(Retry(k + 1)')
      /\ IsFiniteSet(Spent(k)) /\ IsFiniteSet(Spent(k)')
  BY TrackedFinite DEF Retry, Spent, Ids
<1>2. /\ Cardinality(Retry(k + 1)') <= Cardinality(Retry(k + 1))
      /\ Cardinality(Spent(k)) <= Cardinality(Spent(k)')
  BY <1>1, FS_Subset
<1>3. /\ Cardinality(Retry(k + 1)) \in Nat /\ Cardinality(Retry(k + 1)') \in Nat
      /\ Cardinality(Spent(k)) \in Nat /\ Cardinality(Spent(k)') \in Nat
  BY <1>1, FS_CardinalityType
<1> QED
  BY <1>2, <1>3 DEF LostGrows, Fits

\* So does a step that loses a write and gives one pipeline its row i to end again.
LEMMA CountLoses ==
  ASSUME lost \in Nat, lost' = lost + 1, NEW k \in Nat, Fits(k),
         Retry(k + 1)' \subseteq Retry(k + 1), NEW i, Spent(k) \subseteq Spent(k)' \cup {i}
  PROVE  Fits(k)'
<1>1. /\ IsFiniteSet(Retry(k + 1)) /\ IsFiniteSet(Retry(k + 1)')
      /\ IsFiniteSet(Spent(k)) /\ IsFiniteSet(Spent(k)')
  BY TrackedFinite DEF Retry, Spent, Ids
<1>2. /\ IsFiniteSet(Spent(k)' \cup {i})
      /\ \/ Cardinality(Spent(k)' \cup {i}) = Cardinality(Spent(k)')
         \/ Cardinality(Spent(k)' \cup {i}) = Cardinality(Spent(k)') + 1
  BY <1>1, FS_AddElement
<1>3. /\ Cardinality(Retry(k + 1)') <= Cardinality(Retry(k + 1))
      /\ Cardinality(Spent(k)) <= Cardinality(Spent(k)' \cup {i})
  BY <1>1, <1>2, FS_Subset
<1>4. /\ Cardinality(Retry(k + 1)) \in Nat /\ Cardinality(Retry(k + 1)') \in Nat
      /\ Cardinality(Spent(k)) \in Nat /\ Cardinality(Spent(k)') \in Nat
  BY <1>1, FS_CardinalityType
<1> QED
  BY <1>2, <1>3, <1>4 DEF Fits

\* So does a step that inserts one, for a row that no pipeline will retry any more.
LEMMA CountGrows ==
  ASSUME LostGrows, NEW k \in Nat, Fits(k),
         NEW j, Retry(k + 1)' \subseteq Retry(k + 1) \cup {j},
         NEW i, i \notin Spent(k), Spent(k) \cup {i} \subseteq Spent(k)'
  PROVE  Fits(k)'
<1>1. /\ IsFiniteSet(Retry(k + 1)) /\ IsFiniteSet(Retry(k + 1)')
      /\ IsFiniteSet(Spent(k)) /\ IsFiniteSet(Spent(k)')
  BY TrackedFinite DEF Retry, Spent, Ids
<1>2. /\ IsFiniteSet(Retry(k + 1) \cup {j})
      /\ \/ Cardinality(Retry(k + 1) \cup {j}) = Cardinality(Retry(k + 1))
         \/ Cardinality(Retry(k + 1) \cup {j}) = Cardinality(Retry(k + 1)) + 1
  BY <1>1, FS_AddElement
<1>3. Cardinality(Spent(k) \cup {i}) = Cardinality(Spent(k)) + 1
  BY <1>1, FS_AddElement
<1>4. /\ Cardinality(Retry(k + 1)') <= Cardinality(Retry(k + 1) \cup {j})
      /\ Cardinality(Spent(k) \cup {i}) <= Cardinality(Spent(k)')
  BY <1>1, <1>2, FS_Subset
<1>5. /\ Cardinality(Retry(k + 1)) \in Nat /\ Cardinality(Retry(k + 1)') \in Nat
      /\ Cardinality(Spent(k)) \in Nat /\ Cardinality(Spent(k)') \in Nat
  BY <1>1, FS_CardinalityType
<1> QED
  BY <1>2, <1>3, <1>4, <1>5 DEF LostGrows, Fits

\* A pipeline that inserts a retry goes on to where it cannot insert another.
LEMMA CountOfRequeue ==
  ASSUME Base, TableMove, OneEach, NEW r \in Run, Requeue(r), NEW k \in 0..MaxRetries,
         LostGrows, Fits(k), Spent(k) \subseteq Spent(k)'
  PROVE  Fits(k)'
<1> DEFINE i == run[r].id
<1>0. TypeOK /\ k \in Nat
  BY BoundAssumption DEF Base, IInv
<1>1. i \in 1..lastId /\ i \in Ids /\ entry[i].status \in Terminal
  BY IdsUsed DEF Requeue, OneEach, Failed
<1>2. entry[i].retries \in Nat
  BY <1>0, <1>1, BoundAssumption DEF TypeOK, Entry
<1>3. CASE UNCHANGED entry
  BY <1>0, <1>3, RetryKeeps, CountKeeps
<1>4. ASSUME NEW n, NEW ch, NEW d, Insert(n, entry[i].retries + 1, ch, d)
      PROVE  Fits(k)'
  <2>1. CASE k # entry[i].retries
    <3>1. entry[i].retries + 1 # k + 1
      BY <1>0, <1>2, <2>1
    <3>2. Retry(k + 1)' \subseteq Retry(k + 1)
      BY <1>0, <1>4, <3>1, RetryKeeps
    <3> QED
      BY <1>0, <3>2, CountKeeps
  <2>2. CASE k = entry[i].retries
    <3>1. Retry(k + 1)' \subseteq Retry(k + 1) \cup {lastId + 1}
      BY <1>0, <1>4, RowIn DEF Retry
    <3>2. i \notin Spent(k)
      BY DEF Requeue, Spent, Open, RunPC
    <3>3. i \in Spent(k)'
      <4>1. /\ run'[r].pc \notin Open /\ run'[r].id = i
            /\ \A q \in Run : q # r => run'[q] = run[q]
        <5>1. \E p \in {"clear", "finally"} : Goto(r, p)
          BY DEF Requeue
        <5> QED
          BY <1>0, <5>1, GotoKeeps DEF Open
      <4>2. \A q \in Run : q # r /\ run[q].pc \in Open => run[q].id # i
        BY DEF Requeue, OneEach, Alone, Open
      <4>3. entry'[i].status \in Terminal /\ entry'[i].retries = k
        BY <1>1, <2>2, RowsKeep
      <4> QED
        BY <1>1, <4>1, <4>2, <4>3 DEF Spent, Retry
    <3> HIDE DEF i
    <3> QED
      BY <1>0, <3>1, <3>2, <3>3, CountGrows
  <2> QED
    BY <2>1, <2>2
<1> QED
  BY <1>3, <1>4 DEF Requeue, table

\* As long as no UPDATE gives a row back under its pipeline, a row is retried once, and
\* once more for a lost write.
LEMMA RetriesStep ==
  ASSUME Base, Undisturbed, RetriesFit, [Next]_vars
  PROVE  RetriesFit'
<1>1. TableMove /\ TypeOK /\ LostGrows
  BY BaseStep, LostStep DEF Base, IInv
<1>2. Calm' /\ OneEach'
  BY <1>1, CalmStep, OneEachStep DEF RetriesFit
<1>3. \A k \in 0..MaxRetries : k \in Nat /\ k + 1 \in Nat /\ 0 # k + 1 /\ Fits(k)
  BY BoundAssumption DEF RetriesFit
<1>4. ASSUME NEW r \in Run, EndingThrows(r) PROVE RetriesFit'
  <2> DEFINE i == run[r].id
  <2>1. ASSUME NEW q \in Run, EndingThrows(q) PROVE run[q].id = i
    <3>1. q # r => run'[q] = run[q]
      BY <1>1, <1>4, CatchKeeps DEF EndingThrows
    <3>2. ~run[q].caught /\ run'[q].caught
      BY <1>1, <2>1 DEF EndingThrows, Catch, TypeOK, Pipeline
    <3> QED
      BY <3>1, <3>2
  <2>2. \A q \in Run : run'[q].pc \in Open =>
          \/ run[q].pc \in Open /\ run[q].id = run'[q].id
          \/ entry[run'[q].id].status \notin Terminal
          \/ run'[q].id \in {i}
    BY <1>1, <2>1, HoldersStep
  <2>3. \A k \in Nat : Retry(k)' \subseteq Retry(k)
    BY <1>4, RetryKeeps DEF EndingThrows, table
  <2>4. ASSUME NEW k \in 0..MaxRetries PROVE Fits(k)'
    <3>1. Spent(k) \ {i} \subseteq Spent(k)'
      BY <1>1, <2>2, SpentKeeps
    <3>2. lost \in Nat /\ lost' = lost + 1
      BY <1>1, <1>4 DEF EndingThrows, LostGrows
    <3> QED
      BY <1>3, <2>3, <3>1, <3>2, CountLoses
  <2> QED
    BY <1>2, <2>4 DEF RetriesFit
<1>5. SUFFICES ASSUME \A r \in Run : ~EndingThrows(r) PROVE RetriesFit'
  BY <1>4
<1>6. ASSUME NEW k PROVE Spent(k) \subseteq Spent(k)'
  <2>1. \A r \in Run : run'[r].pc \in Open =>
          \/ run[r].pc \in Open /\ run[r].id = run'[r].id
          \/ entry[run'[r].id].status \notin Terminal
          \/ run'[r].id \in {}
    BY <1>1, <1>5, HoldersStep
  <2>2. Spent(k) \ {} \subseteq Spent(k)'
    BY <1>1, <2>1, SpentKeeps
  <2> QED
    BY <2>2
<1>7. ASSUME \/ UNCHANGED entry \/ \E S, st : entry' = WithStatus(S, st)
             \/ \E n, ch, d : Insert(n, 0, ch, d)
      PROVE  RetriesFit'
  <2>1. ASSUME NEW k \in 0..MaxRetries PROVE Retry(k + 1)' \subseteq Retry(k + 1)
    BY <1>3, <1>7, RetryKeeps
  <2>2. \A k \in 0..MaxRetries : Fits(k)'
    BY <1>1, <1>3, <1>6, <2>1, CountKeeps
  <2> QED
    BY <1>2, <2>2 DEF RetriesFit
<1>8. ASSUME NEW r \in Run, Requeue(r) PROVE RetriesFit'
  <2>1. \A k \in 0..MaxRetries : Fits(k)'
    BY <1>1, <1>3, <1>6, <1>8, CountOfRequeue DEF RetriesFit
  <2> QED
    BY <1>2, <2>1 DEF RetriesFit
<1>9. ASSUME NEW c \in Client, Caller(c) PROVE RetriesFit'
  BY <1>7, <1>9 DEF Caller, Enqueue, CancelByNode, Remove, Bulk, Cancel, RemoveActive, EnqueueInsert,
     CancelUpdate, CancelClear, RemovePending, RemoveClear, RemoveThaw, RemoveArchive, BulkUpdate,
     BulkClear, table
<1>10. ASSUME NEW r \in Run, Execute(r) PROVE RetriesFit'
  BY <1>4, <1>7, <1>8, <1>10 DEF Execute, Verified, Freeze, Release, PassGate, VerifyDone,
     VerifyFollowUp, VerifyFailed, Complete, CompleteLost, ClearAfter, Finally, table
<1>11. CASE FillSlot \/ Heal
  BY <1>7, <1>11 DEF FillSlot, StartClaim, ClaimNothing, Claim, Heal, Watchdog, Orphan, WatchdogFail,
     OrphanReset, OrphanDrop, TickThaw, table
<1>12. CASE Stop \/ Start \/ CrashRestart \/ Budget \/ UNCHANGED vars
  BY <1>7, <1>12 DEF Stop, Start, CrashRestart, Budget, vars, table
<1> QED
  BY <1>9, <1>10, <1>11, <1>12 DEF Next

\* Nothing is retried twice, except once more for a write that failed (evm/queue-worker.ts,
\* _executeEntry and its catch block, and evm/queue.ts, requeueFailed), whatever the
\* watchdog, the orphan recovery and crashes do, if the budget is never exceeded and nobody cancels in bulk: a release
\* over budget gives a row back while its pipeline is alive, a bulk cancellation untracks
\* it, and then a second pipeline may work on the row beside the first.
THEOREM RetriesSingle == ASSUME Undisturbed PROVE Spec => []RetriedOnce
<1>1. Init => Base /\ RetriesFit
  <2> SUFFICES ASSUME Init PROVE RetriesFit
    BY InitBase
  <2>1. Calm /\ OneEach
    BY DEF Init, Calm, OneEach, TickFits, Tracks, Alone, Failed, IdleRun, IdleTick, IdleCall
  <2>2. ASSUME NEW k \in 0..MaxRetries PROVE Fits(k)
    <3>1. k + 1 # 0
      BY BoundAssumption
    <3>2. Retry(k + 1) = {}
      BY <3>1 DEF Init, Retry, NoEntry
    <3>3. Cardinality(Spent(k)) \in Nat
      BY RetryFinite, FS_CardinalityType
    <3>4. lost = 0
      BY DEF Init
    <3> QED
      BY <3>2, <3>3, <3>4, FS_EmptySet DEF Fits
  <2> QED
    BY <2>1, <2>2 DEF RetriesFit
<1>2. Base /\ RetriesFit /\ [Next]_vars => (Base /\ RetriesFit)'
  BY BaseStep, RetriesStep
<1>3. Base /\ RetriesFit => RetriedOnce
  <2> SUFFICES ASSUME Base, RetriesFit, NEW k \in 0..MaxRetries
               PROVE  Cardinality({i \in Ids : entry[i].retries = k + 1})
                        <= Cardinality({i \in Ids : entry[i].retries = k /\ entry[i].status \in Terminal})
                             + lost
    BY DEF RetriedOnce
  <2> DEFINE ended == {i \in Ids : entry[i].retries = k /\ entry[i].status \in Terminal}
  <2>1. Spent(k) \subseteq ended /\ IsFiniteSet(ended)
    BY TrackedFinite DEF Spent, Retry
  <2>2. Cardinality(Spent(k)) <= Cardinality(ended)
    BY <2>1, FS_Subset
  <2>3. Cardinality(Retry(k + 1)) <= Cardinality(Spent(k)) + lost
    BY DEF RetriesFit, Fits
  <2>4. Cardinality(Retry(k + 1)) \in Nat /\ Cardinality(Spent(k)) \in Nat /\ Cardinality(ended) \in Nat
    BY <2>1, RetryFinite, FS_CardinalityType
  <2>6. lost \in Nat
    BY BoundAssumption DEF Base, IInv, TypeOK
  <2> HIDE DEF ended
  <2>5. Cardinality(Retry(k + 1)) <= Cardinality(ended) + lost
    BY <2>2, <2>3, <2>4, <2>6
  <2> QED
    BY <2>5 DEF Retry, ended
<1> QED
  BY <1>1, <1>2, <1>3, PTL DEF Spec
=============================================================================
