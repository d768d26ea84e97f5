------------------------------ MODULE LabQueue ------------------------------
(***************************************************************************)
(* The verification queue of the lab pipeline: the lab_queue table         *)
(* (evm/queue.ts), the worker that drains it (evm/queue-worker.ts) and the *)
(* freeze flag it keeps on the nodes (lab/freeze.ts).                      *)
(*                                                                         *)
(* Atomicity.  The server is one event loop over one SQLite file.  Reads   *)
(* run at the call; every write waits in a queue (db/sqlite-backend.ts)    *)
(* and the handler goes on when it has run.  One action is therefore one   *)
(* write together with the reads and the in-memory updates that follow it  *)
(* up to the next write: what was read may be stale when the next write    *)
(* runs.  Three pairs are joined: the INSERT of a row with the marking of  *)
(* its node (the write queue is FIFO, and who reads the table in between   *)
(* does not read the mark); the read and the write of                      *)
(* clearNodeQueueStatus (only the INSERT of a retry can come between, and  *)
(* it leaves the mark alone); and, at the end of a handler, the clearing   *)
(* of the marks with the thaw of the nodes (no other handler touches both).*)
(*                                                                         *)
(* Time is abstracted: a back-off has passed, and an entry or a pipeline   *)
(* is overdue, whenever the model says so.  What the lab does with a       *)
(* submitted claim is the module LabJob's subject; here a verification     *)
(* ends in any way it can.                                                 *)
(***************************************************************************)
EXTENDS Naturals, FiniteSets

CONSTANTS
  Node,           \* the graph nodes that are verified
  Run,            \* pipelines (_executeEntry calls) that may be alive at once
  Client,         \* concurrent callers of the queue's API
  NoRun, NoNode,  \* null values
  MaxEntries,     \* bound: rows ever inserted in lab_queue
  MaxEnqueue,     \* bound: no caller enqueues once lab_queue has this many rows
  MaxRetries,     \* max_retries of an entry
  MaxDepth,       \* maxChainDepth of the critique chain
  MaxConcurrent,  \* maxConcurrentVerifications
  MaxRecoveries,  \* MAX_RECOVERIES
  MaxClaims,      \* bound: _claimAndStart calls awaiting nextPending at once
  MaxCrashes,     \* bound: crashes of the server
  MaxLost,        \* bound: ends of a pipeline where writes fail
  FreezeOnStart,  \* what freezeOnStart may be: a set of Booleans
  Ops             \* which external events a configuration explores

ASSUME NullAssumption  == NoRun \notin Run /\ NoNode \notin Node
ASSUME BoundAssumption ==
  /\ MaxEntries \in Nat /\ MaxRetries \in Nat /\ MaxDepth \in Nat
  /\ MaxEnqueue \in Nat /\ FreezeOnStart \subseteq BOOLEAN
  /\ MaxConcurrent \in Nat \ {0} /\ MaxClaims \in Nat \ {0}
  /\ MaxRecoveries \in Nat /\ MaxCrashes \in Nat /\ MaxLost \in Nat

VARIABLES
  entry,      \* lab_queue, by id
  lastId,     \* the last id given out (AUTOINCREMENT)
  vstatus,    \* nodes.verification_status
  frozenBy,   \* nodes.lab_experiment_id where lab_status = 'frozen', else 0
  archived,   \* nodes archived or deleted
  inflight,   \* the worker's map from entry id to the pipeline tracked for it
  run,        \* the pipelines
  claiming,   \* _claimAndStart calls awaiting nextPending
  recovery,   \* recoveryCount, by id
  tick,       \* the worker's tick: watchdog and orphan recovery
  stopped,    \* stopQueueWorker was called
  client,     \* the callers of the API
  overBudget, \* isBudgetExceeded()
  crashes, lost   \* how often the bounded faults happened

table   == <<entry, lastId>>
nodes   == <<vstatus, frozenBy, archived>>
worker  == <<inflight, run, claiming, recovery, tick, stopped>>
outside == <<overBudget, crashes, lost>>
vars    == <<table, nodes, worker, outside, client>>
-----------------------------------------------------------------------------
Ids == 1..MaxEntries

Active   == {"pending", "processing"}
Terminal == {"completed", "failed", "cancelled"}
Status   == {"absent"} \cup Active \cup Terminal

Entry == [status : Status, node : Node \cup {NoNode}, retries : 0..MaxRetries,
          chain : {"none", "critique", "retest"}, depth : 0..MaxDepth]

NoEntry == [status |-> "absent", node |-> NoNode, retries |-> 0,
            chain |-> "none", depth |-> 0]

VStatus == {"null", "in_queue", "pending_review", "settled"}

RunPC == {"idle", "start", "gate", "verify", "done", "failed", "retry",
          "clear", "finally"}
Pipeline == [pc : RunPC, id : 0..MaxEntries, abort : BOOLEAN, froze : BOOLEAN,
             caught : BOOLEAN]
IdleRun  == [pc |-> "idle", id |-> 0, abort |-> FALSE, froze |-> FALSE, caught |-> FALSE]

TickPC == {"idle", "kill", "killed", "reset", "wasReset", "drop", "dropped"}
IdleTick == [pc |-> "idle", id |-> 0]

ClientPC == {"idle", "insert", "cancel", "clear", "rmPending", "rmClear", "rmActive",
             "rmArchive", "bulk", "bulkClear"}
Call == [pc : ClientPC, node : Node \cup {NoNode}, ids : SUBSET Ids]
IdleCall == [pc |-> "idle", node |-> NoNode, ids |-> {}]
Busy(p, n, S) == [pc |-> p, node |-> n, ids |-> S]

NodeOf(i)     == entry[i].node
RunNode(r)    == NodeOf(run[r].id)
ActiveFor(n)  == {i \in Ids : entry[i].status \in Active /\ NodeOf(i) = n}
PendingFor(n)    == {i \in ActiveFor(n) : entry[i].status = "pending"}
ProcessingFor(n) == {i \in ActiveFor(n) : entry[i].status = "processing"}
Tracked       == {i \in Ids : inflight[i] # NoRun}

\* The table with the rows of S set to a status
WithStatus(S, st) ==
  [i \in Ids |-> IF i \in S THEN [entry[i] EXCEPT !.status = st] ELSE entry[i]]

\* The pipelines of R with their abort signal fired
Aborting(R) ==
  [r \in Run |-> IF r \in R THEN [run[r] EXCEPT !.abort = TRUE] ELSE run[r]]

\* The in-flight map without the keys of S
Untracking(S) == [i \in Ids |-> IF i \in S THEN NoRun ELSE inflight[i]]

\* INSERT INTO lab_queue ... 'pending'
Insert(n, k, ch, d) ==
  /\ lastId < MaxEntries
  /\ lastId' = lastId + 1
  /\ entry' = [entry EXCEPT ![lastId + 1] =
                 [status |-> "pending", node |-> n, retries |-> k,
                  chain |-> ch, depth |-> d]]

\* Mutant of Clear: the count of the node's rows forgets the status filter
ClearAnyRow(N) ==
  vstatus' = [n \in Node |-> IF n \in N /\ vstatus[n] = "in_queue"
                                        /\ ~\E i \in Ids : NodeOf(i) = n
                               THEN "null" ELSE vstatus[n]]

\* clearNodeQueueStatus on the nodes of N
Clear(N) ==
  vstatus' = [n \in Node |-> IF n \in N /\ vstatus[n] = "in_queue" /\ ActiveFor(n) = {}
                               THEN "null" ELSE vstatus[n]]

\* unfreezeNode on the nodes of N
Unfreeze(N) == frozenBy' = [n \in Node |-> IF n \in N THEN 0 ELSE frozenBy[n]]

\* The nodes that opening the database thaws: what they were frozen for has ended
\* (the mutant forgets the entries that ended badly)
EndedFreezesCompleted ==
  {n \in Node : frozenBy[n] # 0 /\ entry[frozenBy[n]].status = "completed"}
EndedFreezes ==
  {n \in Node : frozenBy[n] # 0 /\ entry[frozenBy[n]].status \in Terminal}

\* requeueFailed has a retry left (the mutant is off by one)
RetryLeftOffByOne(e) == e.retries <= MaxRetries
RetryLeft(e) == e.retries < MaxRetries

\* _claimAndStart up to its await: the size check, then the claim is queued
\* (the mutant is off by one)
SlotFreeOffByOne == Cardinality(Tracked) <= MaxConcurrent /\ claiming < MaxClaims
SlotFree == Cardinality(Tracked) < MaxConcurrent /\ claiming < MaxClaims
-----------------------------------------------------------------------------
Init ==
  /\ entry = [i \in Ids |-> NoEntry]
  /\ lastId = 0
  /\ vstatus = [n \in Node |-> "null"]
  /\ frozenBy = [n \in Node |-> 0]
  /\ archived = {}
  /\ inflight = [i \in Ids |-> NoRun]
  /\ run = [r \in Run |-> IdleRun]
  /\ claiming = 0
  /\ recovery = [i \in Ids |-> 0]
  /\ tick = IdleTick
  /\ stopped = FALSE
  /\ client = [c \in Client |-> IdleCall]
  /\ overBudget = FALSE
  /\ crashes = 0 /\ lost = 0
-----------------------------------------------------------------------------
(* The API: enqueue, cancelEntry, cancelByNode, cancelNodeJobs and the     *)
(* archiving that follows it, cancelBulkLabJobs.                           *)

\* enqueue, up to the INSERT: the node exists and has no active entry
Enqueue(c, n) ==
  /\ "enqueue" \in Ops
  /\ client[c].pc = "idle"
  /\ n \notin archived
  /\ ActiveFor(n) = {}
  /\ lastId < MaxEnqueue
  /\ client' = [client EXCEPT ![c] = Busy("insert", n, {})]
  /\ UNCHANGED <<table, nodes, worker, outside>>

\* The INSERT; the node is marked; a manual caller goes on to processNextEntry,
\* which asks for a slot without asking for the budget
EnqueueInsert(c) ==
  LET n == client[c].node IN
  /\ client[c].pc = "insert"
  /\ Insert(n, 0, "none", 0)
  /\ vstatus' = [vstatus EXCEPT ![n] = "in_queue"]
  /\ client' = [client EXCEPT ![c] = IdleCall]
  /\ \/ claiming' = claiming
     \/ ~stopped /\ SlotFree /\ claiming' = claiming + 1
  /\ UNCHANGED <<frozenBy, archived, inflight, run, recovery, tick, stopped,
                 outside>>

\* cancelEntry, up to the UPDATE: the entry is read and is pending
Cancel(c, i) ==
  /\ "cancel" \in Ops
  /\ client[c].pc = "idle"
  /\ entry[i].status = "pending"
  /\ client' = [client EXCEPT ![c] = Busy("cancel", NodeOf(i), {i})]
  /\ UNCHANGED <<table, nodes, worker, outside>>

\* The UPDATE of cancelEntry names the id only
CancelUpdate(c) ==
  /\ client[c].pc = "cancel"
  /\ entry' = WithStatus(client[c].ids, "cancelled")
  /\ client' = [client EXCEPT ![c].pc = "clear"]
  /\ UNCHANGED <<lastId, nodes, worker, outside>>

\* cancelByNode: the UPDATE names the node and the status
CancelByNode(c, n) ==
  /\ "cancelByNode" \in Ops
  /\ client[c].pc = "idle"
  /\ PendingFor(n) # {}
  /\ entry' = WithStatus(PendingFor(n), "cancelled")
  /\ client' = [client EXCEPT ![c] = Busy("clear", n, {})]
  /\ UNCHANGED <<lastId, nodes, worker, outside>>

CancelClear(c) ==
  /\ client[c].pc = "clear"
  /\ Clear({client[c].node})
  /\ client' = [client EXCEPT ![c] = IdleCall]
  /\ UNCHANGED <<table, frozenBy, archived, worker, outside>>

\* cancelNodeJobs (the node is being archived): first the pipelines are aborted ...
Remove(c, n) ==
  /\ "remove" \in Ops
  /\ client[c].pc = "idle"
  /\ n \notin archived
  /\ run' = Aborting({r \in Run : run[r].pc # "idle" /\ RunNode(r) = n})
  /\ client' = [client EXCEPT ![c] = Busy("rmPending", n, {})]
  /\ UNCHANGED <<table, nodes, inflight, claiming, recovery, tick, stopped,
                 outside>>

\* ... then cancelByNode takes the pending entries, and clears the node's status if
\* there were any; then the processing entries are read ...
RemovePending(c) ==
  LET n == client[c].node IN
  /\ client[c].pc = "rmPending"
  /\ entry' = WithStatus(PendingFor(n), "cancelled")
  /\ client' = [client EXCEPT ![c] = IF PendingFor(n) = {}
                                        THEN Busy("rmActive", n, ProcessingFor(n))
                                        ELSE Busy("rmClear", n, {})]
  /\ UNCHANGED <<lastId, nodes, worker, outside>>

RemoveClear(c) ==
  LET n == client[c].node IN
  /\ client[c].pc = "rmClear"
  /\ Clear({n})
  /\ client' = [client EXCEPT ![c] = Busy("rmActive", n, ProcessingFor(n))]
  /\ UNCHANGED <<table, frozenBy, archived, worker, outside>>

\* ... and cancelled one by one, out of the in-flight map ...
RemoveActive(c, i) ==
  /\ client[c].pc = "rmActive"
  /\ i \in client[c].ids
  /\ entry' = WithStatus({i}, "cancelled")
  /\ run' = Aborting({r \in Run : inflight[i] = r})
  /\ inflight' = Untracking({i})
  /\ recovery' = [recovery EXCEPT ![i] = 0]
  /\ client' = [client EXCEPT ![c].ids = @ \ {i}]
  /\ UNCHANGED <<lastId, nodes, claiming, tick, stopped, outside>>

\* ... the node thaws and its queue status is cleared ...
RemoveThaw(c) ==
  LET n == client[c].node IN
  /\ client[c].pc = "rmActive"
  /\ client[c].ids = {}
  /\ Unfreeze({n})
  /\ Clear({n})
  /\ client' = [client EXCEPT ![c].pc = "rmArchive"]
  /\ UNCHANGED <<table, archived, worker, outside>>

\* ... and handleRemove archives (or deletes) it
RemoveArchive(c) ==
  /\ client[c].pc = "rmArchive"
  /\ archived' = archived \cup {client[c].node}
  /\ client' = [client EXCEPT ![c] = IdleCall]
  /\ UNCHANGED <<table, vstatus, frozenBy, worker, outside>>

\* cancelBulkLabJobs over the nodes N of a domain, or over all of them: only the
\* second form empties the in-flight map.  The active entries are read.
Bulk(c, N) ==
  /\ "bulk" \in Ops
  /\ client[c].pc = "idle"
  /\ run' = Aborting({r \in Run : run[r].pc # "idle" /\ RunNode(r) \in N})
  /\ IF N = Node
       THEN inflight' = Untracking(Ids) /\ recovery' = [i \in Ids |-> 0]
       ELSE UNCHANGED <<inflight, recovery>>
  /\ client' = [client EXCEPT ![c] = Busy("bulk", NoNode, UNION {ActiveFor(n) : n \in N})]
  /\ UNCHANGED <<table, nodes, claiming, tick, stopped, outside>>

\* Mutant of BulkUpdate: the UPDATE asks for the status instead of naming the ids read
BulkUpdateByStatus(c) ==
  /\ client[c].pc = "bulk"
  /\ entry' = WithStatus({i \in Ids : entry[i].status \in Active}, "cancelled")
  /\ client' = [client EXCEPT ![c].pc = "bulkClear"]
  /\ UNCHANGED <<lastId, nodes, worker, outside>>

\* The UPDATE of cancelAllActive names the ids read
BulkUpdate(c) ==
  /\ client[c].pc = "bulk"
  /\ entry' = WithStatus(client[c].ids, "cancelled")
  /\ client' = [client EXCEPT ![c].pc = "bulkClear"]
  /\ UNCHANGED <<lastId, nodes, worker, outside>>

BulkClear(c) ==
  LET N == {NodeOf(i) : i \in client[c].ids} IN
  /\ client[c].pc = "bulkClear"
  /\ Clear(N)
  /\ Unfreeze(N)
  /\ client' = [client EXCEPT ![c] = IdleCall]
  /\ UNCHANGED <<table, archived, worker, outside>>
-----------------------------------------------------------------------------
(* The worker: filling slots, and the pipeline of one entry.               *)

\* fillSlots, from a tick or from a pipeline that ended, up to the await of a claim
StartClaim ==
  /\ ~stopped /\ ~overBudget /\ SlotFree
  /\ claiming' = claiming + 1
  /\ UNCHANGED <<table, nodes, inflight, run, recovery, tick, stopped, client,
                 outside>>

\* Entry j may be passed over: it is a retry whose back-off is running
InBackoff(j) == entry[j].retries > 0

\* ORDER BY priority DESC, queued_at ASC: critiques first, then by age
Before(j, i) == LET crit(k) == entry[k].chain = "critique"
                IN  \/ crit(j) /\ ~crit(i)
                    \/ crit(j) = crit(i) /\ j < i

Next1(i) == /\ entry[i].status = "pending"
            /\ \A j \in Ids : entry[j].status = "pending" /\ Before(j, i) => InBackoff(j)

\* nextPending claims in one UPDATE; the pipeline is tracked and started
Claim(r, i) ==
  /\ claiming > 0
  /\ run[r].pc = "idle"
  /\ Next1(i)
  /\ claiming' = claiming - 1
  /\ entry' = WithStatus({i}, "processing")
  /\ recovery' = [recovery EXCEPT ![i] = 0]
  /\ inflight' = [inflight EXCEPT ![i] = r]
  /\ run' = [run EXCEPT ![r] = [IdleRun EXCEPT !.pc = "start", !.id = i]]
  /\ UNCHANGED <<lastId, nodes, tick, stopped, client, outside>>

ClaimNothing ==
  /\ claiming > 0
  /\ \A i \in Ids : entry[i].status = "pending" => InBackoff(i)
  /\ claiming' = claiming - 1
  /\ UNCHANGED <<table, nodes, inflight, run, recovery, tick, stopped, client,
                 outside>>

Goto(r, p) == run' = [run EXCEPT ![r].pc = p]

\* An exception: the catch block of _executeEntry fails the entry
Catch(r) == run' = [run EXCEPT ![r].pc = "failed", ![r].caught = TRUE]

\* freezeNode, unless the template says freezeOnStart = false.  The experiment id
\* is written only on a node that is not frozen yet.
Freeze(r, yes) ==
  LET n == RunNode(r) IN
  /\ run[r].pc = "start"
  /\ frozenBy' = IF yes /\ frozenBy[n] = 0 THEN [frozenBy EXCEPT ![n] = run[r].id] ELSE frozenBy
  /\ run' = [run EXCEPT ![r].pc = "gate", ![r].froze = yes]
  /\ UNCHANGED <<table, vstatus, archived, inflight, claiming, recovery, tick, stopped,
                 client, outside>>

\* releaseEntry: over budget at the gate, or found so by the verification
Release(r) ==
  LET i == run[r].id IN
  /\ run[r].pc \in {"gate", "verify"}
  /\ overBudget
  /\ entry' = IF entry[i].status = "processing" THEN WithStatus({i}, "pending") ELSE entry
  /\ Goto(r, "finally")
  /\ UNCHANGED <<lastId, nodes, inflight, claiming, recovery, tick, stopped, client,
                 outside>>

\* The budget gate is passed, and verifyNodeInternal looks up the node
PassGate(r) ==
  /\ run[r].pc = "gate"
  /\ ~overBudget
  /\ Goto(r, IF RunNode(r) \in archived THEN "failed" ELSE "verify")
  /\ UNCHANGED <<table, nodes, inflight, claiming, recovery, tick, stopped, client,
                 outside>>

\* verifyNodeInternal returns a verdict, recorded on the node, or a skip, which
\* leaves the node alone.  An aborted pipeline may still get its verdict: the lab
\* is asked before the signal is looked at, and it is recorded on the node even if
\* that was archived meanwhile.
VerifyDone(r, recorded) ==
  LET n == RunNode(r) IN
  /\ run[r].pc = "verify"
  /\ vstatus' = IF recorded THEN [vstatus EXCEPT ![n] = "settled"] ELSE vstatus
  /\ Goto(r, "done")
  /\ UNCHANGED <<table, frozenBy, archived, inflight, claiming, recovery, tick, stopped,
                 client, outside>>

\* ... or a verdict that is deferred: its critique is enqueued from inside the
\* verification, beside the entry that is still being processed; and a critique
\* may ask for a retest in the same way.
VerifyFollowUp(r) ==
  LET i == run[r].id
      n == NodeOf(i)
      d == entry[i].depth + 1
      retest == entry[i].chain = "critique"
  IN
  /\ "chain" \in Ops
  /\ run[r].pc = "verify"
  /\ n \notin archived
  /\ IF retest THEN d < MaxDepth ELSE d <= MaxDepth
  /\ Insert(n, 0, IF retest THEN "retest" ELSE "critique", d)
  /\ vstatus' = [vstatus EXCEPT ![n] = IF retest THEN "in_queue" ELSE "pending_review"]
  /\ Goto(r, "done")
  /\ UNCHANGED <<frozenBy, archived, inflight, claiming, recovery, tick, stopped,
                 client, outside>>

\* ... or a failure: lab error, abort, lost lab; or an exception
VerifyFailed(r) ==
  /\ run[r].pc = "verify"
  /\ Goto(r, "failed") \/ Catch(r)
  /\ UNCHANGED <<table, nodes, inflight, claiming, recovery, tick, stopped, client,
                 outside>>

\* completeEntry: the UPDATE names the id only
Complete(r) ==
  LET ok == run[r].pc = "done" IN
  /\ run[r].pc \in {"done", "failed"}
  /\ entry' = WithStatus({run[r].id}, IF ok THEN "completed" ELSE "failed")
  /\ Goto(r, IF ok THEN "clear" ELSE "retry")
  /\ UNCHANGED <<lastId, nodes, inflight, claiming, recovery, tick, stopped, client,
                 outside>>

\* A write at the end of the try block fails, completeEntry's, requeueFailed's or
\* clearNodeQueueStatus': the catch block fails the entry, which may have been
\* completed or requeued already, and requeues it
EndingThrows(r) ==
  /\ run[r].pc \in {"done", "failed", "retry", "clear"} /\ ~run[r].caught
  /\ lost < MaxLost
  /\ lost' = lost + 1
  /\ Catch(r)
  /\ UNCHANGED <<table, nodes, inflight, claiming, recovery, tick, stopped, client,
                 overBudget, crashes>>

\* A write of the catch block fails: swallowed.  With the write of completeEntry
\* that it repeats the entry stays processing.
CompleteLost(r) ==
  /\ \/ run[r].pc \in {"done", "failed"}
     \/ run[r].pc \in {"retry", "clear"} /\ run[r].caught
  /\ lost < MaxLost
  /\ lost' = lost + 1
  /\ Goto(r, "finally")
  /\ UNCHANGED <<table, nodes, inflight, claiming, recovery, tick, stopped, client,
                 overBudget, crashes>>

\* Mutant of Requeue: the failed row itself is put back, with one more retry
RequeueInPlace(r) ==
  LET i == run[r].id IN
  /\ run[r].pc = "retry"
  /\ IF RetryLeft(entry[i])
       THEN entry' = [entry EXCEPT ![i].status = "pending", ![i].retries = @ + 1]
       ELSE UNCHANGED entry
  /\ Goto(r, "clear")
  /\ UNCHANGED <<lastId, nodes, inflight, claiming, recovery, tick, stopped, client, outside>>

\* requeueFailed: a new row with one more retry, or none left; the catch block
\* clears the node's status only in the second case
Requeue(r) ==
  LET e == entry[run[r].id] IN
  /\ run[r].pc = "retry"
  /\ IF RetryLeft(e)
       THEN Insert(e.node, e.retries + 1, e.chain, e.depth)
       ELSE UNCHANGED table
  /\ Goto(r, IF run[r].caught /\ RetryLeft(e) THEN "finally" ELSE "clear")
  /\ UNCHANGED <<nodes, inflight, claiming, recovery, tick, stopped, client,
                 outside>>

ClearAfter(r) ==
  /\ run[r].pc = "clear"
  /\ Clear({RunNode(r)})
  /\ Goto(r, "finally")
  /\ UNCHANGED <<table, frozenBy, archived, inflight, claiming, recovery, tick, stopped,
                 client, outside>>

\* Mutant of Finally: an aborted pipeline leaves the cleaning up to whoever aborted it
FinallyUnlessAborted(r) ==
  /\ run[r].pc = "finally"
  /\ IF run[r].froze /\ ~run[r].abort THEN Unfreeze({RunNode(r)}) ELSE UNCHANGED frozenBy
  /\ inflight' = IF run[r].abort THEN inflight ELSE Untracking({run[r].id})
  /\ run' = [run EXCEPT ![r] = IdleRun]
  /\ UNCHANGED <<table, vstatus, archived, claiming, recovery, tick, stopped, client,
                 outside>>

\* The finally blocks: the node thaws whoever froze it, the id leaves the map
\* whichever pipeline it stands for
Finally(r) ==
  /\ run[r].pc = "finally"
  /\ IF run[r].froze THEN Unfreeze({RunNode(r)}) ELSE UNCHANGED frozenBy
  /\ inflight' = Untracking({run[r].id})
  /\ run' = [run EXCEPT ![r] = IdleRun]
  /\ UNCHANGED <<table, vstatus, archived, claiming, recovery, tick, stopped, client,
                 outside>>
-----------------------------------------------------------------------------
(* The tick, one at a time (tickRunning): the watchdog over the in-flight  *)
(* map, then the processing entries that are not in it.                    *)

\* The watchdog aborts an overdue pipeline ...
Watchdog(i) ==
  /\ tick.pc = "idle" /\ ~stopped
  /\ inflight[i] # NoRun
  /\ run' = Aborting({inflight[i]})
  /\ tick' = [pc |-> "kill", id |-> i]
  /\ UNCHANGED <<table, nodes, inflight, claiming, recovery, stopped, client,
                 outside>>

\* ... fails its entry whatever its status ...
WatchdogFail ==
  /\ tick.pc = "kill"
  /\ entry' = WithStatus({tick.id}, "failed")
  /\ tick' = [tick EXCEPT !.pc = "killed"]
  /\ UNCHANGED <<lastId, nodes, inflight, run, claiming, recovery, stopped, client,
                 outside>>

\* Mutant of Orphan: the test of the in-flight map is the wrong way round
OrphanTracked(i, late) ==
  LET count == recovery[i] + 1
      drop  == late \/ count > MaxRecoveries
  IN
  /\ tick.pc = "idle" /\ ~stopped
  /\ entry[i].status = "processing"
  /\ inflight[i] # NoRun
  /\ recovery' = [recovery EXCEPT ![i] = count]
  /\ tick' = [pc |-> IF drop THEN "drop" ELSE "reset", id |-> i]
  /\ UNCHANGED <<table, nodes, inflight, run, claiming, stopped, client, outside>>

\* An entry that is processing and not tracked, for long enough, is an orphan:
\* reset, or cancelled when it is hopelessly late or was recovered too often
Orphan(i, late) ==
  LET count == recovery[i] + 1
      drop  == late \/ count > MaxRecoveries
  IN
  /\ tick.pc = "idle" /\ ~stopped
  /\ entry[i].status = "processing"
  /\ inflight[i] = NoRun
  /\ recovery' = [recovery EXCEPT ![i] = count]
  /\ tick' = [pc |-> IF drop THEN "drop" ELSE "reset", id |-> i]
  /\ UNCHANGED <<table, nodes, inflight, run, claiming, stopped, client, outside>>

\* The resetting UPDATE asks for the status again ...
OrphanReset ==
  LET i == tick.id IN
  /\ tick.pc = "reset"
  /\ tick' = [tick EXCEPT !.pc = "wasReset"]
  /\ IF entry[i].status = "processing"
       THEN entry' = WithStatus({i}, "pending")
       ELSE UNCHANGED entry
  /\ UNCHANGED <<lastId, nodes, inflight, run, claiming, recovery, stopped, client, outside>>

\* ... the cancelling one does not
OrphanDrop ==
  /\ tick.pc = "drop"
  /\ entry' = WithStatus({tick.id}, "cancelled")
  /\ recovery' = [recovery EXCEPT ![tick.id] = 0]
  /\ tick' = [tick EXCEPT !.pc = "dropped"]
  /\ UNCHANGED <<lastId, nodes, inflight, run, claiming, stopped, client, outside>>

\* All three end by thawing the node; a reset does not clear its status, and only
\* the watchdog takes the id out of the map
TickThaw ==
  LET i == tick.id IN
  /\ tick.pc \in {"killed", "wasReset", "dropped"}
  /\ Unfreeze({NodeOf(i)})
  /\ IF tick.pc = "wasReset" THEN UNCHANGED vstatus ELSE Clear({NodeOf(i)})
  /\ inflight' = IF tick.pc = "killed" THEN Untracking({i}) ELSE inflight
  /\ tick' = IdleTick
  /\ UNCHANGED <<table, archived, run, claiming, recovery, stopped, client, outside>>
-----------------------------------------------------------------------------
(* Stop and start of the worker (project switch), crash and restart of the *)
(* server, the budget.                                                     *)

Stop ==
  /\ "stop" \in Ops
  /\ ~stopped
  /\ stopped' = TRUE
  /\ run' = Aborting({r \in Run : \E i \in Ids : inflight[i] = r})
  /\ UNCHANGED <<table, nodes, inflight, claiming, recovery, tick, client, outside>>

Start ==
  /\ stopped
  /\ stopped' = FALSE
  /\ UNCHANGED <<table, nodes, inflight, run, claiming, recovery, tick, client, outside>>

\* Memory is lost.  Opening the database thaws the nodes frozen by an entry that
\* has ended; recoverStuck puts the processing entries back.
CrashRestart ==
  /\ crashes < MaxCrashes
  /\ crashes' = crashes + 1
  /\ inflight' = Untracking(Ids)
  /\ run' = [r \in Run |-> IdleRun]
  /\ claiming' = 0
  /\ recovery' = [i \in Ids |-> 0]
  /\ tick' = IdleTick
  /\ stopped' = FALSE
  /\ client' = [c \in Client |-> IdleCall]
  /\ Unfreeze(EndedFreezes)
  /\ entry' = WithStatus({i \in Ids : entry[i].status = "processing"}, "pending")
  /\ UNCHANGED <<lastId, vstatus, archived, overBudget, lost>>

Budget ==
  /\ "budget" \in Ops
  /\ overBudget' = ~overBudget
  /\ UNCHANGED <<table, nodes, worker, crashes, lost, client>>
-----------------------------------------------------------------------------
Caller(c) ==
  \/ \E n \in Node : Enqueue(c, n) \/ CancelByNode(c, n) \/ Remove(c, n) \/ Bulk(c, {n})
  \/ \E i \in Ids : Cancel(c, i) \/ RemoveActive(c, i)
  \/ Bulk(c, Node)
  \/ EnqueueInsert(c) \/ CancelUpdate(c) \/ CancelClear(c)
  \/ RemovePending(c) \/ RemoveClear(c) \/ RemoveThaw(c) \/ RemoveArchive(c)
  \/ BulkUpdate(c) \/ BulkClear(c)

Verified(r) == (\E b \in BOOLEAN : VerifyDone(r, b)) \/ VerifyFollowUp(r) \/ VerifyFailed(r)

Execute(r) ==
  \/ \E yes \in FreezeOnStart : Freeze(r, yes)
  \/ Release(r) \/ PassGate(r) \/ Verified(r)
  \/ Complete(r) \/ EndingThrows(r) \/ CompleteLost(r) \/ Requeue(r) \/ ClearAfter(r)
  \/ Finally(r)

FillSlot == StartClaim \/ ClaimNothing \/ \E r \in Run, i \in Ids : Claim(r, i)

Heal == \/ \E i \in Ids : Watchdog(i) \/ \E late \in BOOLEAN : Orphan(i, late)
        \/ WatchdogFail \/ OrphanReset \/ OrphanDrop \/ TickThaw

Next == \/ \E c \in Client : Caller(c)
        \/ \E r \in Run : Execute(r)
        \/ FillSlot \/ Heal \/ Stop \/ Start \/ CrashRestart \/ Budget

Spec == Init /\ [][Next]_vars

\* The event loop runs every handler that can run: claims, pipelines and ticks go
\* on, and the worker's timer fires.  A pipeline is not assumed to end by itself
\* (a hung LLM call never does): only one whose abort signal has fired is.
\* Claims are strongly fair: a back-off passes, and the worker is not stopped
\* again and again before its timer has fired.
Fairness ==
  /\ SF_vars(StartClaim)
  /\ \A i \in Ids : SF_vars(\E r \in Run : Claim(r, i))
  /\ \A r \in Run :
       /\ WF_vars(run[r].abort /\ Verified(r))
       /\ WF_vars((\E yes \in FreezeOnStart : Freeze(r, yes)) \/ Release(r) \/ PassGate(r))
       /\ WF_vars(Complete(r) \/ Requeue(r) \/ ClearAfter(r) \/ Finally(r))
  /\ \A i \in Ids : SF_vars(Watchdog(i)) /\ SF_vars(\E late \in BOOLEAN : Orphan(i, late))
  /\ WF_vars(WatchdogFail \/ OrphanReset \/ OrphanDrop \/ TickThaw)
  /\ WF_vars(Start)

FairSpec == Spec /\ Fairness
-----------------------------------------------------------------------------
(* Properties *)

\* Every variable holds values of its type.
TypeOK ==
  /\ entry \in [Ids -> Entry]
  /\ lastId \in 0..MaxEntries
  /\ vstatus \in [Node -> VStatus]
  /\ frozenBy \in [Node -> 0..MaxEntries]
  /\ archived \subseteq Node
  /\ inflight \in [Ids -> Run \cup {NoRun}]
  /\ run \in [Run -> Pipeline]
  /\ claiming \in Nat
  /\ recovery \in [Ids -> Nat]
  /\ tick \in [pc : TickPC, id : 0..MaxEntries]
  /\ stopped \in BOOLEAN
  /\ client \in [Client -> Call]
  /\ overBudget \in BOOLEAN
  /\ crashes \in Nat /\ lost \in Nat

\* No slot leaks: an id in the in-flight map stands for a pipeline that is alive
\* and works on that id, so that its finally block will free the slot.
SlotsOwned ==
  \A i \in Ids : inflight[i] # NoRun =>
    run[inflight[i]].id = i /\ run[inflight[i]].pc # "idle"

\* The overshoot of the in-flight map is bounded by the claims awaited at once: with
\* one filler at a time maxConcurrentVerifications is never exceeded.
SlotBound == Cardinality(Tracked) + claiming <= MaxConcurrent + MaxClaims - 1

\* What a row of lab_queue is to the queue's users
LifeOf(st) == CASE st = "absent"     -> "absent"
                [] st = "pending"    -> "waiting"
                [] st = "processing" -> "working"
                [] OTHER             -> "ended"

Row(i) == [life |-> LifeOf(entry[i].status), node |-> NodeOf(i)]

Life == INSTANCE EntryLife WITH Id <- Ids, row <- [i \in Ids |-> Row(i)]

\* The queue keeps its promise: whatever callers, pipelines, ticks and restarts do to
\* one row, ids are given out in order and never again, a row is taken by one claim
\* while it waits, only a taken row is given back, and a completed, failed or
\* cancelled one is never worked on again, nor does a row change its node.
EntriesLive == Life!Spec

\* A node stays frozen only for a reason: a pipeline or a tick that will thaw it is
\* under way, or the entry it was frozen for is still to be processed.
FrozenHasCause ==
  \A n \in Node : frozenBy[n] # 0 =>
    \/ entry[frozenBy[n]].status \in Active
    \/ tick.pc \in {"killed", "dropped"} /\ NodeOf(tick.id) = n
    \/ \E r \in Run : run[r].pc # "idle" /\ run[r].froze /\ RunNode(r) = n

\* A node shows 'in_queue' only while it has an active entry, or while somebody who
\* ended its last one is about to clear the status.
InQueueHasEntry ==
  \A n \in Node : vstatus[n] = "in_queue" =>
    \/ ActiveFor(n) # {}
    \/ \E r \in Run : run[r].pc \in {"retry", "clear"} /\ RunNode(r) = n
    \/ tick.pc \in {"killed", "dropped"} /\ NodeOf(tick.id) = n
    \/ \E c \in Client : \/ client[c].pc \in {"clear", "rmClear", "rmActive"} /\ client[c].node = n
                         \/ client[c].pc = "bulkClear" /\ \E i \in client[c].ids : NodeOf(i) = n

\* Nothing is retried twice, except where a write at the end of a pipeline failed: every
\* retry has a failed (or since cancelled) row of its own that it retries, so without
\* lost writes one enqueue costs at most MaxRetries + 1 attempts, whatever the watchdog,
\* the orphan recovery and the pipelines do to the same row.
RetriedOnce ==
  \A k \in 0..MaxRetries :
    Cardinality({i \in Ids : entry[i].retries = k + 1})
      <= Cardinality({i \in Ids : entry[i].retries = k /\ entry[i].status \in Terminal}) + lost

\* Every entry ends: hung pipelines, stops of the worker, crashes and lost
\* completions included.
EveryEntryEnds ==
  \A i \in Ids : entry[i].status \in Active ~> entry[i].status \in Terminal

\* Every frozen node thaws.
EveryNodeThaws == \A n \in Node : frozenBy[n] # 0 ~> frozenBy[n] = 0
=============================================================================
