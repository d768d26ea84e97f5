# PodBit: a TLA+ verification project

PodBit is a knowledge-graph synthesis engine: one Node process (a single event loop) over a
SQLite file, with autonomous cycles that create and vet nodes, a laboratory pipeline that
verifies claims on external lab servers, LLM calls under concurrency limits, a journal with
rollback, partitions that travel between projects, and a knowledge base. This directory models
the parts whose correctness depends on the order of events, checks them with TLC on small
instances, and proves the main invariants with TLAPS for every instance.

Contents: [inventory](#inventory), [modules](#modules-and-code), [runs](#runs),
[proofs](#proofs), [disagreements](#disagreements-between-documents-and-code),
[not modelled](#not-modelled), [plan](#plan).

To repeat: `tlc -config <run>.cfg <module>` for each run of `PROJECT.json`, `tlapm` on the
`*_proofs.tla` modules.

## Inventory

Everything runs on one event loop, so that there are no data races; concurrency comes from
`await`. Reads of the database run at the call, writes wait in a queue and run one by one
(`db/sqlite-backend.ts`): what a handler has read may be stale when its next write runs. Timers
(worker tick, watchdog, scans, monitor), HTTP and MCP calls, LLM and lab answers interleave at
every `await`; a crash can come between any two writes.

| Component | State | Operations | Interacts with | Hard behaviour | Correct when |
|---|---|---|---|---|---|
| Verification queue `evm/queue.ts` | table `lab_queue`; `nodes.verification_status` | enqueue, claim, complete, release, requeue, cancel (id, node, bulk), recover | API, worker, chaining, node removal | check-then-write; updates by id without the status | ended entries stay ended; a mark has an entry; retries are bounded |
| Queue worker `evm/queue-worker.ts` | `inflight`, abort controllers, `recoveryCount`, `tickRunning`, `stopped` | tick (watchdog, orphans, fill), pipelines, stop, start | queue, freeze, experiments, budget | slot counted before an await; finally blocks that outlive their entry; restarts | slots do not leak; every entry ends; orphans are orphans |
| Freeze and taint `lab/freeze.ts`, `lab/taint.ts` | `nodes.lab_status`, `lab_experiment_id`, `lab_taint_*` | freeze, unfreeze, propagate, clear, sweep | worker, recording, cycles | one column for both; walks with awaits | a frozen node has a cause and thaws |
| Experiment `evm/index.ts`, `lab/client.ts` | `external_job_id`, jobs in the lab | extract, route, submit or resume, poll, record | lab servers (external), LLMs | lost ids, late answers, outages, cancelled jobs, restarts | one job per attempt; every result is recorded |
| Recording `evm/feedback.ts` | `lab_executions`, weights, status, archive | record, adjust, archive, taint | experiment, scan, chaining | a verdict applied twice; stale weights | a verdict counts once |
| Chaining `evm/chaining.ts` | deferred executions | critique, confirm, correct, retest | queue, recording | an entry enqueued by a running one; failed enqueues | deferred consequences are settled once |
| Resource lock `lab/resource-lock.ts` | one global lock, timer | acquire, supersede, release, offline, timeout | cycles | release by the wrong owner | cycles are paused while a job holds the lab |
| Model slots `models/semaphore.ts` | counters, two queues of promises, cooldown | acquire, release, 429 | every LLM and embedding call | microtask hand-over, barging, replacement | no lost wake-up; pacing; limits |
| Budget `models/budget.ts` | exceeded flag, paused services | monitor, pause, resume, force | cycles, worker | re-entrant timer, forced resume | what was paused is resumed |
| Cycles `core/synthesis-engine-state.ts`, `core/cycles/` | running, shouldStop, counters | start, stop, pause, steps | budget, lock, project switch | stop and start racing; a step that outlives its project | a stop is honoured; a step writes to the project it has read |
| Journal `core/journal.ts` | `graph_journal`, pins | trigger writes, rollback, import of pins | everything that writes | writes after the replay | the state of the target time is restored |
| Integrity log `core/integrity.ts` | hash chain | append, verify | node operations | read the last hash, then write | the chain does not fork |
| Pool `db/pool-db.ts`, `core/pool-integration.ts` | pool, recruitments | checkout, activate, return | projects | failed activation, overlapping checks | a partition is checked out once and comes back |
| KB pipeline `kb/pipeline/` | queue, active jobs, file and folder status | scan, watch, reprocess, retry, process, stop, resume, recover | readers, watcher | status and queue written one after the other by overlapping calls; counters across a stop | the limit holds; a file that waits has a job, one being processed is |

`PROJECT.json` lists every component, the ones left out too, and the hazards at their lines.

## Modules and code

| Module | Models | Composed with |
|---|---|---|
| `EntryLife` | what the queue promises of an entry: an abstract specification | implemented by `LabQueue` |
| `LabQueue` | `evm/queue.ts`, `evm/queue-worker.ts`, `lab/freeze.ts`, thaw in `db/migrations/lab.ts`, node removal | an experiment is one nondeterministic outcome; its detail is `LabJob` and `Consequences` |
| `LabJob` | `evm/index.ts`, `lab/client.ts`, `evm/feedback.ts`, peeks and scan of `evm/queue-worker.ts`; the lab (external) | slots and API are `LabQueue`'s; an attempt has at most one pipeline |
| `Consequences` | `evm/feedback.ts`, `evm/chaining.ts`, `lab/taint.ts`, `lab/freeze.ts`, the end of `verifyNodeInternal` | the queue is reduced to the set of its waiting entries |
| `Engine` | the loops of `core/synthesis-engine*.ts` and `core/cycles/`, `lab/resource-lock.ts`, what `handlers/projects/`, `executeRollback` and the interview do to the loops | a job is reduced to "being polled" |
| `Journal` | `core/journal.ts`, its triggers, the writers of the graph, pins, rollback, pruning | what a rollback does to the running loops is `Engine` |
| `KbPipeline` | `kb/pipeline/queue.ts`, `file-processing.ts`, `folder.ts`, `admin.ts`, `kb/watcher.ts`, the recovery at a start | |
| `ModelSemaphore` | `models/semaphore.ts` | on its own |
| `..._proofs` | theorems about `LabQueue` (the marks, freezes and retries in `LabQueueMarks_proofs`), `LabJob`, `Engine`, `Consequences`, `ModelSemaphore`, `KbPipeline`, `Journal` | |
| `MC...` | symmetry sets and instances for TLC | |

**LabQueue.** `entry` is the table, `inflight` the worker's map, `run` the `_executeEntry` calls
with the line they have reached (`pc`), `client` the API handlers, `tick` the interval callback
(one at a time, as `tickRunning` has it), `claiming` the `_claimAndStart` calls that await
`nextPending`. One action is one write with the reads and in-memory updates that follow it; the
header of the module names the pairs of writes that are joined, and why. So
`Cancel` / `CancelUpdate` / `CancelClear` are the three stretches of `cancelEntry`, and
`Remove` ... `RemoveArchive` those of `handleRemove` with `cancelNodeJobs`. Time is abstracted: a
pipeline or an entry is overdue, and a back-off has passed, whenever the model says so, which
allows every behaviour of any timeout setting. Node weights, guidance and template data are
left out; priorities are kept as "critiques first". A critique or a retest is enqueued from
inside the verification (`VerifyFollowUp`), beside its own entry. Where a write at the end of a
pipeline throws (`EndingThrows`), the catch block fails and requeues an entry that may be completed or
requeued already; a write of the catch block that throws is swallowed (`CompleteLost`). `lost`
counts both.

**EntryLife** has one variable, the rows as a user of the queue sees them (absent, waiting,
working, ended, and for which node), and four actions. `LabQueue` implements it under the mapping
`Row` of a row's status and node; every caller, pipeline, tick and restart is hidden by it.

**LabJob** follows one claim through its retries. `job` is the lab's state of each job: running,
completed, failed, cancelled, gone; `recorded` counts the `lab_executions` rows with the job's
id. Four history variables (`applied`, `owner`, `unstored`, `failures`) count what the
properties are about and are read by no action. A verdict the server does not know (`undecided`)
is recorded as skipped by the pipeline, whose entry completes, and is passed over by the scan for ever
(`ScanSkips`). `Miss` is everything else that hides a result from the scans for good: 200
newer ones, a spec that names no node, a node whose row is gone, a spec in the same list that is not
JSON, a lab that was disabled. A crash can come between any two of: the lab
accepting a spec, the storing of the job id, the result, the row, the weight, the completion of
the entry. The scans (`recoverOrphanedLabResults`) run beside everything and beside each other,
as the timer, the start-up and the route all call them.

**Consequences** begins where `LabJob` ends: a verdict is there. `proc` are the pipelines and the
recovery scans with the call they have reached; `lab` is the column `lab_status` that freeze and
taint share; `pending` is the verdict of the node's execution with `chain_status`
`pending_review`; `queue` the waiting entries with their kind and depth in the chain. The walk
of `propagateTaint` is one action per layer and one per node marked, so that freezing, clearing,
archiving and the sweep come between. Weights are numbers that no action reads: `applied` counts
how often a critique changes one. `verifyNodeInternal` calls `recordVerification` and then, with
the same row in hand, decides whether to enqueue a critique: `Record` is both, up to the next
write. The history variables say why there may be taint by a node (`cause`: its last verdict was a
refutation, or an inconclusive one taken for it; the taint was cleared, but the call threw or crossed
a walk), which frozen nodes somebody else thawed (`thawed`) and whose review was lost
(`unreviewed`); no action reads them. A critique that arrives when no execution waits
(`Orphaned`), one whose decision throws (`DecideThrows`), one that no lab takes (`Skip`) and a write
that throws half-way (`Throws`) are actions of their own. A resumed job neither chains nor
decides: `Record` need not chain, and a critique may find no execution (`Parents`). There is
no crash: the stretch between the writes of a verdict is `LabJob`'s, that between entries and nodes
`LabQueue`'s, and a restart leaves deferred consequences as a lost review does. Chaining that is
switched off is `ChainOn = {}`; that it defers the consequences (`deferConsequences`, on by
default) is taken for granted.

**Engine** has, for each loop, its running and stop flags, its place in the loop, and whether it is
in the middle of a step. What a step has read is abstracted to one bit: a switch, a new project
and a rollback put every loop that is in a step into `behind`, from which it leaves when the step
ends. `op` are the procedures that stop the loops: they look at the synthesis engine, then at the
cycles, wait for ten seconds at most, and act (`Waited` may give up). `lock`, `timer` and `paused`
are the module state of `resource-lock.ts`; its functions do not ask who holds the lock, and the
model has that: any end of polling, the timer and an offline lab release whatever lock there is.
The history variable `excused` names the loops for which the code itself gives the guarantee
up. Which loops look at the pause is the constant `Heedless`. Steps write what `behind` says; where handlers reject a proposal
during a switch, the step writes nothing, which is a step that ends.

**Journal** has the three kinds of rows that the replay treats differently (nodes with their
cascade, edges, bridges), the journal as a function of the ids of its rows with the last id given
(`AUTOINCREMENT` uses no id twice, and pruning leaves gaps), the clock in whole seconds as
`datetime('now')` has it, and a rollback in its steps: the pinned nodes, their ancestors level by
level, the rows, the edges, then one transaction. API writes, and crashes, come between.
`Init` is a project of two seconds: nodes (one at least) from before the triggers were installed,
nodes written since on parents that are there, so that every rollback has something to undo.
History: `past` is the graph at the end of each second; `born` is when each node id was given; `undone` are the seconds an earlier rollback has rewritten; `horizon` is how far
back the journal is complete after pruning; `fragile` is when an edge was last created a second
time or cascaded away, after which the replay can lose it.

**KbPipeline** has the rows (`status`, `folder`), the memory (`queue`, `activeJobs`,
`stopRequested`, the running jobs) and the calls (`caller`) that write the one and then the other:
scan, watcher event, reprocessing of a file or of the folder, retry of the failed ones. `starting` is
the recovery when the server starts, which runs while the routes are served already. History:
`heldBack` (something was queued during a stop and nobody has looked at the queue since),
`dropped` (a stop or a throw has dropped the job of a pending file) and `unreported` (a job ended
and its report failed, or its first write did).

**ModelSemaphore** works at the granularity of microtasks: `woken` and `pauseWoken` are callers
whose promise was resolved and whose continuation is queued. Timers and time wait until no
microtask is left; other continuations do not. Time is kept as what is left of a wait and what
has passed since a dispatch (up to the pause), so that no clock has to be bounded. `AcquireNew`
is `getSemaphore` when a call site asks with another configuration.

## Runs

Twelve runs, one of which shows a disagreement. Sizes are distinct states; the longest take about
two minutes.

| Run | Shows | Bounds, and why they are enough |
|---|---|---|
| `lq_api` (~340 000) | `InQueueHasEntry` for enqueue, cancel, cancel by node, removal | two callers of one node and one slot: every pair of API stretches interleaves with a pipeline and a tick. No crash: one between the end of an entry and the clearing of the mark leaves the mark (see below) |
| `lq_bulk` (~2.6 million) | `SlotsOwned`, `SlotBound`, `InQueueHasEntry` | two nodes, so that a domain is not everything; two claims awaited at once against one slot; releases over budget; stop and start; freezing on and off |
| `lq_faults` (~1.1 million) | `TypeOK`, `FrozenHasCause`, `RetriedOnce`, `EntriesLive` (refinement) | two slots for an entry and its critique or its retry, one crash, one write of an ending that fails; three rows are an original, a critique or a retry, and one more |
| `lq_live` (~48 000) | `EveryEntryEnds`, `EveryNodeThaws` | original and retry, a pipeline that may hang, one crash, one write of an ending that fails, stops without bound |
| `lj_main` (~2.2 million) | `TypeOK`, `AppliedOnce`, `OneJobPerAttempt`, `ForgetsDeadJobsOnly`; no deadlock | two attempts, two jobs, two scans (interchangeable: symmetry), a crash, a lost write, outages without bound |
| `lj_live` (~82 000) | `EveryResultRecorded`, `EveryAttemptEnds` | one job, two attempts: the second without a job the lab accepts; one result that the scans pass over, or not |
| `ms_main` (~27 000) | `TypeOK`, `NoLostWakeup`, `OneInTiming`, `Paced`, `EveryCallerServed`; no deadlock | three callers at two slots, a pause of two ticks and a cooldown of up to two, so that cooldown and pause overlap both ways; two semaphores, so that one is replaced |
| `jr_main` (~1.8 million) | `TypeOK`, `RestoresNodes`, `RestoresLinks`, `PinsSurvive` | three generations, so that an ancestor is found through an ancestor; two versions of a row; three seconds with the two of `Init`, so that a target lies before, between and after writes; three writes, enough to remove a node in its two steps and write it or its edges again; any number of rollbacks and prunings |
| `en_main` (~1.8 million) | `TypeOK`, `StepsOwnProject`, `LockIsOwed`, `StopHonoured`; no deadlock | one loop of each kind (synthesis and a cycle; one that heeds the pause and one that does not); two procedures at once and two jobs, so that each meets another in every stretch. Nothing else is bounded |
| `kb_main` (~310 000) | `TypeOK`, `CountsJobs`, `ProcessingHasJob`, `PendingHasJob`, `NoIdleCapacity`, `ProcessingEnds` | one file, so that all calls and jobs meet at it; two calls of any kind, two slots and three places; one stop, crash or failed report |
| `cq_main` (~2.3 million) | `TypeOK`, `TaintExplained`, `PendingHasReview`, `FreezeHolds` | a chain of four nodes, one further than the taint may reach; experiments are about the second, results are found of the first two, so that a tainted node is frozen and a frozen one refuted; two processes; three entries are an experiment, its critique and a retest or a second experiment; one scan and one event from outside; refutations are chained, and a critique may decide about any verdict |
| `cq_x_critique` | finding: a critique changes its node twice | |

Deadlock is checked where the model cannot use up its bounds (`lj_main`, `lj_live`, `ms_main`,
`en_main`); elsewhere it stops when rows, calls or seconds are used up, which the program does not.

Bounds named in the modules: `MaxEntries`, `MaxEnqueue` (rows), `MaxClaims` (claims awaited at
once), `MaxCrashes`, `MaxLost` (failed writes), `MaxMissed` (results hidden
from the scans), `MaxJobs`, `MaxSems`, `MaxCooldown`, `MaxTime`, `MaxOps`, `MaxCalls`, `MaxFaults`, `MaxScans`, `MaxOthers`, `Tested`, `Scanned`. The other constants are the
program's own limits (retries, chain depth, slots, recoveries, failed checks, depth of taint).

**What the properties say**

- `SlotsOwned`: an id in the in-flight map stands for a live pipeline on that id. The finally
  of a pipeline deletes the id whoever holds it, the bulk cancel clears the map under running
  pipelines: a slot that is never freed would block the worker for good.
- `SlotBound`: the limit is exceeded by at most the claims awaited at once. The size is checked
  before an await, so the plain limit does not hold (see below).
- `EntriesLive`: the queue implements `EntryLife`. No reset, release, requeue or recovery revives
  an ended row, takes a row twice or touches one that was never queued, although several act on
  ids that were read earlier.
- `InQueueHasEntry`: a node marked `in_queue` has an active entry, or somebody is about to clear
  the mark; a mark left behind would keep it out of every later cycle.
- `RetriedOnce`: there are never more rows of the next retry than ended rows of this one, and
  writes that failed, although watchdog, pipeline and catch block may all fail the same row.
- `FrozenHasCause`, `EveryNodeThaws`: frozen nodes are excluded from synthesis; each is frozen
  for an entry to be processed or for somebody who will thaw it, and thaws in the end.
- `AppliedOnce`, `OneJobPerAttempt`, `ForgetsDeadJobsOnly`, `EveryResultRecorded`: recovery is
  neither a second verdict, nor a second job, nor a lost result. Results with an unknown verdict, and
  those that the scans pass over (`missed`), are not claimed: the code never records them.
- `NoLostWakeup`, `OneInTiming`, `Paced`, `EveryCallerServed`: the semaphore keeps its callers
  and its pace though waiters run later than they are woken.
- `RestoresNodes`, `RestoresLinks`: a rollback brings back the graph of the target second, for
  nodes exactly, for edges and bridges up to those re-created or cascaded away since: the replay
  never makes one up. `PinsSurvive`: with nobody writing during the export, no pinned node, no
  ancestor of one and no edge among them is lost.
- `StepsOwnProject`: no loop goes on, after a switch or a rollback, with what it read before,
  except one that was started behind the back of the procedure or outlasted its wait.
  `StopHonoured`: a start in between does not take a stop back.
- `LockIsOwed`: the lock does not outlive its work, and the pause not the lock. That the loops are quiet
  while a job uses the lab is not claimed: two of them never pause, and any job's end lifts the
  pause of all (see the disagreements).
- `CountsJobs`, `NoIdleCapacity`: the counter of jobs neither drifts up nor down over stops and
  restarts, and no slot is idle while a job waits, except after a stop. `ProcessingHasJob`,
  `PendingHasJob`, `ProcessingEnds`: the status of a file has somebody behind it who will change it.
- `TaintExplained`: who is tainted rests, within the depth, on a node whose last verdict was a
  refutation, with the exceptions the code has: a clearing that throws and is swallowed, one
  that crosses a walk, and an inconclusive verdict that the critique's path takes for a refutation
  (see the disagreements). `FreezeHolds`: neither taint nor its clearing thaws a node under experiment.
  `PendingHasReview`: a node that waits for a review gets one or has
  lost it in a way `unreviewed` names: the critique was cancelled, failed for good, skipped or
  refused for an archived node, its decision threw, or its enqueue and the fallback both did.

**Fairness.** `LabQueue`: claims, the writes of a pipeline and the steps of a tick are fair since
the event loop runs whatever can run and the timer is an interval; the verification itself is
*not* assumed to end, only one whose abort signal has fired is (every LLM and lab call gets the
signal). Claims, the watchdog and orphan recovery are strongly fair: they are timers that find
the worker busy or stopped at times. The start of a stopped worker is an assumption of `lq_live`:
loading a project starts the services again, a new project and a rollback leave that to the
user or to the next start of the server. Nothing forces a crash, a stop or a lost write. `lq_live` leaves out
cancels and the budget: a crash in the middle of a removal leaves a frozen node for good (the
thaw on opening knows the entries that have ended, and the removal cancels before it thaws), and
a budget that stays exceeded holds entries back by design. `LabJob`: polling is bounded, the
timers of tick and scan fire again and again, and an outage ends. Scans and orphans are strongly
fair since outages and busy ticks put them off. That the lab finishes a job is *not* assumed.
`ModelSemaphore`: microtasks run, timers fire, and calls end (they carry a request timeout).
`KbPipeline`: each running job goes on (readers, models and the database answer or throw), and a
start of the server goes through; calls and events need not come. A job of low priority may wait
as long as others of high priority are queued: nothing in the code prevents that, and
no property says otherwise. `Engine`, `Journal` and `Consequences` have safety properties only.

## Proofs

`tlapm` checks every leaf; nothing is assumed beyond the named `ASSUME`s on the constants
(`NullAssumption`, `BoundAssumption`, `LabAssumption`, `EngineAssumption`,
`ConsequencesAssumption`, `ConfigAssumption`, `KbAssumption`, `JournalAssumption`), which TLC
evaluates in the runs. `ConfigAssumption` and `KbAssumption` say that calls and files are finitely
many and that the workers of the model are at least as many as `MaxConcurrency` (a worker stands
for a job that runs, and the code never runs out of them); `JournalAssumption` that nodes are
finitely many and a link is between two of them. `RetriesSingle` has a hypothesis of its own, `Undisturbed`.

| Theorem | States | For |
|---|---|---|
| `LabQueue_proofs!TypeCorrect` | `[]TypeOK` | any nodes, pipelines, callers, rows and limits |
| `LabQueue_proofs!NoSlotLeaks` | `[]SlotsOwned` | |
| `LabQueue_proofs!OvershootBounded` | `[]SlotBound` | |
| `LabQueue_proofs!QueueImplementsEntryLife` | `EntriesLive`: the refinement of `EntryLife` | |
| `LabQueueMarks_proofs!MarksCleared` | `[](crashes = 0 /\ lost = 0 => InQueueHasEntry)` | |
| `LabQueueMarks_proofs!FreezesExplained` | `[](crashes = 0 \/ Unattended => FrozenHasCause)` | |
| `LabQueueMarks_proofs!RetriesSingle` | `[]RetriedOnce` | `Undisturbed`: no release by the budget, no bulk cancel |
| `LabJob_proofs!JobTypesCorrect` | `[]TypeOK` | any attempts, jobs, scans, crashes |
| `LabJob_proofs!VerdictsAppliedOnce` | `[]AppliedOnce` | |
| `LabJob_proofs!JobsNotRepeated` | `[]OneJobPerAttempt` | |
| `LabJob_proofs!DeadJobsForgotten` | `ForgetsDeadJobsOnly` | |
| `Engine_proofs!EngineTypes` | `[]TypeOK` | any loops, jobs and stopping procedures |
| `Engine_proofs!NothingCrosses` | `[]StepsOwnProject` | |
| `Engine_proofs!LockNeverOutlivesWork` | `[]LockIsOwed` | |
| `Engine_proofs!StopsAreHonoured` | `StopHonoured` | |
| `Consequences_proofs!TypesHold` | `[]TypeOK` | any graph, processes and limits |
| `Consequences_proofs!FreezeOutlivesTaint` | `[]FreezeHolds` | |
| `Consequences_proofs!ReviewsAreNotForgotten` | `[]PendingHasReview` | |
| `Consequences_proofs!TaintHasItsCause` | `[]TaintExplained` | |
| `ModelSemaphore_proofs!SemaphoreTypesCorrect` | `[]TypeOK` | any calls, limits and pauses |
| `ModelSemaphore_proofs!NoWakeupLost` | `[]NoLostWakeup` | |
| `ModelSemaphore_proofs!SectionExclusive` | `[]OneInTiming` | |
| `ModelSemaphore_proofs!DispatchesPaced` | `Paced` | |
| `KbPipeline_proofs!PipelineTypesCorrect` | `[]TypeOK` | any files, workers and limits |
| `KbPipeline_proofs!JobsCounted` | `[]CountsJobs` | |
| `KbPipeline_proofs!ProcessingAccounted` | `[]ProcessingHasJob` | |
| `KbPipeline_proofs!PendingAccounted` | `[]PendingHasJob` | |
| `KbPipeline_proofs!CapacityUsed` | `[]NoIdleCapacity` | |
| `Journal_proofs!JournalTypesCorrect` | `[]TypeOK` | any nodes, links, bridges, any number of seconds, writes, prunings and rollbacks |
| `Journal_proofs!PinnedSurvive` | `PinsSurvive` | |
| `Journal_proofs!NodesRestored` | `RestoresNodes` | |
| `Journal_proofs!LinksRestored` | `RestoresLinks` | |

*LabQueue.* The inductive invariant is `TypeOK /\ SlotsOwned /\ IdsGivenOut /\ RemovesNode`.
`IdsGivenOut` is what the others need and no run names: the ids that rows, pipelines, callers and
the tick hold have been given out, so that an INSERT never meets a row that exists.
`RemovesNode` says a removal and an insertion have a node. `SlotsOwned` is inductive
only together with these: claiming needs an idle pipeline, and the finally of one pipeline may
untrack the id of another, which can only shrink the map. `OvershootBounded` counts: claiming
adds to `claiming` when there is a free slot, a claim moves one from there to the map, everything
else shrinks the map (lemmas on cardinalities of updated maps).
`QueueImplementsEntryLife` goes in two steps. `EveryStepMoves` classifies what the thirty actions
do to the table: rows in use end, rows being processed wait again, one waiting row is taken, or a
row is inserted; this is where `IdsGivenOut` is needed, since most UPDATEs name an id read earlier
and nothing else. `MovesAreSteps` then maps each kind to an action of `EntryLife`, with
`RowsNamed` (every id given out has a row with a node) for the order of the ids.

*LabQueue, marks and freezes.* None of the three properties of `LabQueueMarks_proofs` is inductive, and
each needs to know of every pipeline, call and tick at every line what it still owes. For the marks,
`MarksFit` says that a call names the node of its row (`CallsFit`) and that a marked node has a live row,
or somebody who is about to clear the mark (`Marked`); a crash or a write that fails is what loses that somebody, hence
`crashes = 0 /\ lost = 0`. For the freezes, `FreezesFit` says that a pipeline holds the freeze it has taken
(`Own`), that whatever froze a node is about that node (`Held`), and that a frozen node has its
cause, or a caller or tick that has seen the cause end and will thaw (`Caused`, `Served`). After a crash
it holds if every pipeline freezes its node and nobody cancels or removes (`Unattended`): the thaw at
the start goes by rows that have ended, and a cancel, or a second pipeline that did not freeze, may
end the row without a thaw after the one that froze is gone. For
the retries, `OneEach` says that a row is worked on by one pipeline (`Tracks`, `Alone`), that the
failure of a row is settled once (`Failed`, `TickFits`), and then retries number at most the failures
and the writes that failed: each sends one pipeline through the catch block, which requeues once more.
It needs `Undisturbed`: a release by the budget or a bulk cancel untracks a row under a pipeline
that is still live, the row is claimed again, and both pipelines may fail it. With a release or a bulk cancel allowed TLC shows `RetriedOnce` violated; the runs that
check it have neither.

*LabJob.* `AppliedOnce` is not inductive. `Inductive` says of every attempt that its pipeline
works on a job submitted for that attempt (`Owned`) and has the entry it should have (`Shape`),
and that in the stretch before the weight is changed there is one change left to it: before
it, the job has been applied at most `crashes + lost` times (`Unspent`); and that jobs not yet
submitted have never been applied (`Fresh`). Every step that puts an attempt back to a place from
which it could apply again is a crash or a lost write, which buys one more.
`OneJobPerAttempt` and `ForgetsDeadJobsOnly` rest on `Keeping`: the live jobs of an attempt besides the
one its row names are at most as many as the ids that were not stored (`Strays`), an id is stored
where there was none (`Storing`), and the tick clears the id it has asked about, of a job that stays
as dead as it was (`Asking`).

*Engine.* `TypeOK` and `LockIsOwed` are inductive as they stand. `StepsOwnProject` is not: between
the scan of a procedure and its act, loops start, stop and step. `Caught` says of every procedure
under way that each loop it has looked for is off, is on its list of those to wait for, or is
excused, so that at the act whoever is in a step is excused.

*Consequences.* Everything rests on `Shapes`: what a process is at its place (it is about a node
unless it is off, a critique knows its execution until it has decided, it has changed its node at
most once before it decides). `FreezeHolds` is inductive with it: the taint marks only what has no
mark, clearing and sweeping touch marks that are nodes, and a thaw under somebody else's feet is
noted. `PendingHasReview` is not inductive as it stands, since it counts a critique that is past
its decision as a review to come; `ReviewInv` asks for one that has not decided yet, and each place
where such a critique ends changes the status, queues it again, or notes the loss. `TaintExplained`
needs `Walk`: the layer of a walk lies as many edges below its source as layers have been walked, and the
source of a walk on its way has a cause, which a clearing meanwhile changes but does not take away. `Below` is built from the source on, the walk from
its last layer on; that an edge may be put at either end (`BelowChild`), and that more edges reach no
less (`BelowGrows`), is proved by induction on the number of edges (`Upward`).

*ModelSemaphore.* The inductive invariant says of every semaphore that it fits the calls that wait for
it or are in it (`Good`): the queues hold each waiter once, the section is locked exactly while somebody
is in it or has been handed it, `active` counts the holders, the timer covers the pause (`Fit`), and
while somebody waits for a slot, those taken and those promised to calls that were woken are all
there are (`Promised`). The hand-over by microtasks is why a free slot and a waiter may meet, and
why `Promised` counts the woken.

*KbPipeline.* `CountsJobs` and `ProcessingHasJob` go with what is said of each worker at its line and of
each file (`Processed`, `Awaited`). `NoIdleCapacity` needs one thing no run names, `HeldBack`: what is
queued while the pipeline is stopped stays there whatever the capacity, and the resumption takes jobs
until the capacity is used up.

*Journal.* `Replay` is a recursive function over the ids of the journal; `stage[k]` is the graph when the
entries beyond `k` have been undone, and the facts about a replay are proved by induction downward
over its stages (`Downward`, from the well-foundedness of `<` on the naturals). `Base` is the
inductive invariant for the types: besides `TypeOK` it says that every row is as old as its node
(`Births`), that the entries of the journal are in the order of time and fit the rows they are about
(`Logged`), and that exported links have their nodes among the exported ones (`Exported`). Pins need
`PinsFit`: as long as no write came since the rollback began, the walk has found the pins and the parents of
all but its frontier.

The two properties of a rollback compare a state with one that may be any number of rollbacks ago, so
that what an invariant has to say is what a replay *would* bring back if it were started
now. For nodes that is `Memory`: for every second the journal still covers, the replay gives each node
born by then as `past` has it (`Recalled`). A write appends entries that the replay undoes first,
and undoing them gives the graph before the write (`Appended...`); a pruning cuts what those replays
do not read; a rollback to `u` leaves a graph from which a replay to `t` before `u` goes the way the
longer replay from the old graph went (`ReplayTwice`). What such a
rollback re-imports must not look like a node of an earlier second, hence `ReExported`: an exported node
born by the target is still there, or its DELETE is in the journal, so that the replay
has brought it back before the re-import.

For links and bridges the replay is not exact: their INSERTs are not undone and rows whose nodes are missing
are skipped. `Traces` says the two halves apart. `NoneMadeUp`: a row a rollback may leave
(in the graph, in the journal, or in the export of the rollback under way), and that is no newer
than `t`, was there at `t`. `StableRows`: a row of `past` that is not fragile since is in the graph or in an
entry of the journal, and whenever that entry is undone its two nodes are there already, since their
DELETEs come after it in the journal (`Recoverable`).

Recursive functions (the replay, `Below`) are reasoned about by induction over a set of numbers: the
library's induction theorems take an operator as a parameter, which the provers cannot instantiate,
but a set of naturals without a least element is empty (`LeastMember`), and that is enough.

**Only model-checked:** the liveness properties `EveryEntryEnds`, `EveryNodeThaws`,
`EveryResultRecorded`, `EveryAttemptEnds`, `EveryCallerServed` and `ProcessingEnds`: `ENABLED` and
fairness are out of the prover's reach. Every invariant and every action property that a passing run
checks is stated by a theorem, three of them under the hypotheses given above (no crash, for the marks and, in
one of two cases, the freezes; no failed write, for the marks; `Undisturbed` for the retries).

## Disagreements between documents and code

One is shown by a run (`findings` in `PROJECT.json`):

- `cq_x_critique`: "4. Apply final consequences based on critique decision" (`evm/chaining.ts:8`).
  The verdict that the critique's lab returns about the experiment is first recorded like a verdict
  on the claim (`evm/index.ts:621`), with its change of weight, archiving and taint; the decision
  then changes the node a second time.

The others were met while modelling; the models have the behaviour of the code, no run is spent on
them.

*Queue and worker*

- "These are orphans from crashes or prior process instances" (`evm/queue-worker.ts:385`): an entry
  that is released over budget and claimed again before the first pipeline's finally is
  untracked by it (line 201) and later taken from its second pipeline.
- `maxConcurrentVerifications` may be exceeded: the size is checked before `nextPending` is
  awaited (`evm/queue-worker.ts:186`), hence `SlotBound`.
- "Duplicate check" (`evm/queue.ts:109`): the check and the INSERT are two calls, two callers may
  both enqueue.
- "Only pending entries can be cancelled" (`evm/queue.ts:268`): the UPDATE at 282 names the id
  only and may cancel an entry that was claimed meanwhile.
- `MAX_RECOVERIES` (`evm/queue-worker.ts:56`) is out of reach: the count is deleted by the claim
  that follows every recovery (line 196).
- A node is thawed by the first pipeline that ends, whoever froze it, so it does not stay frozen
  for its whole experiment when a critique overlaps its original.
- A node that is removed while it is enqueued may get an entry after it was archived; it fails
  and is retried until the retries are used up.
- A crash between the end of an entry and the clearing of its node's mark leaves the mark
  `in_queue`: only `lab_queue` and the frozen nodes are looked at on start. So does a write that fails
  in the catch block.
- When a write at the end of a pipeline fails, the catch block (`evm/queue-worker.ts:356-364`)
  does not look what has been written: a completed entry becomes failed and is run again, and an
  entry whose mark could not be cleared after it was requeued (line 355) is requeued a second
  time.

*Jobs in the lab*

- "clear stale job ID after 3 consecutive failures" (`evm/queue-worker.ts:538`): the count is read
  from a column that the SELECT does not name and never passes 1.
- "a fresh submission will happen when the entry is re-claimed" (`evm/queue-worker.ts:435`): the
  entry keeps the cancelled job's id and polls it.
- After a poll timeout the retry submits a new job although the old one may still run
  (`evm/queue.ts:254` says "the previous lab job failed").
- Two scans may record a job twice, and a scan may record what its pipeline is about to record;
  the weight is not touched (`skipWeightAdjust`). The scan does taint and clear, although the
  comment at `evm/queue-worker.ts:828-830` says that the consequences were applied.
- A scan never records a result beyond the newest 200 of a lab (`evm/queue-worker.ts:755`), of a
  spec without a node (764) or a node whose row is gone (779), or with a verdict it does not know (803);
  one spec that is not JSON (762) ends the scan of its lab, again at every scan (897). The entry
  of an unknown verdict completes, its execution is `skipped`.
- A resumed critique returns before `handleCritiqueResult` (`evm/index.ts:118`): its verdict is
  recorded like an experiment's, and nobody decides. A resumed job takes no resource lock.
- The auto-retest (`evm/index.ts:849`) enqueues while its own entry is still processing: the
  duplicate check turns it down.

*Consequences*

- After a critique confirms, the node shows the critique's verdict (`claimSupported` in its
  verification results), not that of the experiment it confirmed.
- A critique that is answered with an error decides ("confirm") and is requeued as well, so that it
  decides again.
- An inconclusive verdict is taken for a refutation when a critique confirms it
  (`evm/chaining.ts:248-253`), when a retest would make the chain too long (338-341) and when the
  critique cannot be queued (`evm/index.ts:770-774`): the three do not pass `isInconclusive`.
  The node loses weight, may be archived, and its children are tainted, against "only for genuine
  refutations, never inconclusive" (`evm/chaining.ts:446`) and "Skip for inconclusive"
  (`evm/feedback.ts:292`, 300). `Judged` has it, `cause` calls it `misjudged`. A correction to
  inconclusive lowers the weight only, against `evm/feedback.ts:256` ("no weight change").
- A throw of `clearTaint` is swallowed (`evm/feedback.ts:322-331`, `evm/chaining.ts:464-473`): the
  taint outlives a supported verdict, though "descendants should be released" (`evm/chaining.ts:462`), until the
  sweep finds it expired.
- A critique that no lab takes, or whose spec a lab rejects (`evm/index.ts:499-514`, 548-558), is
  skipped and its entry completed: the node stays `pending_review`, the consequences deferred.
- `enqueueCritique` returns null when it fails, and its caller does not look: the node shows
  `pending_review` for good (`evm/chaining.ts:234` knows the opposite case only).
- "Does NOT clear taint" (`lab/freeze.ts:27`): freezing overwrites `tainted`, thawing leaves NULL.
- "Nodes under active lab experiments are 'frozen'" (`lab/freeze.ts:4`): the finally of an
  experiment thaws the node under its critique when that has been claimed by then.
- `evm/feedback.ts:270` writes a weight computed from the one read before the experiment: what
  changed it in the minutes between is lost.

*Loops, switch, resource lock*

- A rollback stops the loops and aborts the calls of the models, but never resets the abort
  controller (`core/journal.ts:474`; only a switch calls the reset): calls fail until the next
  switch or restart. A load or a new project that throws leaves the controller aborted and the
  flag of the switch up.
- `handleNew` and the rollback do not start the services again; an interview lowers the
  switching flag and resets the controller while a load may be under way.
- The switching flag is looked at by `handlePropose` alone, through which only the research cycle
  proposes.
- "Podbit pauses all autonomous cycles (synthesis, voicing, research, etc.)"
  (`lab/resource-lock.ts:7`; "Pause all autonomous cycles", `core/synthesis-engine-state.ts:16`): only
  `runCycleLoop` looks at the pause (line 151). The synthesis engine and the autorating loop
  (`core/cycles/starters.ts:122-147`) go on; the model has them as `Heedless`.
- The end of any job releases the lock of whichever job holds it, so that the cycles run beside a lab
  that "is using shared system resources" (`lab/resource-lock.ts:2-3`); the release on "idle" that
  the header describes is not implemented.
- The budget's restart of a loop that is just ending is refused (`models/budget.ts:336`) and not
  tried again; a forced resume that overlaps the monitor forgets the services it had paused.

*Journal*

- An edge or a bridge that was removed and written again since the target is lost by a rollback:
  the journal knows edges by id, the replay looks for the rowid. So is one cascaded away in the
  stretch between the two DELETEs of a hard removal.
- `partition_domains` and `node_number_refs` are not cleaned, and the strength of an edge is not
  restored: its updates are journaled (`db/migrations/journal.ts:66`), but the saved row has no
  `rowid`, by which `restoreRow` looks (`core/journal.ts:863-865`).
- The target of a rollback "(ISO 8601)" (`handlers/journal.ts:101`, 106) is compared as a string with
  timestamps that have a blank where it has `T` (`core/journal.ts:496`, 520, 546): with an ISO target
  nothing of the target's own day is undone or cleaned. The model's target is in the format of the
  database, which markers and the timeline carry.
- A rollback cleans `lab_queue` by `started_at` (`core/journal.ts:525-548`): entries queued before
  the target and claimed after are deleted, entries queued after it and not claimed survive.
- Pruning with the ISO timestamp that the route passes (`routes/journal.ts:159-160`) compares
  `T` with a blank and prunes the whole day.
- `total_children` is computed before the pinned nodes come back.

*Knowledge base*

- A folder stays `processing` when all its jobs end before the scan has set that status
  (`kb/pipeline/folder.ts:177-181`; the comment at `file-processing.ts:871-873` has the last job
  reset it).
- A stop breaks the loop over the chunks, and the job then marks the file `completed`. Neither a stop nor
  a switch waits for running jobs.
- Jobs queued while the pipeline is stopped stay in memory over a switch; resuming does
  not look at the queue, the next job that is queued or ends does.
- A file that is deleted while its job runs ends as the job says, not as `deleted`; two jobs of one file
  may run at once; a watcher's change deletes the chunks without archiving the nodes.
- The start sets to pending what is in error by then, and queues what was in error before: a file
  that fails in between waits without a job.

*Model slots*

- "Max concurrent in-flight requests" (`models/semaphore.ts:5`): call sites with different pauses
  replace the semaphore (line 140) and both generations run.
- "Queue is FIFO" (`models/semaphore.ts:21`): `release` frees the slot before the woken waiter runs;
  a caller that acquires in between passes it, and the two together may exceed the limit even
  with one configuration.
- "each caller sees the latest value — including mid-flight updates" (`models/semaphore.ts:74`): a
  caller that is already waiting does not read an extended cooldown.

## Not modelled

- LLM output, prompts, embeddings, scores, weights as numbers: data that no property here tells
  apart.
- Exact times: timeouts and back-offs are "may have passed". What depends on two timeouts being in
  a certain ratio (60 s against the watchdog) is over-approximated.
- The cooldown of autonomous enqueues, the order by `queued_at` beyond age, the templates.
- Several server processes on one database: the worker runs in one (`processNextEntry` says why).
- The write queue's own retries and priorities (`db/sqlite-backend.ts`).
- What a step of a loop computes (voicing, synthesis, vetting, dedup) and the nodes, chunks and
  summaries a KB job writes: pipelines of LLM calls and scores whose writes are single rows.
- Budget (`models/budget.ts`): its verdict is an input of `LabQueue`, its pausing a stop and a start
  of `Engine`; the monitor itself is in the plan.
- Partition pool and transient partitions (`db/pool-db.ts`, `core/pool-integration.ts`), the
  integrity log (`core/integrity.ts`), node lifecycle and elite pool: in the plan.
- Adding, changing and removing a KB folder; saving and backing up projects.
- `tryAcquireModelSlot` (only its tests call it).
- Embedding caches, model registry, autotune, API verification, context engine: tables and data flow
  with little order to get wrong. Security, sessions, routes, MCP, proxy, scaffold, user interface:
  dispatch, I/O, presentation.

## Plan

Done: `LabQueue` with `EntryLife`, `LabJob`, `ModelSemaphore`, `Consequences`, `Engine`, `Journal`,
`KbPipeline`, and proofs of their safety properties. Next, in this order:

1. **Pool**: the pool's and the project's database, checkout, import, activation, return: a
   partition is checked out once and comes back, whatever fails between the two databases and however
   return checks overlap.
2. **Budget**: the monitor's ticks, pausing and resuming, the forced resume, over `Engine`'s loops:
   what was paused is resumed, by whoever lifts the budget.
3. **Integrity**: the hash chain beside the journal, with operations that overlap.
4. **Lab promise**: an abstract specification of a claim (submitted, answered once, or given up)
   that `LabJob` implements.

Liveness and `ENABLED` remain with TLC.
