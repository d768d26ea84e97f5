------------------------------- MODULE LabJob -------------------------------
(***************************************************************************)
(* One claim and the lab jobs that are submitted for it: submission,       *)
(* polling and resuming (evm/index.ts, lab/client.ts), the recording of    *)
(* the verdict (evm/feedback.ts), the recovery of jobs that were cut off   *)
(* from their entry (evm/queue-worker.ts), and the lab, which is external. *)
(*                                                                         *)
(* LabQueue has the worker's slots and the queue's API.  Here an entry has *)
(* at most one pipeline, and one claim is followed through its retries.    *)
(* The server calls the lab over the network and writes its own tables one *)
(* at a time: one action is one call or one write with what follows it, so *)
(* that a crash, an outage of the lab or another handler can come between. *)
(***************************************************************************)
EXTENDS Naturals, FiniteSets

CONSTANTS
  Scanner,      \* concurrent recoverOrphanedLabResults calls (timer, start, route)
  MaxEntries,   \* attempts at the claim: 1 + max_retries
  MaxJobs,      \* bound: jobs ever submitted
  MaxCrashes,   \* bound: crashes of the server
  MaxLost,      \* bound: writes that fail
  MaxMissed,    \* bound: results that the scans do not get to see
  MaxUnreachable \* failed status checks before a job id is called stale

ASSUME LabAssumption ==
  /\ MaxEntries \in Nat \ {0} /\ MaxJobs \in Nat
  /\ MaxCrashes \in Nat /\ MaxLost \in Nat /\ MaxMissed \in Nat
  /\ MaxUnreachable \in Nat \ {0, 1}

VARIABLES
  entry,     \* lab_queue: the status and the external_job_id of each attempt
  lastId,    \* attempts made
  pipe,      \* the pipeline (verifyNodeInternal) at work on each attempt
  job,       \* the lab: the state of each job
  lastJob,   \* jobs submitted
  labUp,     \* the lab answers
  missed,    \* jobs whose result the scans pass over (see Miss)
  tick,      \* the worker's tick in _recoverOrphanedEntries
  scan,      \* the recoverOrphanedLabResults calls
  recorded,  \* lab_executions: rows that carry the job's id
  crashes, lost,  \* how often the bounded faults happened
  applied,   \* history: times the job's verdict changed the node's weight
  owner,     \* history: the attempt a job was submitted for
  unstored,  \* history: jobs whose id was never stored
  failures   \* history: consecutive failed checks of an attempt's job (saturating)

queue   == <<entry, lastId>>
lab     == <<job, lastJob, labUp, missed>>
faults  == <<crashes, lost>>
history == <<applied, owner, unstored, failures>>
vars    == <<queue, pipe, lab, tick, scan, recorded, faults, history>>
-----------------------------------------------------------------------------
Ids  == 1..MaxEntries
Jobs == 1..MaxJobs

Active   == {"pending", "processing"}
Terminal == {"completed", "failed", "cancelled"}
Status   == {"absent"} \cup Active \cup Terminal
Entry    == [status : Status, job : 0..MaxJobs]

PipePC == {"idle", "submit", "store", "poll", "record", "recordError", "recordSkip",
           "apply", "done", "failed", "retry"}
Pipe == [pc : PipePC, job : 0..MaxJobs]
IdlePipe == [pc |-> "idle", job |-> 0]

\* An undecided job is completed, with a verdict that the server does not know
Result   == {"completed", "undecided"}
JobState == {"none", "running", "failed", "cancelled", "gone"} \cup Result

TickPC == {"idle", "cancelJob", "peek", "clear"}
IdleTick == [pc |-> "idle", id |-> 0]
IdleScan == [pc |-> "idle", job |-> 0]

\* requeueFailed has a retry left (the mutant is off by one)
AttemptLeftOffByOne == lastId <= MaxEntries
AttemptLeft == lastId < MaxEntries

SetStatus(i, st) == entry' = [entry EXCEPT ![i].status = st]
Goto(i, p)       == pipe' = [pipe EXCEPT ![i].pc = p]

\* The status poll of submitSpec finds the job finished
Finished(j) == labUp /\ job[j] \in Result \cup {"failed"}

Init ==
  /\ entry = [i \in Ids |-> [status |-> IF i = 1 THEN "pending" ELSE "absent", job |-> 0]]
  /\ lastId = 1
  /\ pipe = [i \in Ids |-> IdlePipe]
  /\ job = [j \in Jobs |-> "none"]
  /\ lastJob = 0
  /\ labUp = TRUE /\ missed = {}
  /\ tick = IdleTick
  /\ scan = [s \in Scanner |-> IdleScan]
  /\ recorded = [j \in Jobs |-> 0]
  /\ crashes = 0 /\ lost = 0
  /\ applied = [j \in Jobs |-> 0]
  /\ owner = [j \in Jobs |-> 0]
  /\ unstored = 0
  /\ failures = [i \in Ids |-> 0]
-----------------------------------------------------------------------------
(* The pipeline of an attempt *)

\* The entry is claimed; one that has a job id goes straight to polling
Claim(i) ==
  /\ entry[i].status = "pending"
  /\ pipe[i].pc = "idle"
  /\ SetStatus(i, "processing")
  /\ pipe' = [pipe EXCEPT ![i] = [pc |-> IF entry[i].job = 0 THEN "submit" ELSE "poll",
                                  job |-> entry[i].job]]
  /\ UNCHANGED <<lastId, lab, tick, scan, recorded, faults, history>>

\* The lab accepts the spec ...
Submit(i) ==
  /\ pipe[i].pc = "submit"
  /\ labUp /\ lastJob < MaxJobs
  /\ lastJob' = lastJob + 1
  /\ job' = [job EXCEPT ![lastJob + 1] = "running"]
  /\ owner' = [owner EXCEPT ![lastJob + 1] = i]
  /\ pipe' = [pipe EXCEPT ![i] = [pc |-> "store", job |-> lastJob + 1]]
  /\ UNCHANGED <<queue, labUp, missed, tick, scan, recorded, faults, applied, unstored, failures>>

\* ... or nothing is submitted: skipped before, rejected by the lab, unreachable, aborted
NotSubmitted(i) ==
  /\ pipe[i].pc = "submit"
  /\ \E p \in {"done", "failed"} : Goto(i, p)
  /\ UNCHANGED <<queue, lab, tick, scan, recorded, faults, history>>

\* onJobId: setExternalJobId, a write of its own after the lab has answered ...
Store(i) ==
  /\ pipe[i].pc = "store"
  /\ entry' = [entry EXCEPT ![i].job = pipe[i].job]
  /\ Goto(i, "poll")
  /\ UNCHANGED <<lastId, lab, tick, scan, recorded, faults, history>>

\* ... whose failure is swallowed
StoreLost(i) ==
  /\ pipe[i].pc = "store"
  /\ lost < MaxLost
  /\ lost' = lost + 1
  /\ unstored' = unstored + 1
  /\ Goto(i, "poll")
  /\ UNCHANGED <<queue, lab, tick, scan, recorded, crashes, applied, owner, failures>>

\* Polling ends with a result, even after the deadline: the status is looked at
\* before the abort signal and once more when the attempts are used up
PollResult(i) ==
  LET j == pipe[i].job IN
  /\ pipe[i].pc = "poll"
  /\ Finished(j)
  /\ Goto(i, CASE job[j] = "completed" -> "record" [] job[j] = "undecided" -> "recordSkip"
               [] OTHER -> "recordError")
  /\ UNCHANGED <<queue, lab, tick, scan, recorded, faults, history>>

\* Mutant of PollFails: polling is not bounded, only a missing job or lab ends it
PollFailsUnbounded(i) ==
  /\ pipe[i].pc = "poll"
  /\ ~labUp \/ job[pipe[i].job] = "gone"
  /\ Goto(i, "failed")
  /\ UNCHANGED <<queue, lab, tick, scan, recorded, faults, history>>

\* ... or without one: deleted in the lab (404), lab unreachable, budget used up or
\* aborted while the job has not finished.  A cancelled job counts as running.
PollFails(i) ==
  /\ pipe[i].pc = "poll"
  /\ ~Finished(pipe[i].job)
  /\ Goto(i, "failed")
  /\ UNCHANGED <<queue, lab, tick, scan, recorded, faults, history>>

\* recordVerification: the row becomes visible to the scan when the job's id is
\* written to it, a second write after the INSERT.  An error has no consequences, nor has
\* a verdict the server does not know, which is recorded as skipped and ends the entry.
Record(i) ==
  LET j == pipe[i].job IN
  /\ pipe[i].pc \in {"record", "recordError", "recordSkip"}
  /\ recorded' = [recorded EXCEPT ![j] = @ + 1]
  /\ Goto(i, CASE pipe[i].pc = "record" -> "apply" [] pipe[i].pc = "recordSkip" -> "done"
               [] OTHER -> "failed")
  /\ UNCHANGED <<queue, lab, tick, scan, faults, history>>

\* The weight changes, unless the verdict is inconclusive or deferred to a critique
Apply(i) ==
  LET j == pipe[i].job IN
  /\ pipe[i].pc = "apply"
  /\ \/ applied' = [applied EXCEPT ![j] = @ + 1]
     \/ UNCHANGED applied
  /\ Goto(i, "done")
  /\ UNCHANGED <<queue, lab, tick, scan, recorded, faults, owner, unstored, failures>>

Complete(i) ==
  LET ok == pipe[i].pc = "done" IN
  /\ pipe[i].pc \in {"done", "failed"}
  /\ SetStatus(i, IF ok THEN "completed" ELSE "failed")
  /\ pipe' = [pipe EXCEPT ![i] = IF ok THEN IdlePipe ELSE [@ EXCEPT !.pc = "retry"]]
  /\ UNCHANGED <<lastId, lab, tick, scan, recorded, faults, history>>

\* A write after the verification fails: the catch block fails the entry instead
EndingThrows(i) ==
  /\ pipe[i].pc = "done"
  /\ lost < MaxLost
  /\ lost' = lost + 1
  /\ Goto(i, "failed")
  /\ UNCHANGED <<queue, lab, tick, scan, recorded, crashes, history>>

\* Both completeEntry calls fail: the entry stays processing, without a pipeline
CompleteLost(i) ==
  /\ pipe[i].pc \in {"done", "failed"}
  /\ lost < MaxLost
  /\ lost' = lost + 1
  /\ pipe' = [pipe EXCEPT ![i] = IdlePipe]
  /\ UNCHANGED <<queue, lab, tick, scan, recorded, crashes, history>>

\* requeueFailed: the retry does not carry the job id, it submits afresh
Requeue(i) ==
  /\ pipe[i].pc = "retry"
  /\ IF AttemptLeft
       THEN /\ lastId' = lastId + 1
            /\ SetStatus(lastId + 1, "pending")
       ELSE UNCHANGED queue
  /\ pipe' = [pipe EXCEPT ![i] = IdlePipe]
  /\ UNCHANGED <<lab, tick, scan, recorded, faults, history>>
-----------------------------------------------------------------------------
(* The tick: processing entries without a pipeline, then the pending ones  *)
(* that have a job.                                                        *)

\* The entry is reset, or cancelled when hopelessly late; it keeps its job id ...
Orphan(i) ==
  /\ tick.pc = "idle"
  /\ entry[i].status = "processing" /\ pipe[i].pc = "idle"
  /\ \E st \in {"pending", "cancelled"} : SetStatus(i, st)
  /\ tick' = [pc |-> "cancelJob", id |-> i]
  /\ UNCHANGED <<lastId, pipe, lab, scan, recorded, faults, history>>

\* ... and _cancelLabJob asks the lab to drop the job, best effort
CancelJob ==
  LET j == entry[tick.id].job IN
  /\ tick.pc = "cancelJob"
  /\ job' = IF j # 0 /\ labUp /\ job[j] = "running" THEN [job EXCEPT ![j] = "cancelled"]
                                                     ELSE job
  /\ tick' = IdleTick
  /\ UNCHANGED <<queue, pipe, lastJob, labUp, missed, scan, recorded, faults, history>>

\* A pending entry with a job id is found ...
PeekStart(i) ==
  /\ tick.pc = "idle"
  /\ entry[i].status = "pending" /\ entry[i].job # 0
  /\ tick' = [pc |-> "peek", id |-> i]
  /\ UNCHANGED <<queue, pipe, lab, scan, recorded, faults, history>>

\* What the lab says of a job that is to be forgotten (the mutant keeps the finished only)
DeadUnlessCompleted == JobState \ {"completed"}
Dead == {"failed", "gone"}

\* ... the lab says what became of the job ...
Peek ==
  LET i == tick.id IN
  /\ tick.pc = "peek" /\ labUp
  /\ tick' = IF job[entry[i].job] \in Dead
               THEN [tick EXCEPT !.pc = "clear"] ELSE IdleTick
  /\ failures' = [failures EXCEPT ![i] = 0]
  /\ UNCHANGED <<queue, pipe, lab, scan, recorded, faults, applied, owner, unstored>>

\* The poll_count that the catch block reads: the SELECT does not name the column
PollCountRead == 0

\* ... or the lab cannot be reached: the failure is counted from what was read
PeekUnreachable ==
  LET i == tick.id IN
  /\ tick.pc = "peek" /\ ~labUp
  /\ failures' = [failures EXCEPT ![i] = IF @ < MaxUnreachable THEN @ + 1 ELSE @]
  /\ tick' = IF PollCountRead + 1 >= MaxUnreachable
               THEN [tick EXCEPT !.pc = "clear"] ELSE IdleTick
  /\ UNCHANGED <<queue, pipe, lab, scan, recorded, faults, applied, owner, unstored>>

\* The clearing UPDATE names the id only: the entry may have been claimed meanwhile
PeekClear ==
  /\ tick.pc = "clear"
  /\ entry' = [entry EXCEPT ![tick.id].job = 0]
  /\ tick' = IdleTick
  /\ UNCHANGED <<lastId, pipe, lab, scan, recorded, faults, history>>
-----------------------------------------------------------------------------
(* recoverOrphanedLabResults *)

\* Mutant of ScanCheck: a job that some entry still knows is left to its pipeline
ScanCheckUnknown(s, j) ==
  /\ scan[s].pc = "idle"
  /\ labUp /\ job[j] \in Result /\ j \notin missed
  /\ recorded[j] = 0 /\ \A i \in Ids : entry[i].job # j
  /\ scan' = [scan EXCEPT ![s] = [pc |-> IF job[j] = "completed" THEN "fetch" ELSE "skip",
                                  job |-> j]]
  /\ UNCHANGED <<queue, pipe, lab, tick, recorded, faults, history>>

\* A completed job without a lab_executions row is found; its result is fetched ...
ScanCheck(s, j) ==
  /\ scan[s].pc = "idle"
  /\ labUp /\ job[j] \in Result /\ j \notin missed
  /\ recorded[j] = 0
  /\ scan' = [scan EXCEPT ![s] = [pc |-> IF job[j] = "completed" THEN "fetch" ELSE "skip",
                                  job |-> j]]
  /\ UNCHANGED <<queue, pipe, lab, tick, recorded, faults, history>>

\* Mutant of ScanRecord: skipWeightAdjust is forgotten
ScanRecordApplies(s) ==
  LET j == scan[s].job IN
  /\ scan[s].pc = "fetch"
  /\ recorded' = [recorded EXCEPT ![j] = @ + 1]
  /\ applied' = [applied EXCEPT ![j] = @ + 1]
  /\ scan' = [scan EXCEPT ![s] = IdleScan]
  /\ UNCHANGED <<queue, pipe, lab, tick, faults, owner, unstored, failures>>

\* ... and recorded, without touching the weight; what was checked is not checked again
ScanRecord(s) ==
  LET j == scan[s].job IN
  /\ scan[s].pc = "fetch"
  /\ recorded' = [recorded EXCEPT ![j] = @ + 1]
  /\ scan' = [scan EXCEPT ![s] = IdleScan]
  /\ UNCHANGED <<queue, pipe, lab, tick, faults, history>>

\* ... unless the verdict is none the scan knows: nothing is recorded, ever
ScanSkips(s) ==
  /\ scan[s].pc = "skip"
  /\ scan' = [scan EXCEPT ![s] = IdleScan]
  /\ UNCHANGED <<queue, pipe, lab, tick, recorded, faults, history>>

\* The fetch fails: counted as an error, to be found again by a later scan
ScanFails(s) ==
  /\ scan[s].pc \in {"fetch", "skip"}
  /\ ~labUp \/ job[scan[s].job] = "gone"
  /\ scan' = [scan EXCEPT ![s] = IdleScan]
  /\ UNCHANGED <<queue, pipe, lab, tick, recorded, faults, history>>
-----------------------------------------------------------------------------
(* The lab, and crashes of the server *)

LabFinishes(j) ==
  /\ job[j] = "running"
  /\ \E st \in Result \cup {"failed"} : job' = [job EXCEPT ![j] = st]
  /\ UNCHANGED <<queue, pipe, lastJob, labUp, missed, tick, scan, recorded, faults, history>>

LabDeletes(j) ==
  /\ job[j] \notin {"none", "gone"}
  /\ job' = [job EXCEPT ![j] = "gone"]
  /\ UNCHANGED <<queue, pipe, lastJob, labUp, missed, tick, scan, recorded, faults, history>>

LabFlips ==
  /\ labUp' = ~labUp
  /\ UNCHANGED <<queue, pipe, job, lastJob, missed, tick, scan, recorded, faults, history>>

\* The scans will pass over job j from now on: 200 newer results are listed before it, its
\* spec names no node or the node's row was removed, a spec that is listed before it is
\* not JSON, which ends the scan of the lab, or the lab was disabled.  (Where that is
\* mended again, it is an outage.)
Miss(j) ==
  /\ job[j] \in Result /\ j \notin missed
  /\ Cardinality(missed) < MaxMissed
  /\ missed' = missed \cup {j}
  /\ UNCHANGED <<queue, pipe, job, lastJob, labUp, tick, scan, recorded, faults, history>>

\* recoverStuck (the mutant forgets the job ids)
RecoverStuckClears(i) ==
  IF entry[i].status = "processing" THEN [status |-> "pending", job |-> 0] ELSE entry[i]
RecoverStuck(i) ==
  IF entry[i].status = "processing" THEN [entry[i] EXCEPT !.status = "pending"] ELSE entry[i]

\* Memory is lost; a job whose id was about to be stored is cut off
CrashRestart ==
  /\ crashes < MaxCrashes
  /\ crashes' = crashes + 1
  /\ entry' = [i \in Ids |-> RecoverStuck(i)]
  /\ pipe' = [i \in Ids |-> IdlePipe]
  /\ tick' = IdleTick
  /\ scan' = [s \in Scanner |-> IdleScan]
  /\ unstored' = unstored + Cardinality({i \in Ids : pipe[i].pc = "store"})
  /\ UNCHANGED <<lastId, lab, recorded, lost, applied, owner, failures>>
-----------------------------------------------------------------------------
Polled(i) == PollResult(i) \/ PollFails(i)

Ending(i) == Record(i) \/ Apply(i) \/ Complete(i) \/ Requeue(i)

Pipeline(i) ==
  \/ Claim(i) \/ Submit(i) \/ NotSubmitted(i) \/ Store(i) \/ StoreLost(i)
  \/ Polled(i) \/ Ending(i) \/ EndingThrows(i) \/ CompleteLost(i)

Tick == (\E i \in Ids : Orphan(i) \/ PeekStart(i)) \/ CancelJob \/ Peek \/ PeekUnreachable
          \/ PeekClear

Scans == \E s \in Scanner : \/ \E j \in Jobs : ScanCheck(s, j)
                            \/ ScanRecord(s) \/ ScanSkips(s) \/ ScanFails(s)

Lab == (\E j \in Jobs : LabFinishes(j) \/ LabDeletes(j) \/ Miss(j)) \/ LabFlips

Next == (\E i \in Ids : Pipeline(i)) \/ Tick \/ Scans \/ Lab \/ CrashRestart

Spec == Init /\ [][Next]_vars

\* The event loop runs what can run, polling is bounded, the timer of the worker and
\* of the scan fires again and again, and an outage of the lab ends.  The scan's
\* checks and fetches and the orphans are strongly fair: an outage, or a tick busy
\* with something else, only puts them off.
Fairness ==
  /\ \A i \in Ids : /\ WF_vars(Claim(i))
                    /\ WF_vars(Submit(i) \/ NotSubmitted(i))
                    /\ WF_vars(Store(i)) /\ WF_vars(Polled(i)) /\ WF_vars(Ending(i))
                    /\ SF_vars(Orphan(i))
  /\ WF_vars(CancelJob \/ Peek \/ PeekUnreachable \/ PeekClear)
  /\ \A s \in Scanner : /\ SF_vars(ScanRecord(s)) /\ WF_vars(ScanSkips(s))
                        /\ \A j \in Jobs : SF_vars(ScanCheck(s, j))
  /\ WF_vars(~labUp /\ LabFlips)

FairSpec == Spec /\ Fairness
-----------------------------------------------------------------------------
(* Properties *)

\* Every variable holds values of its type.
TypeOK ==
  /\ entry \in [Ids -> Entry]
  /\ lastId \in Ids
  /\ pipe \in [Ids -> Pipe]
  /\ job \in [Jobs -> JobState]
  /\ lastJob \in 0..MaxJobs
  /\ labUp \in BOOLEAN /\ missed \subseteq Jobs
  /\ tick \in [pc : TickPC, id : 0..MaxEntries]
  /\ scan \in [Scanner -> [pc : {"idle", "fetch", "skip"}, job : 0..MaxJobs]]
  /\ recorded \in [Jobs -> Nat]
  /\ crashes \in Nat /\ lost \in Nat
  /\ applied \in [Jobs -> Nat]
  /\ owner \in [Jobs -> 0..MaxEntries]
  /\ unstored \in Nat
  /\ failures \in [Ids -> Nat]

\* A verdict changes the weight of the node once, and once more at most for every
\* crash and every write that failed: neither the scans, nor a resumed poll, nor the
\* recovery of an orphan repeat it on their own.
AppliedOnce == \A j \in Jobs : applied[j] <= 1 + crashes + lost

\* An attempt never has two jobs that may still bring a verdict, unless the id of one
\* was lost before it was stored: restarts and recoveries resume, they do not resubmit.
OneJobPerAttempt ==
  \A i \in Ids :
    Cardinality({j \in Jobs : owner[j] = i /\ job[j] \in Result \cup {"running"}})
      <= 1 + unstored

\* An entry forgets its job only when the job has ended badly or is gone, or could not be
\* checked MaxUnreachable times: no restart, claim or recovery drops the id of a job
\* that a verdict may still come from, and the tick never drops the id of another job
\* than the one it asked about.
ForgetsDeadJobsOnly ==
  [][\A i \in Ids : entry[i].job # 0 /\ entry'[i].job # entry[i].job
        => job[entry[i].job] \in {"failed", "cancelled", "gone"} \/ failures[i] >= MaxUnreachable]_vars

\* Every result a lab has, with a verdict the scan knows, is recorded, whatever became of
\* the pipeline that asked for it and whether or not its id was stored, unless the lab
\* deletes it first or the scans have come to pass over it.
EveryResultRecorded ==
  \A j \in Jobs :
    job[j] = "completed" ~> recorded[j] > 0 \/ job[j] = "gone" \/ j \in missed

\* Every attempt ends: lost jobs, cancelled jobs, outages and crashes included.
EveryAttemptEnds ==
  \A i \in Ids : entry[i].status \in Active ~> entry[i].status \in Terminal
=============================================================================
