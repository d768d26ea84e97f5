----------------------------- MODULE KbPipeline -----------------------------
(***************************************************************************)
(* The knowledge-base pipeline: the queue of jobs in memory                *)
(* (kb/pipeline/queue.ts), the processing of a file                        *)
(* (kb/pipeline/file-processing.ts), the calls that put files into the     *)
(* queue (scan, watcher, reprocess, retry, start of the server) and the    *)
(* ones that stop it (kb/pipeline/admin.ts, folder.ts, kb/watcher.ts).     *)
(*                                                                         *)
(* The rows of kb_files say where a file is, the queue and the running     *)
(* jobs are in memory: the two are written one after the other, by calls   *)
(* that overlap.  One folder is followed; the nodes and the chunks that a  *)
(* job makes are left out, and so is the text they are made of.            *)
(***************************************************************************)
EXTENDS Naturals, FiniteSets, SequencesExt

CONSTANTS
  File,           \* the files of the folder
  NoFile,
  Worker,         \* places for running jobs, at least as many as the limit
  MaxConcurrency, \* config.knowledgeBase.maxConcurrency
  Caller,         \* concurrent calls that queue files
  Kinds,          \* what such a call is: a scan, an event of the watcher, ...
  MaxCalls,       \* bound: calls that are made
  MaxFaults       \* bound: stops, crashes and error reports that fail

ASSUME KbAssumption ==
  /\ NoFile \notin File
  /\ MaxConcurrency \in Nat \ {0} /\ IsFiniteSet(Worker)
  /\ MaxConcurrency <= Cardinality(Worker)
  /\ IsFiniteSet(File)
  /\ Kinds \subseteq {"scan", "watch", "reprocess", "reprocessFolder", "retry"}
  /\ MaxCalls \in Nat /\ MaxFaults \in Nat

VARIABLES
  status,        \* kb_files.status of each file; "none" has no row
  folder,        \* kb_folders.status
  queue,         \* the jobs that wait: files with their priority
  activeJobs,    \* the counter
  stopRequested,
  job,           \* the running jobs
  caller,        \* the calls that queue files
  stopping,      \* where the call of stop is
  starting,      \* where the start of the server is, and what it found pending
  calls, faults, \* how often the bounded things happened
  heldBack,      \* history: a file was queued during a stop and nothing looked since
  dropped,       \* history: pending files whose job was dropped
  unreported     \* history: files whose job has ended without saying so

memory  == <<queue, activeJobs, stopRequested>>
bounded == <<calls, faults>>
history == <<heldBack, dropped, unreported>>
vars    == <<status, folder, memory, job, caller, stopping, starting, bounded, history>>
-----------------------------------------------------------------------------
Status  == {"none", "pending", "processing", "completed", "skipped", "error", "deleted"}
Folder  == {"idle", "scanning", "processing", "watching", "error"}
JobPC   == {"mark", "read", "finish", "fail", "count", "look", "settle"}
Free    == [pc |-> "free"]
Gone    == [pc |-> "gone"]
Started == [pc |-> "done", files |-> {}]

Busy        == {w \in Worker : job[w] /= Free}
On(f)       == {w \in Busy : job[w].file = f}
Queued(f)   == \E i \in DOMAIN queue : queue[i].file = f
\* The job has still to write where the file has got to
Open(w)     == job[w].pc \in {"mark", "read", "finish", "fail"}

Init ==
  /\ status = [f \in File |-> "none"] /\ folder = "idle"
  /\ queue = <<>> /\ activeJobs = 0 /\ stopRequested = FALSE
  /\ job = [w \in Worker |-> Free]
  /\ caller = [c \in Caller |-> Gone]
  /\ stopping = "no" /\ starting = Started
  /\ calls = 0 /\ faults = 0
  /\ heldBack = FALSE /\ dropped = {} /\ unreported = {}
-----------------------------------------------------------------------------
(* The queue *)

\* Ahead of the first job of a lower priority, or at the end
Inserted(q, f, p) ==
  LET at == CHOOSE k \in 1..Len(q) + 1 :
              /\ k = Len(q) + 1 \/ q[k].priority < p
              /\ \A j \in 1..k - 1 : q[j].priority >= p
  IN  InsertAt(q, at, [file |-> f, priority |-> p])

\* A limit that counts one too few
CapacityOffByOne(active) == MaxConcurrency + 1 - active
Capacity(active) == IF active < MaxConcurrency THEN MaxConcurrency - active ELSE 0

\* processNext on queue q, with `active` jobs counted and the workers of `free` to run more
ProcessNext(q, active, jobs) ==
  LET free  == SetToSeq({w \in Worker : jobs[w] = Free})
      n     == IF stopRequested THEN 0
               ELSE CHOOSE k \in 0..Len(q) :
                      /\ k <= Capacity(active) /\ k <= Len(free)
                      /\ k = Len(q) \/ k = Capacity(active) \/ k = Len(free)
      begun == {free[i] : i \in 1..n}
  IN  /\ queue' = SubSeq(q, n + 1, Len(q))
      /\ activeJobs' = active + n
      /\ job' = [w \in Worker |->
                   IF w \in begun
                   THEN [pc |-> "mark", file |-> q[CHOOSE i \in 1..n : free[i] = w].file]
                   ELSE jobs[w]]
      /\ heldBack' = IF stopRequested THEN heldBack \/ q /= <<>> ELSE FALSE
-----------------------------------------------------------------------------
(* The processing of a file *)

Step(w, p)       == job' = [job EXCEPT ![w].pc = p]
SetStatus(w, st) == status' = [status EXCEPT ![job[w].file] = st]

Mark(w) ==
  /\ job[w].pc = "mark"
  /\ SetStatus(w, "processing") /\ Step(w, "read")
  /\ unreported' = unreported \ {job[w].file}
  /\ UNCHANGED <<folder, memory, caller, stopping, starting, bounded, heldBack, dropped>>

\* The file is read and its chunks become nodes (a stop cuts that short) ...
Read(w) ==
  /\ job[w].pc = "read"
  /\ Step(w, "finish")
  /\ UNCHANGED <<status, folder, memory, caller, stopping, starting, bounded, history>>

\* ... or there is no reader, no model or no content
SkipSilently(w) ==
  /\ job[w].pc = "read"
  /\ Step(w, "count")
  /\ UNCHANGED <<status, folder, memory, caller, stopping, starting, bounded, history>>
Skip(w) ==
  /\ job[w].pc = "read"
  /\ SetStatus(w, "skipped") /\ Step(w, "count")
  /\ UNCHANGED <<folder, memory, caller, stopping, starting, bounded, history>>

Finish(w) ==
  /\ job[w].pc = "finish"
  /\ SetStatus(w, "completed") /\ Step(w, "count")
  /\ UNCHANGED <<folder, memory, caller, stopping, starting, bounded, history>>

\* Anything before the last write throws
Throw(w) ==
  /\ job[w].pc \in {"mark", "read", "finish"}
  /\ Step(w, "fail")
  /\ UNCHANGED <<status, folder, memory, caller, stopping, starting, bounded, history>>

Report(w) ==
  /\ job[w].pc = "fail"
  /\ SetStatus(w, "error") /\ Step(w, "count")
  /\ UNCHANGED <<folder, memory, caller, stopping, starting, bounded, history>>

\* The report of the error fails, and that is swallowed
ReportLost(w) ==
  /\ job[w].pc = "fail"
  /\ faults < MaxFaults /\ faults' = faults + 1
  /\ Step(w, "count")
  /\ unreported' = unreported \cup {job[w].file}
  /\ UNCHANGED <<status, folder, memory, caller, stopping, starting, calls,
                 heldBack, dropped>>

\* The finally block of processNext
EndJob(w) ==
  IF stopRequested
  THEN /\ job' = [job EXCEPT ![w] = Free] /\ activeJobs' = activeJobs - 1
       /\ UNCHANGED <<queue, heldBack>>
  ELSE ProcessNext(queue, activeJobs - 1, [job EXCEPT ![w] = Free])

\* maybeFinishFolderProcessing: is work left, in the table or in the queue?
Count(w) ==
  /\ job[w].pc = "count"
  /\ IF queue /= <<>> \/ \E f \in File : status[f] \in {"pending", "processing"}
     THEN EndJob(w)
     ELSE Step(w, "look") /\ UNCHANGED <<queue, activeJobs, heldBack>>
  /\ UNCHANGED <<status, folder, stopRequested, caller, stopping, starting, bounded,
                 dropped, unreported>>

\* Is the folder waiting for it?
Look(w) ==
  /\ job[w].pc = "look"
  /\ IF folder = "processing"
     THEN Step(w, "settle") /\ UNCHANGED <<queue, activeJobs, heldBack>>
     ELSE EndJob(w)
  /\ UNCHANGED <<status, folder, stopRequested, caller, stopping, starting, bounded,
                 dropped, unreported>>

Settle(w) ==
  /\ job[w].pc = "settle"
  /\ folder' \in {"watching", "idle"}
  /\ EndJob(w)
  /\ UNCHANGED <<status, stopRequested, caller, stopping, starting, bounded,
                 dropped, unreported>>
\* One of the three throws, which is swallowed
CheckFails(w) ==
  /\ job[w].pc \in {"count", "look", "settle"}
  /\ EndJob(w)
  /\ UNCHANGED <<status, folder, stopRequested, caller, stopping, starting, bounded,
                 dropped, unreported>>
-----------------------------------------------------------------------------
(* The calls that queue files *)

Has(c, p) == caller[c].pc = p

\* What a call is about: the files found on disk, the file of the event, the file or all the
\* files to be processed again, the files in error
Todo(k) ==
  CASE k = "scan"      -> SUBSET File
    [] k = "watch"     -> {{f} : f \in File}
    [] k = "reprocess" -> {{f} : f \in {g \in File : status[g] /= "none"}}
    [] k = "reprocessFolder" -> {{f \in File : status[f] /= "none"}}
    [] k = "retry"     -> {{f \in File : status[f] = "error"}}

Priority(k) == IF k = "reprocess" THEN 1 ELSE 0

BeginCall(c, k, todo) ==
  /\ Has(c, "gone") /\ calls < MaxCalls
  /\ calls' = calls + 1
  /\ caller' = [caller EXCEPT ![c] =
                  [pc |-> "next", kind |-> k, found |-> todo, todo |-> todo, file |-> NoFile,
                   new |-> FALSE, any |-> FALSE]]
  /\ folder' = IF k = "scan" THEN "scanning" ELSE folder
  /\ UNCHANGED <<status, memory, job, stopping, starting, faults, history>>

\* A scan and an event pass over a file that is completed and has not changed
PassOver(c, f) ==
  /\ Has(c, "next") /\ f \in caller[c].todo
  /\ caller[c].kind \in {"scan", "watch"} /\ status[f] = "completed"
  /\ caller' = [caller EXCEPT ![c].todo = @ \ {f}]
  /\ UNCHANGED <<status, folder, memory, job, stopping, starting, bounded, history>>

\* The others will be queued: that is decided now, and done when the nodes are archived
TakeUp(c, f) ==
  /\ Has(c, "next") /\ f \in caller[c].todo
  /\ caller' = [caller EXCEPT ![c].todo = @ \ {f}, ![c].pc = "reset", ![c].file = f,
                              ![c].new = status[f] = "none"]
  /\ UNCHANGED <<status, folder, memory, job, stopping, starting, bounded, history>>

\* The row is inserted (that fails if another call was faster), or set back to pending
Reset(c) ==
  /\ Has(c, "reset")
  /\ caller[c].new => status[caller[c].file] = "none"
  /\ status' = [status EXCEPT ![caller[c].file] = "pending"]
  /\ caller' = [caller EXCEPT ![c].pc = "enqueue"]
  /\ unreported' = unreported \ {caller[c].file}
  /\ UNCHANGED <<folder, memory, job, stopping, starting, bounded, heldBack, dropped>>

\* A queue that is looked at when a job ends only
EnqueueQuietly(c) ==
  /\ Has(c, "enqueue")
  /\ queue' = Inserted(queue, caller[c].file, Priority(caller[c].kind))
  /\ caller' = [caller EXCEPT ![c].pc = "next", ![c].file = NoFile, ![c].any = TRUE]
  /\ dropped' = dropped \ {caller[c].file}
  /\ UNCHANGED <<status, folder, activeJobs, stopRequested, job, stopping, starting, bounded,
                 heldBack, unreported>>
Enqueue(c) ==
  /\ Has(c, "enqueue")
  /\ ProcessNext(Inserted(queue, caller[c].file, Priority(caller[c].kind)), activeJobs, job)
  /\ caller' = [caller EXCEPT ![c].pc = "next", ![c].file = NoFile, ![c].any = TRUE]
  /\ dropped' = dropped \ {caller[c].file}
  /\ UNCHANGED <<status, folder, stopRequested, stopping, starting, bounded, unreported>>

\* A scan marks a file that is in the table and no longer on disk
MarkDeleted(c, f) ==
  /\ Has(c, "next") /\ caller[c].kind = "scan" /\ caller[c].todo = {}
  /\ f \notin caller[c].found /\ status[f] \notin {"none", "deleted"}
  /\ status' = [status EXCEPT ![f] = "deleted"]
  /\ UNCHANGED <<folder, memory, job, caller, stopping, starting, bounded, history>>

EndCall(c) ==
  /\ Has(c, "next") /\ caller[c].todo = {}
  /\ caller' = [caller EXCEPT ![c] = Gone]
  /\ folder' \in IF caller[c].kind /= "scan" THEN {folder}
                 ELSE IF caller[c].any THEN {"processing"} ELSE {"watching", "idle"}
  /\ UNCHANGED <<status, memory, job, stopping, starting, bounded, history>>

\* A call throws; what it has reset and not queued stays pending
FailCall(c) ==
  /\ caller[c] /= Gone
  /\ caller' = [caller EXCEPT ![c] = Gone]
  /\ folder' = IF caller[c].kind = "scan" THEN "error" ELSE folder
  /\ dropped' = IF Has(c, "enqueue") THEN dropped \cup {caller[c].file} ELSE dropped
  /\ UNCHANGED <<status, memory, job, stopping, starting, bounded, heldBack, unreported>>

\* The watcher sees a file go, whatever is being done with it
Unlink(f) ==
  /\ "watch" \in Kinds /\ calls < MaxCalls /\ status[f] /= "none"
  /\ calls' = calls + 1
  /\ status' = [status EXCEPT ![f] = "skipped"]
  /\ UNCHANGED <<folder, memory, job, caller, stopping, starting, faults, history>>

\* A watcher starts, stops or fails
Watcher ==
  /\ "watch" \in Kinds /\ calls < MaxCalls
  /\ calls' = calls + 1
  /\ folder' \in {"watching", "idle", "error"}
  /\ UNCHANGED <<status, memory, job, caller, stopping, starting, faults, history>>
-----------------------------------------------------------------------------
(* Stop, resume, crash and start *)

\* The jobs go on, but the counter of the running ones is reset
StopCountsAgain ==
  /\ stopping = "no" /\ faults < MaxFaults
  /\ faults' = faults + 1
  /\ dropped' = dropped \cup {f \in File : Queued(f)}
  /\ queue' = <<>> /\ stopRequested' = TRUE /\ activeJobs' = 0
  /\ heldBack' = FALSE /\ stopping' = "files"
  /\ UNCHANGED <<status, folder, job, caller, starting, calls, unreported>>
Stop ==
  /\ stopping = "no" /\ faults < MaxFaults
  /\ faults' = faults + 1
  /\ dropped' = dropped \cup {f \in File : Queued(f)}
  /\ queue' = <<>> /\ stopRequested' = TRUE
  /\ heldBack' = FALSE /\ stopping' = "files"
  /\ UNCHANGED <<status, folder, activeJobs, job, caller, starting, calls, unreported>>

\* Files that are being processed become pending, those of the jobs that go on included
ResetFiles ==
  LET stuck == {f \in File : status[f] = "processing"}
  IN  /\ status' = [f \in File |-> IF f \in stuck THEN "pending" ELSE status[f]]
      /\ dropped' = dropped \cup {f \in stuck : ~\E w \in On(f) : Open(w)}
      /\ unreported' = unreported \ stuck
ResetFolder == folder' = IF folder \in {"scanning", "processing"} THEN "idle" ELSE folder

StopFiles ==
  /\ stopping = "files" /\ stopping' = "folders"
  /\ ResetFiles
  /\ UNCHANGED <<folder, memory, job, caller, starting, bounded, heldBack>>

StopFolders ==
  /\ stopping = "folders" /\ stopping' = "no"
  /\ ResetFolder
  /\ UNCHANGED <<status, memory, job, caller, starting, bounded, history>>

\* Nothing is looked for in the queue
Resume ==
  /\ stopRequested /\ stopRequested' = FALSE
  /\ UNCHANGED <<status, folder, queue, activeJobs, job, caller, stopping, starting, bounded,
                 history>>

\* What is in memory is lost
Crash ==
  /\ faults < MaxFaults /\ faults' = faults + 1
  /\ queue' = <<>> /\ activeJobs' = 0 /\ stopRequested' = FALSE
  /\ job' = [w \in Worker |-> Free] /\ caller' = [c \in Caller |-> Gone]
  /\ stopping' = "no" /\ starting' = [pc |-> "files", files |-> {}]
  /\ heldBack' = FALSE
  /\ UNCHANGED <<status, folder, calls, dropped, unreported>>

\* A start that recovers the folders only
RecoverNoFiles ==
  /\ starting.pc = "files" /\ starting' = [starting EXCEPT !.pc = "folders"]
  /\ UNCHANGED <<status, folder, memory, job, caller, stopping, bounded, history>>
\* recoverStuckFiles: routes are served already
RecoverFiles ==
  /\ starting.pc = "files" /\ starting' = [starting EXCEPT !.pc = "folders"]
  /\ ResetFiles
  /\ UNCHANGED <<folder, memory, job, caller, stopping, bounded, heldBack>>

RecoverFolders ==
  /\ starting.pc = "folders" /\ starting' = [starting EXCEPT !.pc = "select"]
  /\ ResetFolder
  /\ UNCHANGED <<status, memory, job, caller, stopping, bounded, history>>

\* requeuePendingFiles: what is pending or in error is read ...
\* A start that forgets what was waiting when the server went down
SelectErrors ==
  /\ starting.pc = "select"
  /\ starting' = [pc |-> "requeue", files |-> {f \in File : status[f] = "error"}]
  /\ UNCHANGED <<status, folder, memory, job, caller, stopping, bounded, history>>
SelectPending ==
  /\ starting.pc = "select"
  /\ starting' = [pc |-> "requeue", files |-> {f \in File : status[f] \in {"pending", "error"}}]
  /\ UNCHANGED <<status, folder, memory, job, caller, stopping, bounded, history>>

\* ... what is in error by now is set to pending, and what was read is queued
Requeue ==
  LET sel == starting.files
      bad == IF sel = {} THEN {} ELSE {f \in File : status[f] = "error"}
      all == SetToSeq(sel)
  IN  /\ starting.pc = "requeue" /\ starting' = Started
      /\ status' = [f \in File |-> IF f \in bad THEN "pending" ELSE status[f]]
      /\ dropped' = (dropped \cup bad) \ sel
      /\ IF sel = {} THEN UNCHANGED <<queue, activeJobs, job, heldBack>>
         ELSE ProcessNext(queue \o [i \in 1..Len(all) |-> [file |-> all[i], priority |-> 0]],
                          activeJobs, job)
      /\ UNCHANGED <<folder, stopRequested, caller, stopping, bounded, unreported>>
-----------------------------------------------------------------------------
JobStep(w) == \/ Mark(w) \/ Read(w) \/ Skip(w) \/ Finish(w) \/ Throw(w)
              \/ Report(w) \/ ReportLost(w) \/ Count(w) \/ Look(w) \/ Settle(w) \/ CheckFails(w)

CallerStep(c) == \/ \E k \in Kinds : \E todo \in Todo(k) : BeginCall(c, k, todo)
                 \/ \E f \in File : PassOver(c, f) \/ TakeUp(c, f) \/ MarkDeleted(c, f)
                 \/ Reset(c) \/ Enqueue(c) \/ EndCall(c) \/ FailCall(c)

Start == RecoverFiles \/ RecoverFolders \/ SelectPending \/ Requeue

Next ==
  \/ \E w \in Worker : JobStep(w)
  \/ \E c \in Caller : CallerStep(c)
  \/ \E f \in File : Unlink(f)
  \/ Watcher \/ Stop \/ StopFiles \/ StopFolders \/ Resume \/ Crash \/ Start

(* Readers, models and the database answer or throw in the end; a started server starts *)
Spec == Init /\ [][Next]_vars
FairSpec == Spec /\ (\A w \in Worker : WF_vars(JobStep(w))) /\ WF_vars(Start)
-----------------------------------------------------------------------------
(* Every variable has a value of its type *)
TypeOK ==
  /\ status \in [File -> Status] /\ folder \in Folder
  /\ queue \in Seq([file : File, priority : {0, 1}])
  /\ activeJobs \in Nat /\ stopRequested \in BOOLEAN
  /\ job \in [Worker -> [pc : JobPC, file : File] \cup {Free}]
  /\ caller \in [Caller -> {Gone} \cup
       [pc : {"next", "reset", "enqueue"}, kind : Kinds, found : SUBSET File, todo : SUBSET File,
        file : File \cup {NoFile}, new : BOOLEAN, any : BOOLEAN]]
  /\ stopping \in {"no", "files", "folders"}
  /\ starting \in [pc : {"files", "folders", "select", "requeue", "done"}, files : SUBSET File]
  /\ calls \in 0..MaxCalls /\ faults \in 0..MaxFaults
  /\ heldBack \in BOOLEAN /\ dropped \subseteq File /\ unreported \subseteq File

(* Never more jobs than the limit, and the counter is the number of jobs: over stops that
   leave jobs running, resumes and restarts it neither drifts up (the pipeline would come to
   a halt) nor down (it would run over its limit). *)
CountsJobs == /\ activeJobs = Cardinality(Busy)
              /\ activeJobs <= MaxConcurrency

(* A file that says it is being processed is: its job has yet to write how it ends, however
   many jobs of the file there are.  Only a report that failed, or a crash until the start
   has recovered the files, leaves one behind. *)
ProcessingHasJob ==
  \A f \in File : status[f] = "processing" =>
    \/ \E w \in On(f) : Open(w)
    \/ f \in unreported \/ starting.pc = "files"

(* A file that waits is waited for: there is a job of it in the queue or running, or the
   call (or the start) that made it pending is about to queue one - unless the job was
   dropped by a stop, or the call threw in between, or the start reset an error it had
   not read, or the job has failed before its first write and could not say so. *)
PendingHasJob ==
  \A f \in File : status[f] = "pending" =>
    \/ Queued(f) \/ \E w \in On(f) : Open(w)
    \/ \E c \in Caller : Has(c, "enqueue") /\ caller[c].file = f
    \/ starting.pc \in {"files", "folders", "select"} \/ f \in starting.files
    \/ f \in dropped \cup unreported

(* No place stays empty while a job waits: nobody polls the queue, and the next job is
   looked for only when one is queued or one ends.  What was queued during a stop waits
   for the next of these. *)
NoIdleCapacity ==
  queue /= <<>> /\ ~stopRequested /\ activeJobs < MaxConcurrency => heldBack

(* Processing ends, also when the server crashes: the file gets a final status or waits
   again. *)
ProcessingEnds ==
  \A f \in File : status[f] = "processing" ~> status[f] /= "processing" \/ f \in unreported
=============================================================================
