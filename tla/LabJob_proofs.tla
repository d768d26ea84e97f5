--------------------------- MODULE LabJob_proofs ---------------------------
(***************************************************************************)
(* Proofs about LabJob for every number of scans, attempts, jobs, crashes  *)
(* and lost writes: the type invariant, that a verdict is applied once and *)
(* once more at most per crash and per lost write (AppliedOnce), that an   *)
(* attempt has one live job (OneJobPerAttempt), and that only dead jobs    *)
(* are forgotten (ForgetsDeadJobsOnly).                                    *)
(*                                                                         *)
(* AppliedOnce is not inductive: what keeps a second application away is   *)
(* that a pipeline about to apply a verdict, or an entry about to be       *)
(* resumed, exists only if every earlier application was followed by a     *)
(* crash or a lost write, and that only the attempt a job was submitted    *)
(* for ever works on it.  Attempt says so of one attempt.                  *)
(*                                                                         *)
(* Nor is OneJobPerAttempt, which says how many live jobs there are and    *)
(* not that the entry knows the one that is not lost.  Keeping says which  *)
(* it is, and that the tick stays right about the job it has asked about.  *)
(***************************************************************************)
EXTENDS LabJob, TLAPS, FiniteSetTheorems

\* The states of a pipeline that may still apply its job's verdict
BeforeApply == {"store", "poll", "record", "recordError", "recordSkip", "apply"}

\* The jobs an attempt knows were submitted for it.
Owned(i) ==
  /\ pipe[i].job # 0 => owner[pipe[i].job] = i
  /\ entry[i].job # 0 => owner[entry[i].job] = i

\* The order of the code's steps: what a pipeline's position says of its entry.
Shape(i) ==
  /\ pipe[i].pc \in BeforeApply => pipe[i].job # 0
  /\ pipe[i].pc = "submit" => pipe[i].job = 0 /\ entry[i].job = 0
  /\ pipe[i].pc # "idle" => entry[i].job \in {0, pipe[i].job}
  /\ pipe[i].pc # "idle" => entry[i].status # "absent"
  /\ pipe[i].pc = "retry" => entry[i].status \notin Active
  /\ entry[i].status = "pending" => pipe[i].pc = "idle"
  /\ entry[i].job # 0 => entry[i].status # "absent"
  /\ entry[i].status # "absent" => i <= lastId

\* What crashes and lost writes allow beyond the first application is not spent while
\* another application may follow.
Unspent(i) ==
  /\ pipe[i].pc \in BeforeApply => applied[pipe[i].job] <= crashes + lost
  /\ entry[i].status \in Active /\ pipe[i].pc = "idle" /\ entry[i].job # 0
       => applied[entry[i].job] <= crashes + lost

Attempt(i) == Owned(i) /\ Shape(i) /\ Unspent(i)

\* A job that was not submitted yet has no owner and no verdict.
Fresh == \A j \in Jobs : j > lastJob => owner[j] = 0 /\ applied[j] = 0

Inductive == (\A i \in Ids : Attempt(i)) /\ Fresh /\ AppliedOnce

IInv == TypeOK /\ Inductive

\* The jobs submitted for an attempt that may still bring a verdict, and the one of them
\* that its table row names or is about to.
Live(i) == {j \in Jobs : owner[j] = i /\ job[j] \in Result \cup {"running"}}
Kept(i) == IF pipe[i].pc = "store" THEN pipe[i].job ELSE entry[i].job

\* All but the kept one are jobs whose id was never stored.
Strays(i) == Cardinality(Live(i) \ {Kept(i)}) <= unstored

\* An id is stored where there was none.
Storing(i) == pipe[i].pc = "store" => entry[i].job = 0

\* The tick forgets the job that it has asked about, which stays as dead as it was.
Asking ==
  /\ tick.pc \in {"peek", "clear"} => tick.id \in Ids /\ entry[tick.id].job # 0
  /\ tick.pc = "clear" => job[entry[tick.id].job] \in Dead

Keeping == Asking /\ \A i \in Ids : Strays(i) /\ Storing(i)
-----------------------------------------------------------------------------
(* Moves of a pipeline *)

\* Where a poll leads.
LEMMA PolledMoves ==
  ASSUME NEW i \in Ids, Polled(i)
  PROVE  \E p \in {"record", "recordError", "recordSkip", "failed"} : Goto(i, p)
<1>1. CASE job[pipe[i].job] = "completed"
  BY <1>1 DEF Polled, PollResult, PollFails
<1>2. CASE job[pipe[i].job] = "undecided"
  BY <1>2 DEF Polled, PollResult, PollFails
<1>3. CASE job[pipe[i].job] \notin {"completed", "undecided"}
  BY <1>3 DEF Polled, PollResult, PollFails
<1> QED
  BY <1>1, <1>2, <1>3

\* Where the recording of a result leads: only a completed job's verdict is applied.
LEMMA RecordMoves ==
  ASSUME NEW i \in Ids, Record(i)
  PROVE  \E p \in {"apply", "done", "failed"} : Goto(i, p) /\ (p = "apply" => pipe[i].pc = "record")
<1>1. CASE pipe[i].pc = "record"
  BY <1>1 DEF Record
<1>2. CASE pipe[i].pc = "recordSkip"
  BY <1>2 DEF Record
<1>3. CASE pipe[i].pc \notin {"record", "recordSkip"}
  BY <1>3 DEF Record
<1> QED
  BY <1>1, <1>2, <1>3
-----------------------------------------------------------------------------
(* Initially *)

\* The initial states are well typed and satisfy the inductive invariant.
LEMMA InitIInv == Init => IInv
<1> SUFFICES ASSUME Init PROVE IInv
  OBVIOUS
<1>1. TypeOK
  BY LabAssumption DEF Init, TypeOK, Ids, Jobs, Entry, Status, Active, Terminal, Pipe, IdlePipe, IdleTick,
     IdleScan, PipePC, TickPC, JobState
<1>2. ASSUME NEW i \in Ids PROVE Attempt(i)
  BY LabAssumption DEF Init, Attempt, Owned, Shape, Unspent, BeforeApply, IdlePipe, Ids
<1>3. Fresh /\ AppliedOnce
  BY LabAssumption DEF Init, Fresh, AppliedOnce, Jobs
<1> QED
  BY <1>1, <1>2, <1>3 DEF IInv, Inductive
-----------------------------------------------------------------------------
(* Types *)

\* A job id stored in the table is the id of some job of the server.
LEMMA StoredJob ==
  ASSUME TypeOK, NEW k \in Ids, entry[k].job # 0
  PROVE  entry[k].job \in Jobs
<1>1. entry[k] \in Entry
  BY DEF TypeOK
<1>2. entry[k].job \in 0..MaxJobs
  BY <1>1 DEF Entry
<1> QED
  BY <1>2, LabAssumption DEF Jobs

\* Setting a status keeps the table well typed.
LEMMA SetStatusType ==
  ASSUME TypeOK, NEW i \in Ids, NEW st \in Status, SetStatus(i, st)
  PROVE  entry' \in [Ids -> Entry]
  BY DEF TypeOK, SetStatus, Entry

\* Moving a pipeline on keeps the pipelines well typed.
LEMMA GotoType ==
  ASSUME TypeOK, NEW i \in Ids, NEW p \in PipePC, Goto(i, p)
  PROVE  pipe' \in [Ids -> Pipe]
  BY DEF TypeOK, Goto, Pipe

\* So does ending one, and starting one on a job or on none.
LEMMA PipeType ==
  ASSUME TypeOK, NEW i \in Ids, NEW p \in PipePC, NEW j \in 0..MaxJobs,
         pipe' = [pipe EXCEPT ![i] = [pc |-> p, job |-> j]]
  PROVE  pipe' \in [Ids -> Pipe]
  BY DEF TypeOK, Pipe

\* Counting one more keeps a counter of jobs well typed.
LEMMA CountType ==
  ASSUME NEW f \in [Jobs -> Nat], NEW j
  PROVE  [f EXCEPT ![j] = @ + 1] \in [Jobs -> Nat]
<1>1. CASE j \in Jobs
  BY <1>1
<1>2. CASE j \notin Jobs
  BY <1>2
<1> QED
  BY <1>1, <1>2

\* A pipeline that ends.
LEMMA IdleType ==
  ASSUME TypeOK, NEW i \in Ids, pipe' = [pipe EXCEPT ![i] = IdlePipe]
  PROVE  pipe' \in [Ids -> Pipe]
<1>1. IdlePipe \in Pipe
  BY LabAssumption DEF IdlePipe, Pipe, PipePC
<1> QED
  BY <1>1 DEF TypeOK

\* Every step of a pipeline keeps the types.
LEMMA PipelineType ==
  ASSUME TypeOK, NEW i \in Ids, Pipeline(i)
  PROVE  TypeOK'
<1>0. /\ pipe[i].pc \in PipePC /\ pipe[i].job \in 0..MaxJobs /\ entry[i].job \in 0..MaxJobs
      /\ entry[i].status \in Status
  BY DEF TypeOK, Pipe, Entry
<1>1. CASE Claim(i)
  <2>1. entry' \in [Ids -> Entry]
    BY <1>1, SetStatusType DEF Claim, Status, Active
  <2>2. pipe' \in [Ids -> Pipe]
    <3> DEFINE p == IF entry[i].job = 0 THEN "submit" ELSE "poll"
    <3>1. p \in PipePC
      BY DEF PipePC
    <3>2. pipe' = [pipe EXCEPT ![i] = [pc |-> p, job |-> entry[i].job]]
      BY <1>1 DEF Claim
    <3> HIDE DEF p
    <3> QED
      BY <1>0, <3>1, <3>2, PipeType
  <2> QED
    BY <1>1, <2>1, <2>2 DEF Claim, TypeOK, lab, faults, history
<1>2. CASE Submit(i)
  <2>1. lastJob + 1 \in Jobs /\ lastJob + 1 \in 0..MaxJobs
    BY <1>2, LabAssumption DEF Submit, TypeOK, Jobs
  <2>2. pipe' \in [Ids -> Pipe]
    BY <1>2, <2>1, PipeType DEF Submit, PipePC
  <2>3. job' \in [Jobs -> JobState] /\ owner' \in [Jobs -> 0..MaxEntries]
    <3>1. i \in 0..MaxEntries /\ "running" \in JobState
      BY LabAssumption DEF Ids, JobState
    <3> QED
      BY <1>2, <3>1 DEF Submit, TypeOK
  <2> QED
    BY <1>2, <2>1, <2>2, <2>3 DEF Submit, TypeOK, queue, faults
<1>3. CASE NotSubmitted(i)
  <2>1. pipe' \in [Ids -> Pipe]
    BY <1>3, GotoType DEF NotSubmitted, PipePC
  <2> QED
    BY <1>3, <2>1 DEF NotSubmitted, TypeOK, queue, lab, faults, history
<1>4. CASE Store(i)
  <2>1. pipe' \in [Ids -> Pipe]
    BY <1>4, GotoType DEF Store, PipePC
  <2>2. entry' \in [Ids -> Entry]
    BY <1>0, <1>4 DEF Store, TypeOK, Entry
  <2> QED
    BY <1>4, <2>1, <2>2 DEF Store, TypeOK, lab, faults, history
<1>5. CASE StoreLost(i)
  <2>1. pipe' \in [Ids -> Pipe]
    BY <1>5, GotoType DEF StoreLost, PipePC
  <2> QED
    BY <1>5, <2>1 DEF StoreLost, TypeOK, queue, lab
<1>6. CASE Polled(i)
  <2>1. PICK p \in PipePC : Goto(i, p)
    BY <1>6, PolledMoves DEF PipePC
  <2>2. pipe' \in [Ids -> Pipe]
    BY <2>1, GotoType
  <2> QED
    BY <1>6, <2>2 DEF Polled, PollResult, PollFails, TypeOK, queue, lab, faults, history
<1>7. CASE Record(i)
  <2>1. PICK p : p \in PipePC /\ Goto(i, p)
    BY <1>7, RecordMoves DEF PipePC
  <2>2. pipe' \in [Ids -> Pipe]
    BY <2>1, GotoType
  <2>3. recorded' \in [Jobs -> Nat]
    BY <1>7, CountType DEF Record, TypeOK
  <2> QED
    BY <1>7, <2>2, <2>3 DEF Record, TypeOK, queue, lab, faults, history
<1>8. CASE Apply(i)
  <2>1. pipe' \in [Ids -> Pipe]
    BY <1>8, GotoType DEF Apply, PipePC
  <2>2. applied' \in [Jobs -> Nat]
    BY <1>8 DEF Apply, TypeOK
  <2> QED
    BY <1>8, <2>1, <2>2 DEF Apply, TypeOK, queue, lab, faults
<1>9. CASE Complete(i)
  <2>1. PICK st \in Status : SetStatus(i, st)
    BY <1>9 DEF Complete, Status, Terminal
  <2>2. entry' \in [Ids -> Entry]
    BY <2>1, SetStatusType
  <2>3. pipe' \in [Ids -> Pipe]
    <3>1. CASE pipe[i].pc = "done"
      <4>1. pipe' = [pipe EXCEPT ![i] = IdlePipe]
        BY <1>9, <3>1 DEF Complete
      <4> QED
        BY <4>1, IdleType
    <3>2. CASE pipe[i].pc # "done"
      <4>1. pipe' = [pipe EXCEPT ![i] = [pipe[i] EXCEPT !.pc = "retry"]]
        BY <1>9, <3>2 DEF Complete
      <4> QED
        BY <4>1 DEF TypeOK, Pipe, PipePC
    <3> QED
      BY <3>1, <3>2
  <2> QED
    BY <1>9, <2>2, <2>3 DEF Complete, TypeOK, lab, faults, history
<1>10. CASE CompleteLost(i)
  <2>1. pipe' \in [Ids -> Pipe]
    BY <1>10, IdleType DEF CompleteLost
  <2> QED
    BY <1>10, <2>1 DEF CompleteLost, TypeOK, queue, lab, history
<1>12. CASE EndingThrows(i)
  <2>1. pipe' \in [Ids -> Pipe]
    BY <1>12, GotoType DEF EndingThrows, PipePC
  <2> QED
    BY <1>12, <2>1 DEF EndingThrows, TypeOK, queue, lab, history
<1>11. CASE Requeue(i)
  <2>1. pipe' \in [Ids -> Pipe]
    BY <1>11, IdleType DEF Requeue
  <2>2. entry' \in [Ids -> Entry] /\ lastId' \in Ids
    <3>1. CASE AttemptLeft
      <4>1. lastId + 1 \in Ids
        BY <3>1, LabAssumption DEF AttemptLeft, TypeOK, Ids
      <4>2. SetStatus(lastId + 1, "pending") /\ lastId' = lastId + 1
        BY <1>11, <3>1 DEF Requeue
      <4> QED
        BY <4>1, <4>2, SetStatusType DEF Status, Active
    <3>2. CASE ~AttemptLeft
      BY <1>11, <3>2 DEF Requeue, TypeOK, queue
    <3> QED
      BY <3>1, <3>2
  <2> QED
    BY <1>11, <2>1, <2>2 DEF Requeue, TypeOK, lab, faults, history
<1> QED
  BY <1>1, <1>2, <1>3, <1>4, <1>5, <1>6, <1>7, <1>8, <1>9, <1>10, <1>11, <1>12
     DEF Pipeline, Ending

\* Every step keeps the types.
LEMMA TypeStep ==
  ASSUME TypeOK, [Next]_vars
  PROVE  TypeOK'
<1>1. ASSUME NEW i \in Ids, Pipeline(i) PROVE TypeOK'
  BY <1>1, PipelineType
<1>2. ASSUME NEW i \in Ids, Orphan(i) PROVE TypeOK'
  <2>1. entry' \in [Ids -> Entry]
    BY <1>2, SetStatusType DEF Orphan, Status, Active, Terminal
  <2>2. tick' \in [pc : TickPC, id : 0..MaxEntries]
    BY <1>2, LabAssumption DEF Orphan, TickPC, Ids
  <2> QED
    BY <1>2, <2>1, <2>2 DEF Orphan, TypeOK, lab, faults, history
<1>3. ASSUME NEW i \in Ids, PeekStart(i) PROVE TypeOK'
  <2>1. tick' \in [pc : TickPC, id : 0..MaxEntries]
    BY <1>3, LabAssumption DEF PeekStart, TickPC, Ids
  <2> QED
    BY <1>3, <2>1 DEF PeekStart, TypeOK, queue, lab, faults, history
<1>4. CASE CancelJob \/ Peek \/ PeekUnreachable \/ PeekClear
  <2>1. tick' \in [pc : TickPC, id : 0..MaxEntries]
    BY <1>4, LabAssumption DEF CancelJob, Peek, PeekUnreachable, PeekClear, IdleTick, TickPC, TypeOK
  <2>2. job' \in [Jobs -> JobState]
    BY <1>4 DEF CancelJob, Peek, PeekUnreachable, PeekClear, JobState, TypeOK, lab
  <2>3. failures' \in [Ids -> Nat]
    BY <1>4 DEF CancelJob, Peek, PeekUnreachable, PeekClear, TypeOK, history
  <2>4. entry' \in [Ids -> Entry]
    BY <1>4, LabAssumption DEF CancelJob, Peek, PeekUnreachable, PeekClear, Entry, TypeOK, queue
  <2> QED
    BY <1>4, <2>1, <2>2, <2>3, <2>4
       DEF CancelJob, Peek, PeekUnreachable, PeekClear, TypeOK, queue, lab, faults, history
<1>5. CASE Scans
  <2> DEFINE Scan == [pc : {"idle", "fetch", "skip"}, job : 0..MaxJobs]
  <2>0. IdleScan \in Scan
    BY LabAssumption DEF IdleScan
  <2>1. ASSUME NEW s \in Scanner, NEW j \in Jobs, ScanCheck(s, j) PROVE TypeOK'
    <3>1. [pc |-> IF job[j] = "completed" THEN "fetch" ELSE "skip", job |-> j] \in Scan
      BY LabAssumption DEF Jobs
    <3>2. scan' \in [Scanner -> Scan]
      BY <2>1, <3>1 DEF ScanCheck, TypeOK
    <3> QED
      BY <2>1, <3>2 DEF ScanCheck, TypeOK, queue, lab, faults, history
  <2>2. ASSUME NEW s \in Scanner, ScanRecord(s) PROVE TypeOK'
    <3>1. scan' \in [Scanner -> Scan]
      BY <2>0, <2>2 DEF ScanRecord, TypeOK
    <3>2. recorded' \in [Jobs -> Nat]
      BY <2>2, CountType DEF ScanRecord, TypeOK
    <3> QED
      BY <2>2, <3>1, <3>2 DEF ScanRecord, TypeOK, queue, lab, faults, history
  <2>3. ASSUME NEW s \in Scanner, ScanSkips(s) \/ ScanFails(s) PROVE TypeOK'
    <3>1. scan' \in [Scanner -> Scan]
      BY <2>0, <2>3 DEF ScanSkips, ScanFails, TypeOK
    <3> QED
      BY <2>3, <3>1 DEF ScanSkips, ScanFails, TypeOK, queue, lab, faults, history
  <2> QED
    BY <1>5, <2>1, <2>2, <2>3 DEF Scans
<1>6. CASE Lab
  <2>1. job' \in [Jobs -> JobState]
    BY <1>6 DEF Lab, LabFinishes, LabDeletes, Miss, LabFlips, JobState, Result, TypeOK
  <2> QED
    BY <1>6, <2>1 DEF Lab, LabFinishes, LabDeletes, Miss, LabFlips, TypeOK, queue, faults, history
<1>7. CASE CrashRestart
  <2>1. entry' \in [Ids -> Entry]
    BY <1>7 DEF CrashRestart, RecoverStuck, Entry, Status, Active, TypeOK
  <2>2. pipe' \in [Ids -> Pipe]
    BY <1>7, LabAssumption DEF CrashRestart, IdlePipe, Pipe, PipePC
  <2>3. /\ tick' \in [pc : TickPC, id : 0..MaxEntries]
        /\ scan' \in [Scanner -> [pc : {"idle", "fetch", "skip"}, job : 0..MaxJobs]]
    BY <1>7, LabAssumption DEF CrashRestart, IdleTick, TickPC, IdleScan
  <2>4. unstored' \in Nat
    <3> DEFINE S == {i \in Ids : pipe[i].pc = "store"}
    <3>0. S \in SUBSET Ids
      OBVIOUS
    <3>. HIDE DEF S
    <3>1. IsFiniteSet(Ids)
      BY FS_Interval, LabAssumption DEF Ids
    <3>2. IsFiniteSet(S)
      BY <3>0, <3>1, FS_Subset
    <3>3. Cardinality(S) \in Nat
      BY <3>2, FS_CardinalityType
    <3>4. unstored' = unstored + Cardinality(S) /\ unstored \in Nat
      BY <1>7 DEF CrashRestart, TypeOK, S
    <3> QED
      BY <3>3, <3>4
  <2> QED
    BY <1>7, <2>1, <2>2, <2>3, <2>4 DEF CrashRestart, TypeOK, lab
<1>8. CASE UNCHANGED vars
  BY <1>8 DEF vars, TypeOK, queue, lab, faults, history
<1> QED
  BY <1>1, <1>2, <1>3, <1>4, <1>5, <1>6, <1>7, <1>8 DEF Next, Tick
-----------------------------------------------------------------------------
(* Verdicts *)

\* What is within a budget is within a larger one.
LEMMA Within ==
  ASSUME NEW n \in Nat, NEW a \in Nat, NEW b \in Nat, NEW c \in Nat, NEW d \in Nat,
         n <= a + b, c + d >= a + b
  PROVE  n <= c + d
  OBVIOUS

\* An attempt that a step leaves alone stays as it was, whatever the step does to the
\* jobs of other attempts and to jobs nobody owned.
LEMMA Others ==
  ASSUME IInv, TypeOK', NEW k \in Ids,
         pipe'[k] = pipe[k], entry'[k] = entry[k],
         crashes' + lost' >= crashes + lost, lastId' >= lastId,
         \A j \in Jobs : owner[j] = k => owner'[j] = k /\ applied'[j] = applied[j]
  PROVE  Attempt(k)'
<1>0. /\ pipe[k].pc \in PipePC /\ pipe[k].job \in 0..MaxJobs
      /\ entry[k].job \in 0..MaxJobs /\ entry[k].status \in Status
      /\ applied \in [Jobs -> Nat] /\ applied' \in [Jobs -> Nat]
      /\ crashes \in Nat /\ lost \in Nat /\ crashes' \in Nat /\ lost' \in Nat
  BY DEF IInv, TypeOK, Pipe, Entry
<1>1. Attempt(k)
  BY DEF IInv, Inductive
<1>2. Owned(k)'
  <2>1. ASSUME NEW j \in 0..MaxJobs, j # 0, owner[j] = k PROVE owner'[j] = k
    <3>1. j \in Jobs
      BY <2>1, LabAssumption DEF Jobs
    <3> QED
      BY <2>1, <3>1
  <2>2. /\ pipe[k].job # 0 => owner[pipe[k].job] = k
        /\ entry[k].job # 0 => owner[entry[k].job] = k
    BY <1>1 DEF Attempt, Owned
  <2>3. pipe[k].job # 0 => owner'[pipe[k].job] = k
    BY <1>0, <2>1, <2>2
  <2>4. entry[k].job # 0 => owner'[entry[k].job] = k
    BY <1>0, <2>1, <2>2
  <2> QED
    BY <2>3, <2>4 DEF Owned
<1>3. Shape(k)'
  <2>1. lastId \in Nat /\ lastId' \in Nat /\ k \in Nat
    BY LabAssumption DEF IInv, TypeOK, Ids
  <2> QED
    BY <1>1, <2>1 DEF Attempt, Shape
<1>4. Unspent(k)'
  <2>1. ASSUME NEW j \in Jobs, owner[j] = k, applied[j] <= crashes + lost
        PROVE  applied'[j] <= crashes' + lost'
    <3>1. applied'[j] = applied[j]
      BY <2>1
    <3>2. applied[j] \in Nat /\ crashes \in Nat /\ lost \in Nat /\ crashes' \in Nat /\ lost' \in Nat
      BY <1>0, <2>1
    <3>3. applied[j] <= crashes' + lost'
      BY <2>1, <3>2, Within
    <3> QED
      BY <3>1, <3>3
  <2>2. ASSUME pipe[k].pc \in BeforeApply
        PROVE  applied'[pipe[k].job] <= crashes' + lost'
    <3>1. pipe[k].job \in Jobs /\ owner[pipe[k].job] = k /\ applied[pipe[k].job] <= crashes + lost
      BY <1>0, <1>1, <2>2, LabAssumption DEF Attempt, Owned, Shape, Unspent, Jobs
    <3> QED
      BY <2>1, <3>1
  <2>3. ASSUME entry[k].status \in Active, pipe[k].pc = "idle", entry[k].job # 0
        PROVE  applied'[entry[k].job] <= crashes' + lost'
    <3>1. entry[k].job \in Jobs /\ owner[entry[k].job] = k /\ applied[entry[k].job] <= crashes + lost
      BY <1>0, <1>1, <2>3, LabAssumption DEF Attempt, Owned, Unspent, Jobs
    <3> QED
      BY <2>1, <3>1
  <2> QED
    BY <2>2, <2>3 DEF Unspent
<1> QED
  BY <1>2, <1>3, <1>4 DEF Attempt

\* More faults allow as many applications.
LEMMA MoreFaults ==
  ASSUME NEW a \in Nat, NEW c \in Nat, NEW l \in Nat, NEW d \in Nat, NEW m \in Nat,
         a <= 1 + c + l, d + m >= c + l
  PROVE  a <= 1 + d + m
  OBVIOUS

\* A step that applies no verdict and submits nothing has only to look at the attempts
\* it changes.
LEMMA Quiet ==
  ASSUME IInv, TypeOK', crashes' + lost' >= crashes + lost, lastId' >= lastId,
         UNCHANGED <<lastJob, owner, applied>>,
         \A k \in Ids : pipe'[k] # pipe[k] \/ entry'[k] # entry[k] => Attempt(k)'
  PROVE  Inductive'
<1>1. ASSUME NEW k \in Ids PROVE Attempt(k)'
  <2>1. CASE pipe'[k] = pipe[k] /\ entry'[k] = entry[k]
    BY <2>1, Others
  <2> QED
    BY <2>1
<1>2. Fresh'
  BY DEF IInv, Inductive, Fresh
<1>3. AppliedOnce'
  <2>1. ASSUME NEW j \in Jobs PROVE applied'[j] <= 1 + crashes' + lost'
    <3>1. /\ applied[j] <= 1 + crashes + lost /\ applied'[j] = applied[j]
          /\ applied[j] \in Nat /\ crashes \in Nat /\ lost \in Nat /\ crashes' \in Nat /\ lost' \in Nat
      <4>1. AppliedOnce /\ applied \in [Jobs -> Nat]
        BY DEF IInv, Inductive, TypeOK
      <4>2. crashes \in Nat /\ lost \in Nat /\ crashes' \in Nat /\ lost' \in Nat
        BY DEF IInv, TypeOK
      <4> QED
        BY <4>1, <4>2 DEF AppliedOnce
    <3> QED
      BY <3>1, MoreFaults
  <2> QED
    BY <2>1 DEF AppliedOnce
<1> QED
  BY <1>1, <1>2, <1>3 DEF Inductive

\* The position of a pipeline, and what a move does to it.
LEMMA GotoMoves ==
  ASSUME TypeOK, NEW i \in Ids, NEW p, Goto(i, p)
  PROVE  /\ pipe'[i].pc = p /\ pipe'[i].job = pipe[i].job
         /\ \A k \in Ids : k # i => pipe'[k] = pipe[k]
<1>1. pipe \in [Ids -> Pipe] /\ pipe[i] \in Pipe
  BY DEF TypeOK
<1>2. pipe'[i] = [pipe[i] EXCEPT !.pc = p]
  BY <1>1 DEF Goto
<1>3. pipe'[i].pc = p /\ pipe'[i].job = pipe[i].job
  BY <1>1, <1>2 DEF Pipe
<1> QED
  BY <1>1, <1>3 DEF Goto

\* The status of an entry, and what setting it changes.
LEMMA SetStatusMoves ==
  ASSUME TypeOK, NEW i \in Ids, NEW st, SetStatus(i, st)
  PROVE  /\ entry'[i].status = st /\ entry'[i].job = entry[i].job
         /\ \A k \in Ids : k # i => entry'[k] = entry[k]
<1>1. entry \in [Ids -> Entry] /\ entry[i] \in Entry
  BY DEF TypeOK
<1>2. entry'[i] = [entry[i] EXCEPT !.status = st]
  BY <1>1 DEF SetStatus
<1>3. entry'[i].status = st /\ entry'[i].job = entry[i].job
  BY <1>1, <1>2 DEF Entry
<1> QED
  BY <1>1, <1>3 DEF SetStatus

\* What a step of the pipeline of i sets it to.
LEMMA SetPipeMoves ==
  ASSUME TypeOK, NEW i \in Ids, NEW p, NEW j, pipe' = [pipe EXCEPT ![i] = [pc |-> p, job |-> j]]
  PROVE  /\ pipe'[i].pc = p /\ pipe'[i].job = j
         /\ \A k \in Ids : k # i => pipe'[k] = pipe[k]
  BY DEF TypeOK

\* The steps of a pipeline keep the inductive invariant.
LEMMA PipelineKeeps ==
  ASSUME IInv, TypeOK', NEW i \in Ids, Pipeline(i)
  PROVE  Inductive'
<1> USE DEF IInv
<1>0. /\ pipe[i].pc \in PipePC /\ pipe[i].job \in 0..MaxJobs /\ entry[i].job \in 0..MaxJobs
      /\ entry[i].status \in Status
      /\ crashes \in Nat /\ lost \in Nat /\ lastId \in Nat /\ i \in Nat /\ i > 0
  <2>1. /\ pipe[i].pc \in PipePC /\ pipe[i].job \in 0..MaxJobs /\ entry[i].job \in 0..MaxJobs
        /\ entry[i].status \in Status
    BY DEF TypeOK, Pipe, Entry
  <2>2. crashes \in Nat /\ lost \in Nat /\ lastId \in Nat /\ i \in Nat /\ i > 0
    BY LabAssumption DEF TypeOK, Ids
  <2> QED
    BY <2>1, <2>2
<1>00. Owned(i) /\ Shape(i) /\ Unspent(i)
  BY DEF Inductive, Attempt
<1>1. CASE Claim(i)
  <2> DEFINE p == IF entry[i].job = 0 THEN "submit" ELSE "poll"
  <2>1. /\ entry[i].status = "pending" /\ pipe[i].pc = "idle"
        /\ SetStatus(i, "processing")
        /\ pipe' = [pipe EXCEPT ![i] = [pc |-> p, job |-> entry[i].job]]
        /\ UNCHANGED <<crashes, lost, lastId, lastJob, owner, applied>>
    BY <1>1 DEF Claim, lab, faults, history
  <2>2. \/ p = "submit" /\ entry[i].job = 0
        \/ p = "poll" /\ entry[i].job # 0
    OBVIOUS
  <2> HIDE DEF p
  <2>3. /\ entry'[i].status = "processing" /\ entry'[i].job = entry[i].job
        /\ \A k \in Ids : k # i => entry'[k] = entry[k]
    BY <2>1, SetStatusMoves
  <2>4. /\ pipe'[i].pc = p /\ pipe'[i].job = entry[i].job
        /\ \A k \in Ids : k # i => pipe'[k] = pipe[k]
    BY <2>1, SetPipeMoves
  <2>5. Owned(i)'
    BY <1>00, <2>1, <2>3, <2>4 DEF Owned
  <2>6. Shape(i)'
    BY <1>00, <2>1, <2>2, <2>3, <2>4 DEF Shape, BeforeApply
  <2>7. Unspent(i)'
    BY <1>00, <2>1, <2>2, <2>3, <2>4 DEF Unspent, BeforeApply, Active
  <2>8. \A k \in Ids : pipe'[k] # pipe[k] \/ entry'[k] # entry[k] => Attempt(k)'
    BY <2>3, <2>4, <2>5, <2>6, <2>7 DEF Attempt
  <2>9. crashes' + lost' >= crashes + lost /\ lastId' >= lastId
    BY <1>0, <2>1
  <2> QED
    BY <2>1, <2>8, <2>9, Quiet
<1>2. CASE Submit(i)
  <2> DEFINE n == lastJob + 1
  <2>1. /\ pipe[i].pc = "submit" /\ lastJob < MaxJobs /\ lastJob' = n
        /\ owner' = [owner EXCEPT ![n] = i]
        /\ pipe' = [pipe EXCEPT ![i] = [pc |-> "store", job |-> n]]
        /\ UNCHANGED <<crashes, lost, entry, lastId, applied>>
    BY <1>2 DEF Submit, queue, faults
  <2>2. n \in Jobs /\ n # 0 /\ lastJob \in Nat /\ MaxJobs \in Nat
    BY <2>1, LabAssumption DEF TypeOK, Jobs
  <2>3. owner[n] = 0 /\ applied[n] = 0
    BY <2>2 DEF Inductive, Fresh
  <2>4. owner'[n] = i /\ \A j \in Jobs : j # n => owner'[j] = owner[j]
    BY <2>1, <2>2 DEF TypeOK
  <2>5. lastJob' = n
    BY <2>1
  <2>6. /\ pipe'[i].pc = "store" /\ pipe'[i].job = n
        /\ \A k \in Ids : k # i => pipe'[k] = pipe[k]
    BY <2>1, SetPipeMoves
  <2>7. n > lastJob /\ \A j \in Jobs : j > n => j > lastJob /\ j # n
    BY <2>2 DEF Jobs
  <2> HIDE DEF n
  <2>8. ASSUME NEW k \in Ids PROVE Attempt(k)'
    <3>1. CASE k = i
      <4>1. Owned(i)'
        BY <1>00, <2>1, <2>4, <2>6 DEF Owned, Shape
      <4>2. Shape(i)'
        BY <1>00, <2>1, <2>2, <2>6 DEF Shape, BeforeApply
      <4>3. Unspent(i)'
        BY <1>0, <1>00, <2>1, <2>3, <2>6 DEF Unspent, BeforeApply
      <4> QED
        BY <3>1, <4>1, <4>2, <4>3 DEF Attempt
    <3>2. CASE k # i
      <4>1. \A j \in Jobs : owner[j] = k => owner'[j] = k /\ applied'[j] = applied[j]
        <5>1. k # 0
          BY LabAssumption DEF Ids
        <5> QED
          BY <2>1, <2>3, <2>4, <5>1
      <4>2. crashes' + lost' >= crashes + lost /\ lastId' >= lastId
        BY <1>0, <2>1
      <4>3. pipe'[k] = pipe[k] /\ entry'[k] = entry[k]
        BY <2>1, <2>6, <3>2
      <4> QED
        BY <4>1, <4>2, <4>3, Others
    <3> QED
      BY <3>1, <3>2
  <2>9. Fresh'
    BY <2>1, <2>4, <2>5, <2>7 DEF Inductive, Fresh
  <2>10. AppliedOnce'
    BY <2>1 DEF Inductive, AppliedOnce
  <2> QED
    BY <2>8, <2>9, <2>10 DEF Inductive
<1>3. CASE NotSubmitted(i)
  <2>1. PICK p \in {"done", "failed"} : Goto(i, p)
    BY <1>3 DEF NotSubmitted
  <2>2. /\ pipe[i].pc = "submit"
        /\ UNCHANGED <<crashes, lost, entry, lastId, lastJob, owner, applied>>
    BY <1>3 DEF NotSubmitted, queue, lab, faults, history
  <2>3. /\ pipe'[i].pc = p /\ pipe'[i].job = pipe[i].job
        /\ \A k \in Ids : k # i => pipe'[k] = pipe[k]
    BY <2>1, GotoMoves
  <2>4. Owned(i)' /\ Shape(i)' /\ Unspent(i)'
    BY <1>00, <2>2, <2>3 DEF Owned, Shape, Unspent, BeforeApply
  <2> QED
    BY <1>0, <2>2, <2>3, <2>4, Quiet DEF Attempt
<1>4. CASE Store(i)
  <2>1. /\ pipe[i].pc = "store" /\ Goto(i, "poll") /\ entry' = [entry EXCEPT ![i].job = pipe[i].job]
        /\ UNCHANGED <<crashes, lost, lastId, lastJob, owner, applied>>
    BY <1>4 DEF Store, lab, faults, history
  <2>2. /\ pipe'[i].pc = "poll" /\ pipe'[i].job = pipe[i].job
        /\ \A k \in Ids : k # i => pipe'[k] = pipe[k]
    BY <2>1, GotoMoves
  <2>3. /\ entry'[i].job = pipe[i].job /\ entry'[i].status = entry[i].status
        /\ \A k \in Ids : k # i => entry'[k] = entry[k]
    BY <2>1 DEF TypeOK, Entry
  <2>4. Owned(i)'
    BY <1>00, <2>1, <2>2, <2>3 DEF Owned
  <2>5. Shape(i)'
    BY <1>00, <2>1, <2>2, <2>3 DEF Shape, BeforeApply
  <2>6. Unspent(i)'
    BY <1>00, <2>1, <2>2, <2>3 DEF Unspent, BeforeApply
  <2> QED
    BY <1>0, <2>1, <2>2, <2>3, <2>4, <2>5, <2>6, Quiet DEF Attempt
<1>5. CASE StoreLost(i)
  <2>1. /\ pipe[i].pc = "store" /\ Goto(i, "poll") /\ lost' = lost + 1
        /\ UNCHANGED <<crashes, entry, lastId, lastJob, owner, applied>>
    BY <1>5 DEF StoreLost, queue, lab
  <2>2. /\ pipe'[i].pc = "poll" /\ pipe'[i].job = pipe[i].job
        /\ \A k \in Ids : k # i => pipe'[k] = pipe[k]
    BY <2>1, GotoMoves
  <2>3. Owned(i)' /\ Shape(i)'
    BY <1>00, <2>1, <2>2 DEF Owned, Shape, BeforeApply
  <2>4. Unspent(i)'
    <3>1. applied'[pipe'[i].job] <= crashes' + lost'
      <4>1. pipe[i].job \in Jobs
        BY <1>0, <1>00, <2>1, LabAssumption DEF Shape, BeforeApply, Jobs
      <4>2. applied[pipe[i].job] \in Nat /\ applied[pipe[i].job] <= crashes + lost
        BY <1>00, <2>1, <4>1 DEF TypeOK, Unspent, BeforeApply
      <4> QED
        BY <1>0, <2>1, <2>2, <4>2
    <3> QED
      BY <2>2, <3>1 DEF Unspent
  <2>5. crashes' + lost' >= crashes + lost
    BY <1>0, <2>1
  <2> QED
    BY <1>0, <2>1, <2>2, <2>3, <2>4, <2>5, Quiet DEF Attempt
<1>6. CASE Polled(i)
  <2>1. PICK p \in {"record", "recordError", "recordSkip", "failed"} : Goto(i, p)
    BY <1>6, PolledMoves
  <2>2. /\ pipe[i].pc = "poll"
        /\ UNCHANGED <<crashes, lost, entry, lastId, lastJob, owner, applied>>
    BY <1>6 DEF Polled, PollResult, PollFails, queue, lab, faults, history
  <2>3. /\ pipe'[i].pc = p /\ pipe'[i].job = pipe[i].job
        /\ \A k \in Ids : k # i => pipe'[k] = pipe[k]
    BY <2>1, GotoMoves
  <2>4. Owned(i)' /\ Shape(i)' /\ Unspent(i)'
    BY <1>00, <2>2, <2>3 DEF Owned, Shape, Unspent, BeforeApply
  <2> QED
    BY <1>0, <2>2, <2>3, <2>4, Quiet DEF Attempt
<1>7. CASE Record(i)
  <2>1. /\ pipe[i].pc \in {"record", "recordError", "recordSkip"}
        /\ UNCHANGED <<crashes, lost, entry, lastId, lastJob, owner, applied>>
    BY <1>7 DEF Record, queue, lab, faults, history
  <2>2. PICK p \in {"apply", "done", "failed"} :
          Goto(i, p) /\ (p = "apply" => pipe[i].pc = "record")
    BY <1>7, RecordMoves
  <2>3. /\ pipe'[i].pc = p /\ pipe'[i].job = pipe[i].job
        /\ \A k \in Ids : k # i => pipe'[k] = pipe[k]
    BY <2>2, GotoMoves
  <2>4. Owned(i)' /\ Shape(i)' /\ Unspent(i)'
    BY <1>00, <2>1, <2>2, <2>3 DEF Owned, Shape, Unspent, BeforeApply
  <2> QED
    BY <1>0, <2>1, <2>3, <2>4, Quiet DEF Attempt
<1>8. CASE Apply(i)
  <2> DEFINE m == pipe[i].job
  <2>1. /\ pipe[i].pc = "apply" /\ Goto(i, "done")
        /\ applied' = [applied EXCEPT ![m] = @ + 1] \/ applied' = applied
        /\ UNCHANGED <<crashes, lost, entry, lastId, lastJob, owner>>
    BY <1>8 DEF Apply, queue, lab, faults
  <2>2. /\ pipe'[i].pc = "done" /\ pipe'[i].job = pipe[i].job
        /\ \A k \in Ids : k # i => pipe'[k] = pipe[k]
    BY <2>1, GotoMoves
  <2>3. m \in Jobs /\ owner[m] = i /\ applied[m] <= crashes + lost
    BY <1>0, <1>00, <2>1, LabAssumption DEF Owned, Shape, Unspent, BeforeApply, Jobs
  <2> HIDE DEF m
  <2>4. /\ \A j \in Jobs : j # m => applied'[j] = applied[j]
        /\ applied'[m] \in {applied[m], applied[m] + 1}
    BY <2>1, <2>3 DEF TypeOK
  <2>5. ASSUME NEW k \in Ids PROVE Attempt(k)'
    <3>1. CASE k = i
      <4>1. Owned(i)' /\ Shape(i)'
        BY <1>00, <2>1, <2>2 DEF Owned, Shape, BeforeApply
      <4>2. Unspent(i)'
        BY <2>2 DEF Unspent, BeforeApply
      <4> QED
        BY <3>1, <4>1, <4>2 DEF Attempt
    <3>2. CASE k # i
      <4>1. \A j \in Jobs : owner[j] = k => owner'[j] = k /\ applied'[j] = applied[j]
        BY <2>1, <2>3, <2>4, <3>2
      <4> QED
        BY <1>0, <2>1, <2>2, <3>2, <4>1, Others
    <3> QED
      BY <3>1, <3>2
  <2>6. Fresh'
    <3>1. \A j \in Jobs : j > lastJob => j # m
      <4>1. i # 0
        BY <1>0
      <4> QED
        BY <2>3, <4>1 DEF Inductive, Fresh
    <3> QED
      BY <2>1, <2>4, <3>1 DEF Inductive, Fresh
  <2>7. AppliedOnce'
    <3>1. ASSUME NEW j \in Jobs PROVE applied'[j] <= 1 + crashes' + lost'
      <4>1. CASE j = m
        <5>1. applied[m] \in Nat
          BY <2>3 DEF TypeOK
        <5> QED
          BY <1>0, <2>1, <2>3, <2>4, <4>1, <5>1
      <4>2. CASE j # m
        BY <2>1, <2>4, <4>2 DEF Inductive, AppliedOnce
      <4> QED
        BY <4>1, <4>2
    <3> QED
      BY <3>1 DEF AppliedOnce
  <2> QED
    BY <2>5, <2>6, <2>7 DEF Inductive
<1>9. CASE Complete(i)
  <2>1. PICK st \in {"completed", "failed"} : SetStatus(i, st)
    BY <1>9 DEF Complete
  <2>2. /\ pipe[i].pc \in {"done", "failed"}
        /\ UNCHANGED <<crashes, lost, lastId, lastJob, owner, applied>>
    BY <1>9 DEF Complete, lab, faults, history
  <2>3. /\ entry'[i].status = st /\ entry'[i].job = entry[i].job
        /\ \A k \in Ids : k # i => entry'[k] = entry[k]
    BY <2>1, SetStatusMoves
  <2>4. /\ \A k \in Ids : k # i => pipe'[k] = pipe[k]
        /\ \/ pipe'[i].pc = "idle" /\ pipe'[i].job = 0
           \/ pipe'[i].pc = "retry" /\ pipe'[i].job = pipe[i].job
    <3>1. CASE pipe[i].pc = "done"
      <4>1. pipe' = [pipe EXCEPT ![i] = [pc |-> "idle", job |-> 0]]
        BY <1>9, <3>1 DEF Complete, IdlePipe
      <4> QED
        BY <4>1, SetPipeMoves
    <3>2. CASE pipe[i].pc # "done"
      <4>1. pipe' = [pipe EXCEPT ![i] = [pipe[i] EXCEPT !.pc = "retry"]]
        BY <1>9, <3>2 DEF Complete
      <4> QED
        BY <4>1 DEF TypeOK, Pipe
    <3> QED
      BY <3>1, <3>2
  <2>5. Owned(i)'
    BY <1>00, <2>2, <2>3, <2>4 DEF Owned
  <2>6. Shape(i)'
    BY <1>00, <2>2, <2>3, <2>4 DEF Shape, BeforeApply, Active
  <2>7. Unspent(i)'
    BY <2>3, <2>4 DEF Unspent, BeforeApply, Active
  <2> QED
    BY <1>0, <2>2, <2>3, <2>4, <2>5, <2>6, <2>7, Quiet DEF Attempt
<1>10. CASE CompleteLost(i)
  <2>1. /\ pipe' = [pipe EXCEPT ![i] = [pc |-> "idle", job |-> 0]]
        /\ pipe[i].pc \in {"done", "failed"} /\ lost' = lost + 1
        /\ UNCHANGED <<crashes, entry, lastId, lastJob, owner, applied>>
    BY <1>10 DEF CompleteLost, IdlePipe, queue, lab, history
  <2>2. /\ pipe'[i].pc = "idle" /\ pipe'[i].job = 0
        /\ \A k \in Ids : k # i => pipe'[k] = pipe[k]
    BY <2>1, SetPipeMoves
  <2>3. Owned(i)' /\ Shape(i)'
    BY <1>00, <2>1, <2>2 DEF Owned, Shape, BeforeApply
  <2>4. Unspent(i)'
    <3>1. ASSUME entry[i].job # 0 PROVE applied'[entry[i].job] <= crashes' + lost'
      <4>1. entry[i].job \in Jobs
        BY <1>0, <3>1, LabAssumption DEF Jobs
      <4>2. applied[entry[i].job] \in Nat /\ applied[entry[i].job] <= 1 + crashes + lost
        BY <4>1 DEF TypeOK, Inductive, AppliedOnce
      <4> QED
        BY <1>0, <2>1, <4>2
    <3> QED
      BY <2>1, <2>2, <3>1 DEF Unspent, BeforeApply
  <2>5. crashes' + lost' >= crashes + lost
    BY <1>0, <2>1
  <2> QED
    BY <1>0, <2>1, <2>2, <2>3, <2>4, <2>5, Quiet DEF Attempt
<1>12. CASE EndingThrows(i)
  <2>1. /\ pipe[i].pc = "done" /\ Goto(i, "failed") /\ lost' = lost + 1
        /\ UNCHANGED <<crashes, entry, lastId, lastJob, owner, applied>>
    BY <1>12 DEF EndingThrows, queue, lab, history
  <2>2. /\ pipe'[i].pc = "failed" /\ pipe'[i].job = pipe[i].job
        /\ \A k \in Ids : k # i => pipe'[k] = pipe[k]
    BY <2>1, GotoMoves
  <2>3. Owned(i)' /\ Shape(i)' /\ Unspent(i)'
    BY <1>00, <2>1, <2>2 DEF Owned, Shape, Unspent, BeforeApply
  <2>4. crashes' + lost' >= crashes + lost
    BY <1>0, <2>1
  <2> QED
    BY <1>0, <2>1, <2>2, <2>3, <2>4, Quiet DEF Attempt
<1>11. CASE Requeue(i)
  <2>1. /\ pipe' = [pipe EXCEPT ![i] = [pc |-> "idle", job |-> 0]]
        /\ pipe[i].pc = "retry"
        /\ UNCHANGED <<crashes, lost, lastJob, owner, applied>>
    BY <1>11 DEF Requeue, IdlePipe, lab, faults, history
  <2>2. /\ pipe'[i].pc = "idle" /\ pipe'[i].job = 0
        /\ \A k \in Ids : k # i => pipe'[k] = pipe[k]
    BY <2>1, SetPipeMoves
  <2>3. i <= lastId /\ entry[i].status \notin Active
    BY <1>00, <2>1 DEF Shape
  <2>4. CASE AttemptLeft
    <3>0. PICK n \in Ids : n = lastId + 1
      BY <2>4, LabAssumption DEF AttemptLeft, TypeOK, Ids
    <3>1. lastId' = n /\ SetStatus(n, "pending")
      BY <1>11, <2>4, <3>0 DEF Requeue
    <3>2. n > lastId /\ n # i /\ lastId' >= lastId
      BY <1>0, <2>3, <3>0, <3>1
    <3>3. /\ entry'[n].status = "pending" /\ entry'[n].job = entry[n].job
          /\ \A k \in Ids : k # n => entry'[k] = entry[k]
      BY <3>1, SetStatusMoves
    <3>4. Owned(n) /\ Shape(n) /\ n \in Nat
      BY <3>1 DEF Inductive, Attempt, Ids
    <3>5. entry[n].status = "absent" /\ entry[n].job = 0 /\ pipe[n].pc = "idle"
      BY <1>0, <3>2, <3>4 DEF Shape
    <3>6. pipe'[n] = pipe[n]
      BY <2>2, <3>1, <3>2
    <3>7. Attempt(n)'
      <4>1. Owned(n)'
        BY <2>1, <3>3, <3>4, <3>5, <3>6 DEF Owned
      <4>2. Shape(n)'
        BY <3>1, <3>3, <3>4, <3>5, <3>6 DEF Shape, BeforeApply
      <4>3. Unspent(n)'
        BY <3>3, <3>5, <3>6 DEF Unspent, BeforeApply
      <4> QED
        BY <4>1, <4>2, <4>3 DEF Attempt
    <3>8. Attempt(i)'
      <4>1. Owned(i)'
        BY <1>00, <2>1, <2>2, <3>2, <3>3 DEF Owned
      <4>2. Shape(i)'
        <5>1. i <= lastId' /\ entry'[i] = entry[i]
          BY <1>0, <2>3, <3>0, <3>1, <3>2, <3>3
        <5> QED
          BY <1>00, <2>2, <2>3, <5>1 DEF Shape, BeforeApply
      <4>3. Unspent(i)'
        BY <2>2, <2>3, <3>2, <3>3 DEF Unspent, BeforeApply
      <4> QED
        BY <4>1, <4>2, <4>3 DEF Attempt
    <3>9. \A k \in Ids : pipe'[k] # pipe[k] \/ entry'[k] # entry[k] => Attempt(k)'
      BY <2>2, <3>3, <3>7, <3>8
    <3> QED
      BY <1>0, <2>1, <3>2, <3>9, Quiet
  <2>5. CASE ~AttemptLeft
    <3>1. UNCHANGED <<entry, lastId>>
      BY <1>11, <2>5 DEF Requeue, queue
    <3>2. Owned(i)' /\ Shape(i)'
      BY <1>00, <2>1, <2>2, <3>1 DEF Owned, Shape, BeforeApply
    <3>3. Unspent(i)'
      BY <2>2, <2>3, <3>1 DEF Unspent, BeforeApply
    <3> QED
      BY <1>0, <2>1, <2>2, <3>1, <3>2, <3>3, Quiet DEF Attempt
  <2> QED
    BY <2>4, <2>5
<1> QED
  BY <1>1, <1>2, <1>3, <1>4, <1>5, <1>6, <1>7, <1>8, <1>9, <1>10, <1>11, <1>12
     DEF Pipeline, Ending

\* A crash allows every verdict one more application, as it must: the pipelines are
\* gone, and the entries that know a job are about to be resumed.
LEMMA CrashKeeps ==
  ASSUME IInv, TypeOK', CrashRestart
  PROVE  Inductive'
<1> USE DEF IInv
<1>1. /\ crashes' = crashes + 1
      /\ UNCHANGED <<lost, lastId, lastJob, owner, applied>>
      /\ crashes \in Nat /\ lost \in Nat /\ applied \in [Jobs -> Nat] /\ lastId \in Nat
  BY LabAssumption DEF CrashRestart, TypeOK, lab, Ids
<1>2. ASSUME NEW k \in Ids PROVE Attempt(k)'
  <2>1. pipe'[k].pc = "idle" /\ pipe'[k].job = 0
    BY DEF CrashRestart, IdlePipe
  <2>2. entry'[k] = RecoverStuck(k)
    BY DEF CrashRestart
  <2>3. /\ entry'[k].job = entry[k].job
        /\ \/ entry'[k].status = entry[k].status
           \/ entry[k].status = "processing" /\ entry'[k].status = "pending"
    <3>1. CASE entry[k].status = "processing"
      <4>1. entry'[k] = [entry[k] EXCEPT !.status = "pending"]
        BY <2>2, <3>1 DEF RecoverStuck
      <4> QED
        BY <3>1, <4>1 DEF TypeOK, Entry
    <3>2. CASE entry[k].status # "processing"
      BY <2>2, <3>2 DEF RecoverStuck
    <3> QED
      BY <3>1, <3>2
  <2>4. Owned(k) /\ Shape(k)
    BY DEF Inductive, Attempt
  <2>5. Owned(k)'
    BY <1>1, <2>1, <2>3, <2>4 DEF Owned
  <2>6. Shape(k)'
    BY <1>1, <2>1, <2>3, <2>4 DEF Shape, BeforeApply
  <2>7. Unspent(k)'
    <3>1. ASSUME entry[k].job # 0 PROVE applied[entry[k].job] <= crashes' + lost'
      <4>1. entry[k].job \in Jobs
        BY <3>1, StoredJob
      <4>2. applied[entry[k].job] \in Nat /\ applied[entry[k].job] <= 1 + crashes + lost
        BY <1>1, <4>1 DEF Inductive, AppliedOnce
      <4> QED
        BY <1>1, <4>2
    <3> QED
      BY <1>1, <2>1, <2>3, <3>1 DEF Unspent, BeforeApply
  <2> QED
    BY <2>5, <2>6, <2>7 DEF Attempt
<1>3. crashes' + lost' >= crashes + lost /\ lastId' >= lastId
  BY <1>1
<1> QED
  BY <1>1, <1>2, <1>3, Quiet

\* Every step keeps the inductive invariant.
LEMMA StepIInv ==
  ASSUME IInv, [Next]_vars
  PROVE  IInv'
<1> USE DEF IInv
<1>0. TypeOK'
  BY TypeStep
<1>1. /\ crashes \in Nat /\ lost \in Nat /\ lastId \in Nat
  BY LabAssumption DEF TypeOK, Ids
<1>2. ASSUME NEW i \in Ids, Pipeline(i) PROVE Inductive'
  BY <1>0, <1>2, PipelineKeeps
<1>3. ASSUME NEW i \in Ids, Orphan(i) PROVE Inductive'
  <2>1. PICK st \in {"pending", "cancelled"} : SetStatus(i, st)
    BY <1>3 DEF Orphan
  <2>2. /\ entry[i].status = "processing" /\ pipe[i].pc = "idle"
        /\ UNCHANGED <<pipe, crashes, lost, lastId, lastJob, owner, applied>>
    BY <1>3 DEF Orphan, lab, faults, history
  <2>3. /\ entry'[i].status = st /\ entry'[i].job = entry[i].job
        /\ \A k \in Ids : k # i => entry'[k] = entry[k]
    BY <2>1, SetStatusMoves
  <2>4. Owned(i) /\ Shape(i) /\ Unspent(i)
    BY DEF Inductive, Attempt
  <2>5. Owned(i)' /\ Shape(i)'
    BY <2>2, <2>3, <2>4 DEF Owned, Shape, BeforeApply
  <2>6. Unspent(i)'
    BY <2>2, <2>3, <2>4 DEF Unspent, BeforeApply, Active
  <2> QED
    BY <1>0, <1>1, <2>2, <2>3, <2>5, <2>6, Quiet DEF Attempt
<1>4. CASE PeekClear
  <2>1. /\ entry' = [entry EXCEPT ![tick.id].job = 0]
        /\ UNCHANGED <<pipe, crashes, lost, lastId, lastJob, owner, applied>>
    BY <1>4 DEF PeekClear, lab, faults, history
  <2>2. ASSUME NEW k \in Ids, entry'[k] # entry[k] PROVE Attempt(k)'
    <3>1. entry'[k].job = 0 /\ entry'[k].status = entry[k].status
      BY <2>1, <2>2 DEF TypeOK, Entry
    <3>2. Owned(k) /\ Shape(k) /\ Unspent(k)
      BY DEF Inductive, Attempt
    <3>3. Owned(k)' /\ Shape(k)'
      BY <2>1, <3>1, <3>2 DEF Owned, Shape
    <3>4. Unspent(k)'
      BY <2>1, <3>1, <3>2 DEF Unspent
    <3> QED
      BY <3>3, <3>4 DEF Attempt
  <2> QED
    BY <1>0, <1>1, <2>1, <2>2, Quiet
<1>5. CASE (\E i \in Ids : PeekStart(i)) \/ CancelJob \/ Peek \/ PeekUnreachable
  <2>1. UNCHANGED <<entry, pipe, crashes, lost, lastId, lastJob, owner, applied>>
    BY <1>5 DEF PeekStart, CancelJob, Peek, PeekUnreachable, queue, lab, faults, history
  <2> QED
    BY <1>0, <1>1, <2>1, Quiet
<1>6. CASE Scans \/ Lab
  <2>1. UNCHANGED <<entry, pipe, crashes, lost, lastId, lastJob, owner, applied>>
    BY <1>6 DEF Scans, ScanCheck, ScanRecord, ScanSkips, ScanFails, Lab, LabFinishes, LabDeletes,
       Miss, LabFlips,
       queue, lab, faults, history
  <2> QED
    BY <1>0, <1>1, <2>1, Quiet
<1>7. CASE CrashRestart
  BY <1>0, <1>7, CrashKeeps
<1>8. CASE UNCHANGED vars
  <2>1. UNCHANGED <<entry, pipe, crashes, lost, lastId, lastJob, owner, applied>>
    BY <1>8 DEF vars, queue, lab, faults, history
  <2> QED
    BY <1>0, <1>1, <2>1, Quiet
<1>9. Inductive'
  BY <1>2, <1>3, <1>4, <1>5, <1>6, <1>7, <1>8 DEF Next, Tick
<1> QED
  BY <1>0, <1>9
-----------------------------------------------------------------------------
(* Job ids *)

\* A set that loses elements, and one that is looked at but for another element.
LEMMA Fewer ==
  ASSUME NEW S, IsFiniteSet(S), NEW T \in SUBSET S
  PROVE  IsFiniteSet(T) /\ Cardinality(T) \in Nat /\ Cardinality(S) \in Nat
         /\ Cardinality(T) <= Cardinality(S)
  BY FS_Subset, FS_CardinalityType

LEMMA OneMore ==
  ASSUME NEW S, IsFiniteSet(S), NEW x
  PROVE  Cardinality(S) <= Cardinality(S \ {x}) + 1
<1>1. IsFiniteSet(S \ {x}) /\ Cardinality(S \ {x}) \in Nat /\ Cardinality(S) \in Nat
  BY FS_RemoveElement, FS_CardinalityType
<1>2. CASE x \in S
  BY <1>1, <1>2, FS_RemoveElement
<1>3. CASE x \notin S
  <2>1. S \ {x} = S
    BY <1>3
  <2> QED
    BY <1>1, <2>1
<1> QED
  BY <1>2, <1>3

\* There are finitely many jobs.
LEMMA LiveFinite ==
  ASSUME NEW k
  PROVE  IsFiniteSet(Live(k)) /\ IsFiniteSet(Live(k)')
<1>1. IsFiniteSet(Jobs)
  BY FS_Interval, LabAssumption DEF Jobs
<1>2. Live(k) \in SUBSET Jobs /\ Live(k)' \in SUBSET Jobs
  BY DEF Live
<1> QED
  BY <1>1, <1>2, FS_Subset

\* An attempt that has no stray job it had not before.
LEMMA NoNewStray ==
  ASSUME TypeOK, TypeOK', NEW k \in Ids, Strays(k), unstored' >= unstored,
         Live(k)' \ {Kept(k)'} \subseteq Live(k) \ {Kept(k)}
  PROVE  Strays(k)'
<1> DEFINE S == Live(k) \ {Kept(k)}
           T == Live(k)' \ {Kept(k)'}
<1>1. IsFiniteSet(S)
  BY LiveFinite, FS_RemoveElement
<1>2. T \in SUBSET S
  OBVIOUS
<1>3. Cardinality(S) <= unstored /\ unstored \in Nat /\ unstored' \in Nat
  BY DEF Strays, TypeOK
<1>4. Strays(k)' <=> Cardinality(T) <= unstored'
  BY DEF Strays
<1> HIDE DEF S, T
<1>5. Cardinality(T) \in Nat /\ Cardinality(S) \in Nat /\ Cardinality(T) <= Cardinality(S)
  BY <1>1, <1>2, Fewer
<1> QED
  BY <1>3, <1>4, <1>5

\* An attempt whose kept job becomes a stray one.
LEMMA OneStrayMore ==
  ASSUME TypeOK, TypeOK', NEW k \in Ids, Strays(k), unstored' >= unstored + 1,
         Live(k)' \subseteq Live(k)
  PROVE  Strays(k)'
<1> DEFINE S == Live(k)
           T == Live(k)' \ {Kept(k)'}
           x == Kept(k)
<1>1. IsFiniteSet(S)
  BY LiveFinite
<1>2. T \in SUBSET S
  OBVIOUS
<1>3. Cardinality(S \ {x}) <= unstored /\ unstored \in Nat /\ unstored' \in Nat
  BY DEF Strays, TypeOK
<1>4. Strays(k)' <=> Cardinality(T) <= unstored'
  BY DEF Strays
<1> HIDE DEF S, T, x
<1>5. Cardinality(T) \in Nat /\ Cardinality(S) \in Nat /\ Cardinality(T) <= Cardinality(S)
  BY <1>1, <1>2, Fewer
<1>6. Cardinality(S) <= Cardinality(S \ {x}) + 1 /\ Cardinality(S \ {x}) \in Nat
  BY <1>1, OneMore, FS_RemoveElement, FS_CardinalityType
<1> QED
  BY <1>3, <1>4, <1>5, <1>6

\* What was asked about stays dead, whatever happens to other jobs.
LEMMA StillDead ==
  ASSUME IInv, Asking, tick' = tick, \A k \in Ids : entry'[k].job = entry[k].job,
         \A j \in Jobs : job[j] \in Dead /\ owner[j] \in Ids => job'[j] \in Dead
  PROVE  Asking'
<1>1. CASE tick.pc \notin {"peek", "clear"}
  BY <1>1 DEF Asking
<1>2. CASE tick.pc \in {"peek", "clear"}
  <2>1. PICK i \in Ids : i = tick.id
    BY <1>2 DEF Asking
  <2>2. entry[i].job # 0
    BY <1>2, <2>1 DEF Asking
  <2>3. PICK j \in Jobs : j = entry[i].job
    BY <2>2, StoredJob DEF IInv
  <2>4. owner[j] = i
    BY <2>2, <2>3 DEF IInv, Inductive, Attempt, Owned
  <2>5. entry'[i].job = j /\ j # 0
    BY <2>2, <2>3
  <2>6. tick.pc = "clear" => job'[j] \in Dead
    BY <2>1, <2>3, <2>4 DEF Asking
  <2> QED
    BY <2>1, <2>5, <2>6 DEF Asking
<1> QED
  BY <1>1, <1>2

\* A step that submits no job and stores no id.
LEMMA IdsStay ==
  ASSUME IInv, Keeping, TypeOK', UNCHANGED <<owner, unstored>>,
         \A k \in Ids : /\ entry'[k].job = entry[k].job
                        /\ pipe'[k] = pipe[k] \/ (pipe[k].pc # "store" /\ pipe'[k].pc # "store"),
         \A j \in Jobs : job'[j] \in Result \cup {"running"} => job[j] \in Result \cup {"running"},
         Asking'
  PROVE  Keeping'
<1>1. ASSUME NEW k \in Ids PROVE Strays(k)' /\ Storing(k)'
  <2>1. Strays(k) /\ Storing(k)
    BY DEF Keeping
  <2>2. Kept(k)' = Kept(k)
    BY DEF Kept
  <2>3. Live(k)' \subseteq Live(k)
    BY DEF Live
  <2>4. unstored' >= unstored
    BY DEF IInv, TypeOK
  <2>5. Strays(k)'
    BY <2>1, <2>2, <2>3, <2>4, NoNewStray DEF IInv
  <2> QED
    BY <2>1, <2>5 DEF Storing
<1> QED
  BY <1>1 DEF Keeping

\* The steps of a pipeline keep the ids: a job is submitted only when the entry has none,
\* and is the one its entry is to name.
LEMMA PipelineKeepsIds ==
  ASSUME IInv, Keeping, TypeOK', NEW i \in Ids, Pipeline(i)
  PROVE  Keeping'
<1>0. /\ Owned(i) /\ Shape(i) /\ Strays(i) /\ Storing(i)
      /\ TypeOK /\ Asking
  BY DEF IInv, Inductive, Attempt, Keeping
<1>1. CASE Submit(i)
  <2> DEFINE n == lastJob + 1
  <2>1. /\ pipe[i].pc = "submit" /\ lastJob < MaxJobs
        /\ owner' = [owner EXCEPT ![n] = i] /\ job' = [job EXCEPT ![n] = "running"]
        /\ pipe' = [pipe EXCEPT ![i] = [pc |-> "store", job |-> n]]
        /\ UNCHANGED <<entry, tick, unstored>>
    BY <1>1 DEF Submit, queue
  <2>2. n \in Jobs /\ n # 0 /\ n > lastJob
    <3>1. lastJob \in Nat /\ lastJob < MaxJobs /\ MaxJobs \in Nat
      BY <1>0, <2>1, LabAssumption DEF TypeOK
    <3> QED
      BY <3>1 DEF Jobs
  <2> HIDE DEF n
  <2>3. owner[n] = 0
    BY <2>2 DEF IInv, Inductive, Fresh
  <2>4. /\ owner'[n] = i /\ \A j \in Jobs : j # n => owner'[j] = owner[j] /\ job'[j] = job[j]
    BY <1>0, <2>1, <2>2 DEF TypeOK
  <2>5. /\ pipe'[i].pc = "store" /\ pipe'[i].job = n
        /\ \A k \in Ids : k # i => pipe'[k] = pipe[k]
    BY <1>0, <2>1, SetPipeMoves
  <2>6. 0 \notin Ids
    BY LabAssumption DEF Ids
  <2>7. Asking'
    BY <1>0, <2>1, <2>3, <2>4, <2>6, StillDead
  <2>8. ASSUME NEW k \in Ids PROVE Strays(k)' /\ Storing(k)'
    <3>1. Strays(k) /\ Storing(k) /\ unstored' >= unstored
      BY <1>0, <2>1 DEF Keeping, TypeOK
    <3>2. CASE k = i
      <4>1. entry[i].job = 0 /\ Kept(i) = 0 /\ Kept(i)' = n
        BY <1>0, <2>1, <2>5 DEF Shape, Kept
      <4>2. Live(i)' \ {n} \subseteq Live(i) /\ 0 \notin Live(i)
        BY <2>4, LabAssumption DEF Live, Jobs
      <4>3. Strays(i)'
        BY <1>0, <3>1, <3>2, <4>1, <4>2, NoNewStray
      <4> QED
        BY <2>1, <3>2, <4>1, <4>3 DEF Storing
    <3>3. CASE k # i
      <4>1. Live(k)' = Live(k)
        BY <2>2, <2>3, <2>4, <2>6, <3>3 DEF Live
      <4>2. Kept(k)' = Kept(k) /\ Storing(k)'
        BY <2>1, <2>5, <3>1, <3>3 DEF Kept, Storing
      <4> QED
        BY <1>0, <3>1, <4>1, <4>2, NoNewStray
    <3> QED
      BY <3>2, <3>3
  <2> QED
    BY <2>7, <2>8 DEF Keeping
<1>2. CASE Store(i)
  <2>1. /\ pipe[i].pc = "store" /\ Goto(i, "poll") /\ entry' = [entry EXCEPT ![i].job = pipe[i].job]
        /\ UNCHANGED <<owner, job, tick, unstored>>
    BY <1>2 DEF Store, lab, history
  <2>2. /\ pipe'[i].pc = "poll" /\ pipe'[i].job = pipe[i].job
        /\ \A k \in Ids : k # i => pipe'[k] = pipe[k]
    BY <1>0, <2>1, GotoMoves
  <2>3. /\ entry'[i].job = pipe[i].job
        /\ \A k \in Ids : k # i => entry'[k] = entry[k]
    BY <1>0, <2>1 DEF TypeOK, Entry
  <2>4. Asking'
    <3>1. CASE tick.pc \notin {"peek", "clear"}
      BY <2>1, <3>1 DEF Asking
    <3>2. CASE tick.pc \in {"peek", "clear"}
      <4>1. tick.id \in Ids /\ tick.id # i
        BY <1>0, <2>1, <3>2 DEF Asking, Storing
      <4> QED
        BY <1>0, <2>1, <2>3, <4>1 DEF Asking
    <3> QED
      BY <3>1, <3>2
  <2>5. ASSUME NEW k \in Ids PROVE Strays(k)' /\ Storing(k)'
    <3>1. Strays(k) /\ Storing(k) /\ unstored' >= unstored
      BY <1>0, <2>1 DEF Keeping, TypeOK
    <3>2. Live(k)' = Live(k)
      BY <2>1 DEF Live
    <3>3. Kept(k)' = Kept(k)
      BY <2>1, <2>2, <2>3 DEF Kept
    <3>4. Storing(k)'
      BY <2>2, <2>3, <3>1 DEF Storing
    <3> QED
      BY <1>0, <3>1, <3>2, <3>3, <3>4, NoNewStray
  <2> QED
    BY <2>4, <2>5 DEF Keeping
<1>3. CASE StoreLost(i)
  <2>1. /\ pipe[i].pc = "store" /\ Goto(i, "poll") /\ unstored' = unstored + 1
        /\ UNCHANGED <<entry, owner, job, tick>>
    BY <1>3 DEF StoreLost, queue, lab
  <2>2. /\ pipe'[i].pc = "poll"
        /\ \A k \in Ids : k # i => pipe'[k] = pipe[k]
    BY <1>0, <2>1, GotoMoves
  <2>3. Asking'
    BY <1>0, <2>1 DEF Asking
  <2>4. ASSUME NEW k \in Ids PROVE Strays(k)' /\ Storing(k)'
    <3>1. /\ Strays(k) /\ Storing(k) /\ unstored' >= unstored + 1
      BY <1>0, <2>1 DEF Keeping, TypeOK
    <3>2. Live(k)' = Live(k)
      BY <2>1 DEF Live
    <3>3. Storing(k)'
      BY <2>1, <2>2, <3>1 DEF Storing
    <3> QED
      BY <1>0, <3>1, <3>2, <3>3, OneStrayMore
  <2> QED
    BY <2>3, <2>4 DEF Keeping
<1>4. CASE \/ Claim(i) \/ NotSubmitted(i) \/ Polled(i) \/ Ending(i)
           \/ EndingThrows(i) \/ CompleteLost(i)
  <2>1. /\ UNCHANGED <<owner, unstored, job, tick>>
        /\ \A k \in Ids : entry'[k].job = entry[k].job
        /\ \A k \in Ids : pipe'[k] = pipe[k] \/ (pipe[k].pc # "store" /\ pipe'[k].pc # "store")
    <3>1. CASE Claim(i)
      <4> DEFINE p == IF entry[i].job = 0 THEN "submit" ELSE "poll"
      <4>1. p # "store"
        OBVIOUS
      <4>2. /\ pipe[i].pc = "idle" /\ SetStatus(i, "processing")
            /\ pipe' = [pipe EXCEPT ![i] = [pc |-> p, job |-> entry[i].job]]
            /\ UNCHANGED <<owner, unstored, job, tick>>
        BY <3>1 DEF Claim, lab, history
      <4> HIDE DEF p
      <4> QED
        BY <1>0, <4>1, <4>2, SetStatusMoves, SetPipeMoves
    <3>2. CASE NotSubmitted(i) \/ Polled(i) \/ EndingThrows(i)
      <4>1. PICK p \in {"done", "failed", "record", "recordError", "recordSkip"} : Goto(i, p)
        BY <3>2, PolledMoves DEF NotSubmitted, EndingThrows
      <4>2. /\ pipe[i].pc # "store" /\ UNCHANGED <<entry, owner, unstored, job, tick>>
        BY <3>2 DEF NotSubmitted, Polled, PollResult, PollFails, EndingThrows, queue, lab, history
      <4> QED
        BY <1>0, <4>1, <4>2, GotoMoves
    <3>3. CASE Record(i) \/ Apply(i)
      <4>1. PICK p \in {"apply", "done", "failed"} : Goto(i, p)
        BY <3>3, RecordMoves DEF Apply
      <4>2. /\ pipe[i].pc # "store" /\ UNCHANGED <<entry, owner, unstored, job, tick>>
        BY <3>3 DEF Record, Apply, queue, lab, history
      <4> QED
        BY <1>0, <4>1, <4>2, GotoMoves
    <3>4. CASE Complete(i)
      <4>1. PICK st : SetStatus(i, st)
        BY <3>4 DEF Complete
      <4>2. /\ pipe[i].pc # "store" /\ UNCHANGED <<owner, unstored, job, tick>>
        BY <3>4 DEF Complete, lab, history
      <4>3. /\ pipe'[i].pc # "store" /\ \A k \in Ids : k # i => pipe'[k] = pipe[k]
        <5>1. CASE pipe[i].pc = "done"
          BY <1>0, <3>4, <5>1 DEF Complete, IdlePipe, TypeOK
        <5>2. CASE pipe[i].pc # "done"
          <6>1. pipe' = [pipe EXCEPT ![i] = [pipe[i] EXCEPT !.pc = "retry"]]
            BY <3>4, <5>2 DEF Complete
          <6> QED
            BY <1>0, <6>1 DEF TypeOK, Pipe
        <5> QED
          BY <5>1, <5>2
      <4> QED
        BY <1>0, <4>1, <4>2, <4>3, SetStatusMoves
    <3>5. CASE CompleteLost(i) \/ Requeue(i)
      <4>1. /\ pipe' = [pipe EXCEPT ![i] = [pc |-> "idle", job |-> 0]] /\ pipe[i].pc # "store"
            /\ UNCHANGED <<owner, unstored, job, tick>>
        BY <3>5 DEF CompleteLost, Requeue, IdlePipe, lab, history
      <4>2. entry' = entry \/ \E k \in Ids : SetStatus(k, "pending")
        <5>1. CASE AttemptLeft
          <6>1. lastId + 1 \in Ids
            BY <1>0, <5>1, LabAssumption DEF AttemptLeft, TypeOK, Ids
          <6> QED
            BY <3>5, <5>1, <6>1 DEF CompleteLost, Requeue, queue
        <5>2. CASE ~AttemptLeft
          BY <3>5, <5>2 DEF CompleteLost, Requeue, queue
        <5> QED
          BY <5>1, <5>2
      <4>3. \A k \in Ids : entry'[k].job = entry[k].job
        BY <1>0, <4>2, SetStatusMoves
      <4> QED
        BY <1>0, <4>1, <4>3, SetPipeMoves
    <3> QED
      BY <1>4, <3>1, <3>2, <3>3, <3>4, <3>5 DEF Ending
  <2>2. Asking'
    BY <1>0, <2>1, StillDead
  <2> QED
    BY <2>1, <2>2, IdsStay
<1> QED
  BY <1>1, <1>2, <1>3, <1>4 DEF Pipeline

\* So does every other step: the tick clears the id of a dead job, and what a crash cuts
\* off is counted.
LEMMA StepKeepsIds ==
  ASSUME IInv, Keeping, [Next]_vars
  PROVE  Keeping'
<1>0. TypeOK /\ TypeOK' /\ Asking
  BY TypeStep DEF IInv, Keeping
<1>1. ASSUME NEW i \in Ids, Pipeline(i) PROVE Keeping'
  BY <1>0, <1>1, PipelineKeepsIds
<1>2. ASSUME NEW i \in Ids, Orphan(i) \/ PeekStart(i) PROVE Keeping'
  <2>1. UNCHANGED <<owner, unstored, job, pipe>>
    BY <1>2 DEF Orphan, PeekStart, lab, history
  <2>2. \A k \in Ids : entry'[k].job = entry[k].job
    <3>1. entry' = entry \/ \E st : SetStatus(i, st)
      BY <1>2 DEF Orphan, PeekStart, queue
    <3> QED
      BY <1>0, <3>1, SetStatusMoves
  <2>3. Asking'
    BY <1>2, <2>2 DEF Orphan, PeekStart, Asking
  <2> QED
    BY <1>0, <2>1, <2>2, <2>3, IdsStay
<1>3. CASE CancelJob
  <2>1. /\ UNCHANGED <<entry, owner, unstored, pipe>> /\ tick' = IdleTick
        /\ \A j \in Jobs : job'[j] = job[j] \/ job'[j] = "cancelled"
    BY <1>0, <1>3 DEF CancelJob, queue, history, TypeOK
  <2>2. Asking'
    BY <2>1 DEF Asking, IdleTick
  <2>3. \A j \in Jobs : job'[j] \in Result \cup {"running"} => job[j] \in Result \cup {"running"}
    BY <2>1 DEF Result
  <2> QED
    BY <1>0, <2>1, <2>2, <2>3, IdsStay
<1>4. CASE Peek \/ PeekUnreachable
  <2>1. UNCHANGED <<entry, owner, unstored, pipe, job>>
    BY <1>4 DEF Peek, PeekUnreachable, queue, lab
  <2>2. ~(PollCountRead + 1 >= MaxUnreachable)
    BY LabAssumption DEF PollCountRead
  <2>3. \/ tick' = IdleTick
        \/ /\ tick.pc = "peek" /\ job[entry[tick.id].job] \in Dead
           /\ tick'.id = tick.id
    BY <1>0, <1>4, <2>2 DEF Peek, PeekUnreachable, TypeOK
  <2>4. Asking'
    BY <1>0, <2>1, <2>3 DEF Asking, IdleTick
  <2> QED
    BY <1>0, <2>1, <2>4, IdsStay
<1>5. CASE PeekClear
  <2>1. /\ tick.pc = "clear" /\ entry' = [entry EXCEPT ![tick.id].job = 0] /\ tick' = IdleTick
        /\ UNCHANGED <<owner, unstored, pipe, job>>
    BY <1>5 DEF PeekClear, lab, history
  <2>2. PICK i \in Ids : i = tick.id
    BY <1>0, <2>1 DEF Asking
  <2>3. entry[i].job # 0 /\ job[entry[i].job] \in Dead
    BY <1>0, <2>1, <2>2 DEF Asking
  <2>4. entry'[i].job = 0 /\ \A k \in Ids : k # i => entry'[k] = entry[k]
    BY <1>0, <2>1, <2>2 DEF TypeOK, Entry
  <2>5. ASSUME NEW k \in Ids PROVE Strays(k)' /\ Storing(k)'
    <3>1. Strays(k) /\ Storing(k) /\ unstored' >= unstored
      BY <1>0, <2>1 DEF Keeping, TypeOK
    <3>2. Live(k)' = Live(k)
      BY <2>1 DEF Live
    <3>3. Live(k)' \ {Kept(k)'} \subseteq Live(k) \ {Kept(k)}
      <4>1. CASE k = i
        <5>1. pipe[i].pc # "store"
          BY <2>3, <3>1, <4>1 DEF Storing
        <5>2. Kept(i) = entry[i].job
          BY <5>1 DEF Kept
        <5>3. Kept(i) \notin Live(i)
          BY <2>3, <5>2 DEF Live, Dead, Result
        <5> QED
          BY <3>2, <4>1, <5>3
      <4>2. CASE k # i
        BY <2>1, <2>4, <3>2, <4>2 DEF Kept
      <4> QED
        BY <4>1, <4>2
    <3>4. Storing(k)'
      BY <2>1, <2>4, <3>1 DEF Storing
    <3> QED
      BY <1>0, <3>1, <3>3, <3>4, NoNewStray
  <2>6. Asking'
    BY <2>1 DEF Asking, IdleTick
  <2> QED
    BY <2>5, <2>6 DEF Keeping
<1>6. CASE Scans \/ Lab
  <2>1. UNCHANGED <<entry, owner, unstored, pipe, tick>>
    BY <1>6 DEF Scans, ScanCheck, ScanRecord, ScanSkips, ScanFails, Lab, LabFinishes, LabDeletes,
       Miss, LabFlips,
       queue, history
  <2>2. \A j \in Jobs : \/ job'[j] = job[j] \/ job'[j] = "gone"
                        \/ job[j] = "running" /\ job'[j] \in Result \cup {"failed"}
    BY <1>0, <1>6 DEF Scans, ScanCheck, ScanRecord, ScanSkips, ScanFails, Lab, LabFinishes, LabDeletes,
       Miss, LabFlips,
       lab, TypeOK
  <2>3. Asking'
    BY <1>0, <2>1, <2>2, StillDead DEF Dead
  <2>4. \A j \in Jobs : job'[j] \in Result \cup {"running"} => job[j] \in Result \cup {"running"}
    BY <2>2 DEF Result
  <2> QED
    BY <1>0, <2>1, <2>3, <2>4, IdsStay
<1>7. CASE CrashRestart
  <2> DEFINE C == {k \in Ids : pipe[k].pc = "store"}
  <2>1. /\ UNCHANGED <<owner, job>> /\ tick' = IdleTick /\ unstored' = unstored + Cardinality(C)
        /\ \A k \in Ids : pipe'[k] = IdlePipe
    BY <1>7 DEF CrashRestart, lab
  <2>2. \A k \in Ids : entry'[k].job = entry[k].job
    <3>1. ASSUME NEW k \in Ids PROVE entry'[k].job = entry[k].job
      <4>1. entry'[k] = RecoverStuck(k) /\ entry[k] \in Entry
        BY <1>0, <1>7 DEF CrashRestart, TypeOK
      <4> QED
        BY <4>1 DEF RecoverStuck, Entry
    <3> QED
      BY <3>1
  <2>3. IsFiniteSet(C) /\ Cardinality(C) \in Nat /\ unstored \in Nat
    <3>1. IsFiniteSet(Ids) /\ C \in SUBSET Ids
      BY FS_Interval, LabAssumption DEF Ids
    <3> HIDE DEF C
    <3> QED
      BY <1>0, <3>1, Fewer DEF TypeOK
  <2>4. ASSUME NEW k \in Ids PROVE Strays(k)' /\ Storing(k)'
    <3>1. Strays(k)
      BY DEF Keeping
    <3>2. Live(k)' = Live(k)
      BY <2>1 DEF Live
    <3>3. CASE pipe[k].pc = "store"
      <4>1. k \in C
        BY <3>3
      <4> HIDE DEF C
      <4>2. Cardinality(C) # 0
        BY <2>3, <4>1, FS_EmptySet
      <4>3. unstored' >= unstored + 1
        BY <2>1, <2>3, <4>2
      <4> QED
        BY <1>0, <2>1, <3>1, <3>2, <4>3, OneStrayMore DEF Storing, IdlePipe
    <3>4. CASE pipe[k].pc # "store"
      <4>1. Kept(k)' = Kept(k)
        BY <2>1, <2>2, <3>4 DEF Kept, IdlePipe
      <4> HIDE DEF C
      <4>2. unstored' >= unstored
        BY <2>1, <2>3
      <4> QED
        BY <1>0, <2>1, <3>1, <3>2, <4>1, <4>2, NoNewStray DEF Storing, IdlePipe
    <3> QED
      BY <3>3, <3>4
  <2>5. Asking'
    BY <2>1 DEF Asking, IdleTick
  <2> QED
    BY <2>4, <2>5 DEF Keeping
<1>8. CASE UNCHANGED vars
  <2>1. UNCHANGED <<entry, owner, unstored, pipe, tick, job>>
    BY <1>8 DEF vars, queue, lab, history
  <2>2. Asking'
    BY <1>0, <2>1 DEF Asking
  <2> QED
    BY <1>0, <2>1, <2>2, IdsStay
<1> QED
  BY <1>1, <1>2, <1>3, <1>4, <1>5, <1>6, <1>7, <1>8 DEF Next, Tick

\* Initially no job was submitted.
LEMMA InitKeeping == Init => Keeping
<1> SUFFICES ASSUME Init PROVE Keeping
  OBVIOUS
<1>1. Asking /\ \A i \in Ids : Storing(i)
  BY DEF Init, Asking, Storing, IdleTick, IdlePipe
<1>2. ASSUME NEW i \in Ids PROVE Strays(i)
  <2>1. Live(i) = {}
    BY DEF Init, Live, Result
  <2>2. Live(i) \ {Kept(i)} = {}
    BY <2>1
  <2>3. Cardinality({}) = 0 /\ unstored = 0
    BY FS_EmptySet DEF Init
  <2> QED
    BY <2>2, <2>3 DEF Strays
<1> QED
  BY <1>1, <1>2 DEF Keeping

\* A step that makes an entry forget its job is the clearing of one that is dead.
LEMMA StepForgets ==
  ASSUME IInv, Keeping, [Next]_vars, NEW i \in Ids,
         entry[i].job # 0, entry'[i].job # entry[i].job
  PROVE  job[entry[i].job] \in Dead
<1>0. TypeOK /\ Asking /\ Storing(i) /\ entry \in [Ids -> Entry] /\ entry[i] \in Entry
  BY DEF IInv, Keeping, TypeOK
<1>1. CASE PeekClear
  <2>1. tick.pc = "clear" /\ entry' = [entry EXCEPT ![tick.id].job = 0]
    BY <1>1 DEF PeekClear
  <2>2. tick.id = i
    BY <1>0, <2>1
  <2> QED
    BY <1>0, <2>1, <2>2 DEF Asking
<1>2. ASSUME NEW k \in Ids, NEW st, SetStatus(k, st) PROVE FALSE
  <2>1. k = i \/ entry'[i] = entry[i]
    BY <1>0, <1>2, SetStatusMoves
  <2> QED
    BY <1>0, <1>2, <2>1, SetStatusMoves
<1>3. ASSUME NEW k \in Ids, Pipeline(k) PROVE FALSE
  <2>1. CASE Store(k)
    <3>1. pipe[k].pc = "store" /\ entry' = [entry EXCEPT ![k].job = pipe[k].job]
      BY <2>1 DEF Store
    <3>2. k = i
      BY <1>0, <3>1
    <3> QED
      BY <1>0, <3>1, <3>2 DEF Storing
  <2>2. CASE Claim(k) \/ Complete(k)
    BY <1>2, <2>2 DEF Claim, Complete
  <2>3. CASE Requeue(k)
    <3>1. AttemptLeft => lastId + 1 \in Ids
      BY <1>0, LabAssumption DEF AttemptLeft, TypeOK, Ids
    <3> QED
      BY <1>2, <2>3, <3>1 DEF Requeue, queue
  <2>4. CASE Submit(k) \/ NotSubmitted(k) \/ StoreLost(k) \/ Polled(k) \/ Record(k) \/ Apply(k)
             \/ EndingThrows(k) \/ CompleteLost(k)
    BY <2>4 DEF Submit, NotSubmitted, StoreLost, Polled, PollResult, PollFails, Record, Apply,
                EndingThrows, CompleteLost, queue
  <2> QED
    BY <1>3, <2>1, <2>2, <2>3, <2>4 DEF Pipeline, Ending
<1>4. ASSUME NEW k \in Ids, Orphan(k) \/ PeekStart(k) PROVE FALSE
  BY <1>2, <1>4 DEF Orphan, PeekStart, queue
<1>5. CASE CancelJob \/ Peek \/ PeekUnreachable \/ Scans \/ Lab \/ UNCHANGED vars
  BY <1>5 DEF CancelJob, Peek, PeekUnreachable, Scans, ScanCheck, ScanRecord, ScanSkips,
              ScanFails, Lab, LabFinishes, LabDeletes, Miss, LabFlips, vars, queue
<1>6. CASE CrashRestart
  <2>1. entry'[i] = RecoverStuck(i)
    BY <1>6 DEF CrashRestart
  <2> QED
    BY <1>0, <2>1 DEF RecoverStuck, Entry
<1> QED
  BY <1>1, <1>3, <1>4, <1>5, <1>6 DEF Next, Tick
-----------------------------------------------------------------------------
(* Theorems *)

\* Every variable holds values of its type, whatever the order of polls, ticks, scans,
\* crashes and outages.
THEOREM JobTypesCorrect == Spec => []TypeOK
<1>1. Init => TypeOK
  BY InitIInv DEF IInv
<1>2. TypeOK /\ [Next]_vars => TypeOK'
  BY TypeStep
<1> QED
  BY <1>1, <1>2, PTL DEF Spec

\* The verdict of a job changes the weight of its node once, and once more at most for
\* every crash of the server and every write that was lost (recordVerification, called
\* by verifyNodeInternal).
THEOREM VerdictsAppliedOnce == Spec => []AppliedOnce
<1>1. IInv /\ [Next]_vars => IInv'
  BY StepIInv
<1>2. IInv => AppliedOnce
  BY DEF IInv, Inductive
<1> QED
  BY <1>1, <1>2, InitIInv, PTL DEF Spec

\* An attempt never has two jobs that may still bring a verdict, but for those whose id
\* was lost before it was stored: verifyNodeInternal submits only when the entry has no
\* job id, and the tick clears the id of a dead job only.
THEOREM JobsNotRepeated == Spec => []OneJobPerAttempt
<1>1. IInv /\ Keeping /\ [Next]_vars => (IInv /\ Keeping)'
  BY StepIInv, StepKeepsIds
<1>2. Init => IInv /\ Keeping
  BY InitIInv, InitKeeping
<1>3. IInv /\ Keeping => OneJobPerAttempt
  <2> SUFFICES ASSUME IInv, Keeping, NEW i \in Ids PROVE Cardinality(Live(i)) <= 1 + unstored
    BY DEF OneJobPerAttempt, Live
  <2>1. Cardinality(Live(i) \ {Kept(i)}) <= unstored /\ unstored \in Nat
    BY DEF Keeping, Strays, IInv, TypeOK
  <2>2. Cardinality(Live(i)) <= Cardinality(Live(i) \ {Kept(i)}) + 1
    BY LiveFinite, OneMore
  <2>3. Cardinality(Live(i)) \in Nat /\ Cardinality(Live(i) \ {Kept(i)}) \in Nat
    BY LiveFinite, FS_RemoveElement, FS_CardinalityType
  <2> QED
    BY <2>1, <2>2, <2>3
<1> QED
  BY <1>1, <1>2, <1>3, PTL DEF Spec

\* An entry forgets its job only when the job has ended badly or is gone: what
\* _recoverOrphanedEntries clears is the job it has asked about, whatever is claimed,
\* submitted or stored between the answer and the write.
THEOREM DeadJobsForgotten == Spec => ForgetsDeadJobsOnly
<1>1. IInv /\ Keeping /\ [Next]_vars => (IInv /\ Keeping)'
  BY StepIInv, StepKeepsIds
<1>2. Init => IInv /\ Keeping
  BY InitIInv, InitKeeping
<1>3. IInv /\ Keeping /\ [Next]_vars
        => [\A i \in Ids : entry[i].job # 0 /\ entry'[i].job # entry[i].job
              => job[entry[i].job] \in {"failed", "cancelled", "gone"} \/ failures[i] >= MaxUnreachable]_vars
  BY StepForgets DEF Dead
<1> QED
  BY <1>1, <1>2, <1>3, PTL DEF Spec, ForgetsDeadJobsOnly
=============================================================================
