------------------------------- MODULE Engine -------------------------------
(***************************************************************************)
(* The autonomous loops (core/synthesis-engine.ts, the cycles of           *)
(* core/synthesis-engine-state.ts and core/cycles/starters.ts) and what    *)
(* stops or pauses them: the procedures that want the project database for *)
(* themselves (handlers/projects, executeRollback of core/journal.ts), and *)
(* the resource lock of a lab (lab/resource-lock.ts).                      *)
(*                                                                         *)
(* A loop is asynchronous code of the one server process: between two of   *)
(* its awaits it runs alone.  A step of a loop reads the project, makes    *)
(* calls to a language model and writes what it found; every one of these  *)
(* is an action.  What a step has read is abstracted to whether it still   *)
(* is the project: a switch, a new project and a rollback each leave the   *)
(* steps in progress behind, and a step that is behind and writes carries  *)
(* data across.  The flag of a switch is read by handlePropose alone, and  *)
(* not modelled: a proposal that it rejects is a step that writes nothing. *)
(***************************************************************************)
EXTENDS Naturals, FiniteSets

CONSTANTS
  Cycle,       \* the kinds of loop; each has at most one loop at a time
  Synthesis,   \* the synthesis engine, whose state is kept apart
  Heedless,    \* the loops that do not look at the resource pause
  Job,         \* lab jobs whose submission asks for the resource lock
  Op,          \* concurrent calls that stop the loops
  Kinds,       \* what such a call is for
  NoJob

ASSUME EngineAssumption ==
  /\ Synthesis \in Cycle /\ Heedless \subseteq Cycle
  /\ NoJob \notin Job
  /\ Kinds \subseteq {"switch", "rollback", "interview"}

VARIABLES
  pc,        \* where each loop is; "off" is the running flag down
  stop,      \* shouldStop
  behind,    \* loops in a step that has read what is not the project any more
  op,        \* the calls that stop the loops
  aborted,   \* the current AbortController has been aborted
  lock,      \* activeLock
  timer,     \* a timeout is set for the lock
  paused,    \* _resourcePaused
  job,       \* where the polling of each job is
  excused    \* history: loops the stopping calls have missed or given up on

loops   == <<pc, stop, behind, excused>>
locking == <<lock, timer, paused, job>>
vars    == <<loops, op, aborted, locking>>
-----------------------------------------------------------------------------
InStep == {"ready", "calling", "cut"}
LoopPC == {"off", "idle"} \cup InStep
OpPC   == {"idle", "scanSynthesis", "scanCycles", "wait", "act", "caches"}
Idle   == [pc |-> "idle", kind |-> "switch", waiting |-> {}]

Running == {c \in Cycle : pc[c] /= "off"}

\* A start that does not look
NeverRefused(c) == FALSE
\* The running flag is looked at and raised in one go
Refused(c) == c \in Running

\* The call is about to change the project and has looked for c already
Passed(o, c) ==
  /\ op[o].kind /= "interview"
  /\ \/ op[o].pc \in {"wait", "act"}
     \/ c = Synthesis /\ op[o].pc = "scanCycles"

Init ==
  /\ pc = [c \in Cycle |-> "off"]
  /\ stop = [c \in Cycle |-> FALSE]
  /\ op = [o \in Op |-> Idle]
  /\ aborted = FALSE
  /\ lock = NoJob /\ timer = FALSE /\ paused = FALSE
  /\ job = [j \in Job |-> "new"]
  /\ behind = {} /\ excused = {}
-----------------------------------------------------------------------------
(* The loops *)

\* A route, the start of the server or the budget starts a loop
Start(c) ==
  /\ ~Refused(c)
  /\ pc' = [pc EXCEPT ![c] = IF @ = "off" THEN "idle" ELSE @]
  /\ stop' = [stop EXCEPT ![c] = FALSE]
  /\ excused' = IF \E o \in Op : Passed(o, c) THEN excused \cup {c} ELSE excused \ {c}
  /\ UNCHANGED <<behind, op, aborted, locking>>

\* A route stops a loop
Stop(c) ==
  /\ c \in Running
  /\ stop' = [stop EXCEPT ![c] = TRUE]
  /\ UNCHANGED <<pc, behind, excused, op, aborted, locking>>

\* Only the running flag goes down
OffStopped(c) ==
  /\ pc' = [pc EXCEPT ![c] = "off"]
  /\ behind' = behind \ {c}
  /\ excused' = excused \ {c}
  /\ UNCHANGED stop
\* The finally block: both flags go down
Off(c) ==
  /\ pc' = [pc EXCEPT ![c] = "off"]
  /\ stop' = [stop EXCEPT ![c] = FALSE]
  /\ behind' = behind \ {c}
  /\ excused' = excused \ {c}

\* Between two steps (asleep, or waiting for the lab) a stop ends the loop ...
LoopStops(c) ==
  /\ pc[c] = "idle" /\ stop[c]
  /\ Off(c)
  /\ UNCHANGED <<op, aborted, locking>>

\* ... and so does maxCycles
LoopIsDone(c) ==
  /\ pc[c] = "idle" /\ ~stop[c]
  /\ Off(c)
  /\ UNCHANGED <<op, aborted, locking>>

\* The next step begins, with reads of the project
BeginStep(c) ==
  /\ pc[c] = "idle" /\ ~stop[c]
  /\ paused => c \in Heedless
  /\ pc' = [pc EXCEPT ![c] = "ready"]
  /\ UNCHANGED <<stop, behind, excused, op, aborted, locking>>

\* A call to a model is cancelled at once when the signal is aborted already
CallModel(c) ==
  /\ pc[c] = "ready"
  /\ pc' = [pc EXCEPT ![c] = IF aborted THEN "cut" ELSE "calling"]
  /\ UNCHANGED <<stop, behind, excused, op, aborted, locking>>

\* The model answers; an AbortError that the step catches itself is an answer too
Answer(c) ==
  /\ pc[c] \in {"calling", "cut"}
  /\ pc' = [pc EXCEPT ![c] = "ready"]
  /\ UNCHANGED <<stop, behind, excused, op, aborted, locking>>

\* An AbortError that reaches the loop ends it; so does a synthesis without a model
Aborts(c) ==
  /\ \/ pc[c] = "cut"
     \/ c = Synthesis /\ pc[c] = "ready"
  /\ Off(c)
  /\ UNCHANGED <<op, aborted, locking>>

\* The step writes what it found, or nothing, or it fails: the loop goes on
EndStep(c) ==
  /\ pc[c] = "ready"
  /\ pc' = [pc EXCEPT ![c] = "idle"]
  /\ behind' = behind \ {c}
  /\ UNCHANGED <<stop, excused, op, aborted, locking>>
-----------------------------------------------------------------------------
(* The calls that stop the loops *)

Move(o, p) == op' = [op EXCEPT ![o].pc = p]

\* The calls in flight are aborted
BeginStopping(o, k) ==
  /\ op[o].pc = "idle"
  /\ op' = [op EXCEPT ![o] = [pc |-> "scanSynthesis", kind |-> k, waiting |-> {}]]
  /\ aborted' = TRUE
  /\ pc' = [c \in Cycle |-> IF pc[c] = "calling" THEN "cut" ELSE pc[c]]
  /\ UNCHANGED <<stop, behind, excused, locking>>

\* The loops of cs that are running are told to stop, and will be waited for
Scan(o, cs, next) ==
  LET found == cs \cap Running IN
    /\ stop' = [c \in Cycle |-> c \in found \/ stop[c]]
    /\ op' = [op EXCEPT ![o].pc = next, ![o].waiting = @ \cup found]
    /\ UNCHANGED <<pc, behind, excused, aborted, locking>>

ScanSynthesis(o) == op[o].pc = "scanSynthesis" /\ Scan(o, {Synthesis}, "scanCycles")

\* A list of the cycles that leaves one out
ScanFewCycles(o) == op[o].pc = "scanCycles" /\ Scan(o, Heedless \ {Synthesis}, "wait")
ScanCycles(o)    == op[o].pc = "scanCycles" /\ Scan(o, Cycle \ {Synthesis}, "wait")

\* None of them is running any more; or ten seconds have passed
Waited(o) ==
  /\ op[o].pc = "wait"
  /\ op' = [op EXCEPT ![o].pc = "act", ![o].waiting = {}]
  /\ excused' = IF op[o].kind = "interview" THEN excused
                ELSE excused \cup (op[o].waiting \cap Running)
  /\ UNCHANGED <<pc, stop, behind, aborted, locking>>

\* getDb() opens another file, or the journal is replayed; a rollback is done then
Act(o) ==
  /\ op[o].pc = "act" /\ op[o].kind /= "interview"
  /\ behind' = {c \in Cycle : pc[c] \in InStep}
  /\ IF op[o].kind = "rollback" THEN op' = [op EXCEPT ![o] = Idle] ELSE Move(o, "caches")
  /\ UNCHANGED <<pc, stop, excused, aborted, locking>>

\* The caches are filled from the new project; an interview comes here at once.  The
\* controller is a new one, whoever else is still stopping the loops
Finish(o) ==
  /\ \/ op[o].pc = "caches"
     \/ op[o].pc = "act" /\ op[o].kind = "interview"
  /\ op' = [op EXCEPT ![o] = Idle]
  /\ aborted' = FALSE
  /\ UNCHANGED <<loops, locking>>

\* A backup, a file, a replay or a query that throws: nothing is put back
Fail(o) ==
  /\ op[o].pc \in {"act", "caches"} /\ op[o].kind /= "interview"
  /\ op' = [op EXCEPT ![o] = Idle]
  /\ UNCHANGED <<loops, aborted, locking>>
-----------------------------------------------------------------------------
(* The resource lock *)

Polling == {j \in Job : job[j] = "polling"}

\* releaseResourceLock: the timer goes, the loops may go on
Release ==
  /\ lock' = NoJob /\ timer' = FALSE
  /\ paused' = IF lock = NoJob THEN paused ELSE FALSE

\* The timer of the superseded lock is cleared after the new one is set
AcquireClearsTimer(j) ==
  /\ job[j] = "new"
  /\ job' = [job EXCEPT ![j] = "polling"]
  /\ lock' = j /\ timer' = (lock = NoJob) /\ paused' = TRUE
  /\ UNCHANGED <<loops, op, aborted>>
\* A job is submitted and the lab asks for the lock, which another job may hold.  (A job
\* is submitted once, and one that is resumed does not ask: the same job never asks again.)
Acquire(j) ==
  /\ job[j] = "new"
  /\ job' = [job EXCEPT ![j] = "polling"]
  /\ lock' = j /\ timer' = TRUE /\ paused' = TRUE
  /\ UNCHANGED <<loops, op, aborted>>

\* The polling of a job ends, one way or the other: whichever lock there is is released
EndPolling(j) ==
  /\ job[j] = "polling"
  /\ job' = [job EXCEPT ![j] = "done"]
  /\ Release
  /\ UNCHANGED <<loops, op, aborted>>

\* The timer fires, or the lab of the job that holds the lock is found offline
Released ==
  /\ lock /= NoJob
  /\ Release
  /\ UNCHANGED <<job, loops, op, aborted>>
AutoRelease == timer /\ Released
LabOffline  == Released
-----------------------------------------------------------------------------
LoopStep(c) == \/ LoopStops(c) \/ LoopIsDone(c) \/ BeginStep(c)
               \/ CallModel(c) \/ Answer(c) \/ Aborts(c) \/ EndStep(c)

Next ==
  \/ \E c \in Cycle : Start(c) \/ Stop(c) \/ LoopStep(c)
  \/ \E o \in Op : \/ \E k \in Kinds : BeginStopping(o, k)
                   \/ ScanSynthesis(o) \/ ScanCycles(o) \/ Waited(o)
                   \/ Act(o) \/ Finish(o) \/ Fail(o)
  \/ \E j \in Job : Acquire(j) \/ EndPolling(j)
  \/ AutoRelease \/ LabOffline

Spec == Init /\ [][Next]_vars
-----------------------------------------------------------------------------
(* Every variable has a value of its type.  A loop that is off has no flag raised,
   read nothing and owes nothing. *)
TypeOK ==
  /\ pc \in [Cycle -> LoopPC]
  /\ stop \in [Cycle -> BOOLEAN] /\ \A c \in Cycle : stop[c] => c \in Running
  /\ behind \subseteq {c \in Cycle : pc[c] \in InStep}
  /\ op \in [Op -> [pc : OpPC, kind : {"switch", "rollback", "interview"}, waiting : SUBSET Cycle]]
  /\ aborted \in BOOLEAN
  /\ lock \in Job \cup {NoJob} /\ timer \in BOOLEAN
  /\ paused \in BOOLEAN
  /\ job \in [Job -> {"new", "polling", "done"}]
  /\ excused \subseteq Running

(* Nothing crosses from one project to the next: a step in progress works on what it
   read in the current generation, except in a loop that was started after the switch
   (or the rollback) had looked for it, or that outlasted the ten seconds' wait.
   Stops, restarts and several switches come in any order. *)
StepsOwnProject == behind \subseteq excused

(* The lock never outlives the work it is held for: whoever holds it is being polled, a
   timeout is set that releases it if the polling never ends, and the loops are paused
   exactly while someone holds it. *)
LockIsOwed == /\ lock /= NoJob => lock \in Polling
              /\ timer <=> lock /= NoJob
              /\ paused <=> lock /= NoJob

(* A loop that is told to stop begins no further step and forgets the request only by
   ending: a second start, from a route or from the budget, cannot take it back. *)
StopHonoured ==
  [][\A c \in Cycle : stop[c] =>
       /\ stop'[c] \/ pc'[c] = "off"
       /\ pc[c] = "idle" => pc'[c] /= "ready"]_vars
=============================================================================
