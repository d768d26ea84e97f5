--------------------------- MODULE Engine_proofs ---------------------------
(***************************************************************************)
(* Theorems about Engine, for any set of loops, jobs and stopping calls.   *)
(*                                                                         *)
(* The types and the facts about the lock are inductive as they stand.     *)
(* That nothing crosses from one project to the next is not: it needs to   *)
(* know, for a call that is under way, which loops it has taken care of    *)
(* (Caught).                                                               *)
(***************************************************************************)
EXTENDS Engine, TLAPS

USE EngineAssumption

Call == [pc : OpPC, kind : {"switch", "rollback", "interview"}, waiting : SUBSET Cycle]

(* Whatever a loop does, it does to its own flags. *)
LoopOnly(c) ==
  /\ UNCHANGED <<op, aborted, locking>>
  /\ \/ Off(c)
     \/ /\ UNCHANGED <<stop, excused>>
        /\ \E p \in InStep \cup {"idle"} :
             /\ pc[c] \in InStep \cup {"idle"}
             /\ pc' = [pc EXCEPT ![c] = p]
             /\ \/ p \in InStep /\ behind' = behind
                \/ p = "idle" /\ behind' = behind \ {c}

LEMMA LoopSteps ==
  ASSUME NEW c \in Cycle, LoopStep(c)
  PROVE  LoopOnly(c)
<1>1. CASE LoopStops(c)  BY <1>1 DEF LoopStops, LoopOnly
<1>2. CASE LoopIsDone(c) BY <1>2 DEF LoopIsDone, LoopOnly
<1>3. CASE BeginStep(c)  BY <1>3 DEF BeginStep, LoopOnly, InStep
<1>4. CASE CallModel(c)
  <2>1. \E p \in InStep : pc' = [pc EXCEPT ![c] = p]
    BY <1>4 DEF CallModel, InStep
  <2>2. QED BY <1>4, <2>1 DEF CallModel, LoopOnly, InStep
<1>5. CASE Answer(c)     BY <1>5 DEF Answer, LoopOnly, InStep
<1>6. CASE Aborts(c)     BY <1>6 DEF Aborts, LoopOnly
<1>7. CASE EndStep(c)    BY <1>7 DEF EndStep, LoopOnly, InStep
<1>8. QED
  BY <1>1, <1>2, <1>3, <1>4, <1>5, <1>6, <1>7 DEF LoopStep

LEMMA CallMoves ==
  ASSUME NEW r \in Call, NEW p \in OpPC, NEW w \in SUBSET Cycle
  PROVE  /\ [r EXCEPT !.pc = p, !.waiting = w] = [pc |-> p, kind |-> r.kind, waiting |-> w]
         /\ [r EXCEPT !.pc = p, !.waiting = w] \in Call
<1> DEFINE s == [r EXCEPT !.pc = p]
<1>1. s = [pc |-> p, kind |-> r.kind, waiting |-> r.waiting]
  BY DEF Call
<1> HIDE DEF s
<1>2. [s EXCEPT !.waiting = w] = [pc |-> p, kind |-> r.kind, waiting |-> w]
  BY <1>1
<1>3. [r EXCEPT !.pc = p, !.waiting = w] = [s EXCEPT !.waiting = w]
  BY DEF s
<1>4. QED BY <1>2, <1>3 DEF Call

(* A scan finds the running loops among those it looks for. *)
LEMMA ScanFinds ==
  ASSUME TypeOK, NEW o \in Op, NEW cs \in SUBSET Cycle, NEW next \in OpPC,
         Scan(o, cs, next)
  PROVE  /\ op'[o] = [pc |-> next, kind |-> op[o].kind,
                      waiting |-> op[o].waiting \cup (cs \cap Running)]
         /\ \A p \in Op : p /= o => op'[p] = op[p]
         /\ op' \in [Op -> Call]
<1> DEFINE w == op[o].waiting \cup (cs \cap Running)
<1>1. op \in [Op -> Call] /\ w \in SUBSET Cycle
  BY DEF TypeOK, Call, Running
<1>2. op' = [op EXCEPT ![o] = [@ EXCEPT !.pc = next, !.waiting = w]]
  BY <1>1 DEF Scan, Call
<1> HIDE DEF w
<1>3. [op[o] EXCEPT !.pc = next, !.waiting = w] = [pc |-> next, kind |-> op[o].kind, waiting |-> w]
  BY <1>1, CallMoves
<1>4. [pc |-> next, kind |-> op[o].kind, waiting |-> w] \in Call
  BY <1>1 DEF Call
<1>5. QED BY <1>1, <1>2, <1>3, <1>4 DEF w
-----------------------------------------------------------------------------
(* Types *)

LEMMA TypeInit == Init => TypeOK
<1> SUFFICES ASSUME Init PROVE TypeOK OBVIOUS
<1>1. Idle \in Call BY DEF Idle, Call, OpPC
<1>2. op \in [Op -> Call] BY <1>1 DEF Init
<1>3. pc \in [Cycle -> LoopPC] /\ stop \in [Cycle -> BOOLEAN] /\ job \in [Job -> {"new", "polling", "done"}]
  BY DEF Init, LoopPC
<1>4. \A c \in Cycle : ~stop[c] BY DEF Init
<1>5. QED BY <1>2, <1>3, <1>4 DEF Init, TypeOK, Call

LEMMA TypeLoops ==
  ASSUME TypeOK, NEW c \in Cycle, Start(c) \/ Stop(c) \/ LoopStep(c)
  PROVE  TypeOK'
<1>1. CASE Start(c)
  <2>1. c \notin Running
    BY <1>1 DEF Start, Refused
  <2>2. pc' = [pc EXCEPT ![c] = "idle"]
    BY <1>1, <2>1 DEF Start, Running
  <2>3. excused' \subseteq excused \cup {c}
    BY <1>1 DEF Start
  <2>4. QED
    BY <1>1, <2>1, <2>2, <2>3 DEF Start, TypeOK, LoopPC, Running, InStep, locking
<1>2. CASE Stop(c)
  BY <1>2 DEF Stop, TypeOK, Running, locking
<1>3. CASE LoopStep(c)
  <2>1. LoopOnly(c) BY <1>3, LoopSteps
  <2>2. CASE Off(c)
    BY <2>1, <2>2 DEF LoopOnly, Off, TypeOK, LoopPC, Running, InStep, locking
  <2>3. CASE ~Off(c)
    <3>1. PICK p \in InStep \cup {"idle"} :
             /\ pc[c] \in InStep \cup {"idle"}
             /\ pc' = [pc EXCEPT ![c] = p]
             /\ \/ p \in InStep /\ behind' = behind
                \/ p = "idle" /\ behind' = behind \ {c}
      BY <2>1, <2>3 DEF LoopOnly
    <3>2. QED
      BY <2>1, <2>3, <3>1 DEF LoopOnly, TypeOK, LoopPC, Running, InStep, locking
  <2>4. QED BY <2>2, <2>3
<1>4. QED BY <1>1, <1>2, <1>3

LEMMA TypeCalls ==
  ASSUME TypeOK, NEW o \in Op,
         \/ \E k \in Kinds : BeginStopping(o, k)
         \/ ScanSynthesis(o) \/ ScanCycles(o) \/ Waited(o) \/ Act(o) \/ Finish(o) \/ Fail(o)
  PROVE  TypeOK'
<1> USE DEF Call
<1>1. CASE \E k \in Kinds : BeginStopping(o, k)
  <2>1. PICK k \in Kinds : BeginStopping(o, k) BY <1>1
  <2>2. [pc |-> "scanSynthesis", kind |-> k, waiting |-> {}] \in Call
    BY DEF OpPC
  <2>3. op' \in [Op -> Call]
    BY <2>1, <2>2 DEF BeginStopping, TypeOK
  <2>4. \A c \in Cycle : /\ pc'[c] \in LoopPC
                         /\ pc'[c] = "off" <=> pc[c] = "off"
                         /\ pc[c] \in InStep => pc'[c] \in InStep
    BY <2>1 DEF BeginStopping, TypeOK, LoopPC, InStep
  <2>5. pc' \in [Cycle -> LoopPC]
    BY <2>1, <2>4 DEF BeginStopping
  <2>6. QED
    BY <2>1, <2>3, <2>4, <2>5 DEF BeginStopping, TypeOK, Running, locking
<1>2. CASE ScanSynthesis(o) \/ ScanCycles(o)
  <2>1. PICK cs \in SUBSET Cycle, next \in OpPC : Scan(o, cs, next)
    BY <1>2 DEF ScanSynthesis, ScanCycles, OpPC
  <2>2. op' \in [Op -> Call]
    BY <2>1, ScanFinds
  <2>3. stop' \in [Cycle -> BOOLEAN] /\ \A c \in Cycle : stop'[c] => c \in Running
    BY <2>1 DEF Scan, TypeOK
  <2>4. QED
    BY <2>1, <2>2, <2>3 DEF Scan, TypeOK, Running, locking
<1>3. CASE Waited(o)
  <2>1. [op[o] EXCEPT !.pc = "act", !.waiting = {}] \in Call
    <3>1. op[o] \in Call /\ "act" \in OpPC /\ {} \in SUBSET Cycle
      BY DEF TypeOK, OpPC
    <3> HIDE DEF Call
    <3>2. QED BY <3>1, CallMoves
  <2>2. op' = [op EXCEPT ![o] = [@ EXCEPT !.pc = "act", !.waiting = {}]]
    BY <1>3 DEF Waited, TypeOK
  <2>3. op' \in [Op -> Call]
    BY <2>1, <2>2 DEF TypeOK
  <2>4. excused' \subseteq Running
    BY <1>3 DEF Waited, TypeOK
  <2>5. QED
    BY <1>3, <2>3, <2>4 DEF Waited, TypeOK, Running, locking
<1>4. CASE Act(o)
  <2>1. Idle \in Call /\ [op[o] EXCEPT !.pc = "caches"] \in Call
    BY DEF Idle, TypeOK, OpPC
  <2>2. op' \in [Op -> Call]
    <3>1. CASE op[o].kind = "rollback"
      BY <1>4, <2>1, <3>1 DEF Act, TypeOK
    <3>2. CASE op[o].kind /= "rollback"
      <4>1. op' = [op EXCEPT ![o] = [@ EXCEPT !.pc = "caches"]]
        BY <1>4, <3>2 DEF Act, Move
      <4>2. QED BY <2>1, <4>1 DEF TypeOK
    <3>3. QED BY <3>1, <3>2
  <2>3. QED BY <1>4, <2>2 DEF Act, TypeOK, Running, locking
<1>5. CASE Finish(o) \/ Fail(o)
  <2>1. Idle \in Call BY DEF Idle, OpPC
  <2>2. op' \in [Op -> Call]
    BY <1>5, <2>1 DEF Finish, Fail, TypeOK
  <2>3. QED BY <1>5, <2>2 DEF Finish, Fail, TypeOK, Running, loops, locking
<1>6. QED BY <1>1, <1>2, <1>3, <1>4, <1>5

LEMMA TypeLock ==
  ASSUME TypeOK, (\E j \in Job : Acquire(j) \/ EndPolling(j)) \/ AutoRelease \/ LabOffline
  PROVE  TypeOK'
<1>1. UNCHANGED <<loops, op, aborted>>
  BY DEF Acquire, EndPolling, AutoRelease, LabOffline, Released
<1>2. /\ lock' \in Job \cup {NoJob} /\ timer' \in BOOLEAN /\ paused' \in BOOLEAN
      /\ job' \in [Job -> {"new", "polling", "done"}]
  BY DEF TypeOK, Acquire, EndPolling, AutoRelease, LabOffline, Released, Release, Polling
<1>3. QED BY <1>1, <1>2 DEF TypeOK, Running, loops

LEMMA TypeStep == TypeOK /\ [Next]_vars => TypeOK'
<1> SUFFICES ASSUME TypeOK, [Next]_vars PROVE TypeOK' OBVIOUS
<1>1. CASE UNCHANGED vars
  BY <1>1 DEF TypeOK, vars, loops, locking, Running
<1>2. CASE Next
  BY <1>2, TypeLoops, TypeCalls, TypeLock DEF Next
<1>3. QED BY <1>1, <1>2

(* The variables keep their types; a flag is raised only for a loop that runs
   (runEngineLoop, runCycleLoop and the procedures that stop them). *)
THEOREM EngineTypes == Spec => []TypeOK
BY TypeInit, TypeStep, PTL DEF Spec
-----------------------------------------------------------------------------
(* Nothing crosses from one project to the next *)

(* A call under way has taken care of the loops it has looked for: they are waited for, or
   they have been started too late or have outlasted the wait. *)
Caught(o) ==
  op[o].kind /= "interview" =>
    /\ op[o].pc = "scanCycles" /\ Synthesis \in Running
         => Synthesis \in op[o].waiting \cup excused
    /\ op[o].pc = "wait" => Running \subseteq op[o].waiting \cup excused
    /\ op[o].pc = "act" => Running \subseteq excused

CrossInv == StepsOwnProject /\ \A o \in Op : Caught(o)

LEMMA CrossInit == Init => CrossInv
BY DEF Init, CrossInv, StepsOwnProject, Caught, Idle

(* A step in which no loop begins to run and what is excused is kept for those that run
   leaves a call caught that does not move. *)
LEMMA CaughtKept ==
  ASSUME NEW o \in Op, Caught(o), op'[o] = op[o], Running' \subseteq Running,
         excused \cap Running' \subseteq excused'
  PROVE  Caught(o)'
BY DEF Caught

LEMMA CrossLoops ==
  ASSUME TypeOK, CrossInv, NEW c \in Cycle, Start(c) \/ Stop(c) \/ LoopStep(c)
  PROVE  CrossInv'
<1>1. CASE Start(c)
  <2>1. c \notin Running /\ c \notin behind /\ c \notin excused
    BY <1>1 DEF Start, Refused, TypeOK, Running, InStep
  <2>2. Running' = Running \cup {c}
    BY <1>1, <2>1 DEF Start, TypeOK, Running
  <2>3. excused \subseteq excused'
    BY <1>1, <2>1 DEF Start
  <2>4. StepsOwnProject'
    BY <1>1, <2>3 DEF Start, CrossInv, StepsOwnProject
  <2>5. ASSUME NEW o \in Op PROVE Caught(o)'
    <3>1. op' = op /\ Caught(o)
      BY <1>1, <2>5 DEF Start, CrossInv
    <3>2. CASE Passed(o, c)
      <4>1. c \in excused'
        BY <1>1, <3>2, <2>5 DEF Start
      <4>2. QED BY <2>2, <2>3, <3>1, <4>1 DEF Caught
    <3>3. CASE ~Passed(o, c)
      BY <2>2, <2>3, <3>1, <3>3 DEF Caught, Passed
    <3>4. QED BY <3>2, <3>3
  <2>6. QED BY <2>4, <2>5 DEF CrossInv
<1>2. CASE Stop(c)
  BY <1>2 DEF Stop, CrossInv, StepsOwnProject, Caught, Running
<1>3. CASE LoopStep(c)
  <2>1. LoopOnly(c) BY <1>3, LoopSteps
  <2>2. /\ op' = op /\ Running' \subseteq Running
        /\ excused \cap Running' \subseteq excused'
        /\ behind' \subseteq excused'
    <3>1. CASE Off(c)
      BY <2>1, <3>1 DEF LoopOnly, Off, TypeOK, Running, CrossInv, StepsOwnProject
    <3>2. CASE ~Off(c)
      BY <2>1, <3>2 DEF LoopOnly, TypeOK, Running, InStep, CrossInv, StepsOwnProject
    <3>3. QED BY <3>1, <3>2
  <2>3. QED BY <2>2, CaughtKept DEF CrossInv, StepsOwnProject
<1>4. QED BY <1>1, <1>2, <1>3

LEMMA CrossCalls ==
  ASSUME TypeOK, CrossInv, NEW o \in Op,
         \/ \E k \in Kinds : BeginStopping(o, k)
         \/ ScanSynthesis(o) \/ ScanCycles(o) \/ Waited(o) \/ Act(o) \/ Finish(o) \/ Fail(o)
  PROVE  CrossInv'
<1>0. op \in [Op -> Call] /\ Caught(o) BY DEF TypeOK, Call, CrossInv
<1>1. /\ Running' = Running /\ excused \subseteq excused'
      /\ \A p \in Op : p /= o => op'[p] = op[p]
  <2>1. CASE \E k \in Kinds : BeginStopping(o, k)
    BY <2>1, <1>0 DEF BeginStopping, Running, TypeOK
  <2>2. CASE ScanSynthesis(o) \/ ScanCycles(o)
    BY <2>2, <1>0 DEF ScanSynthesis, ScanCycles, Scan, Running
  <2>3. CASE Waited(o)
    BY <2>3, <1>0 DEF Waited, Running
  <2>4. CASE Act(o)
    BY <2>4, <1>0 DEF Act, Move, Running
  <2>5. CASE Finish(o) \/ Fail(o)
    BY <2>5, <1>0 DEF Finish, Fail, Running, loops
  <2>6. QED BY <2>1, <2>2, <2>3, <2>4, <2>5
<1>2. \A p \in Op : p /= o => Caught(p)'
  BY <1>1, CaughtKept DEF CrossInv
<1>3. Caught(o)'
  <2>1. CASE \E k \in Kinds : BeginStopping(o, k)
    BY <2>1, <1>0 DEF BeginStopping, Caught
  <2>2. CASE ScanSynthesis(o)
    <3>1. op'[o] = [pc |-> "scanCycles", kind |-> op[o].kind,
                    waiting |-> op[o].waiting \cup ({Synthesis} \cap Running)]
      BY <2>2, ScanFinds DEF ScanSynthesis, OpPC
    <3>2. QED BY <1>1, <3>1 DEF Caught
  <2>3. CASE ScanCycles(o)
    <3>1. op'[o] = [pc |-> "wait", kind |-> op[o].kind,
                    waiting |-> op[o].waiting \cup ((Cycle \ {Synthesis}) \cap Running)]
      BY <2>3, ScanFinds DEF ScanCycles, OpPC
    <3>2. Running \subseteq Cycle /\ op[o].pc = "scanCycles"
      BY <2>3 DEF Running, ScanCycles
    <3>3. QED BY <1>0, <1>1, <3>1, <3>2 DEF Caught
  <2>4. CASE Waited(o)
    <3>1. op'[o].pc = "act" /\ op'[o].kind = op[o].kind /\ op[o].pc = "wait"
      BY <2>4, <1>0 DEF Waited, Call
    <3>2. op[o].kind /= "interview" => Running \subseteq excused'
      BY <2>4, <1>0 DEF Waited, Caught
    <3>3. QED BY <1>1, <3>1, <3>2 DEF Caught
  <2>5. CASE Act(o) \/ Finish(o) \/ Fail(o)
    <3>1. op'[o].pc \in {"idle", "caches"}
      BY <2>5, <1>0 DEF Act, Finish, Fail, Move, Idle, Call
    <3>2. QED BY <3>1 DEF Caught
  <2>6. QED BY <2>1, <2>2, <2>3, <2>4, <2>5
<1>4. behind' \subseteq excused'
  <2>1. CASE Act(o)
    <3>1. Running \subseteq excused
      BY <2>1, <1>0 DEF Act, Caught
    <3>2. QED BY <2>1, <3>1 DEF Act, Running, InStep
  <2>2. CASE ~Act(o)
    <3>1. behind' = behind
      BY <2>2 DEF BeginStopping, ScanSynthesis, ScanCycles, Scan, Waited, Finish, Fail, loops
    <3>2. QED BY <1>1, <3>1 DEF CrossInv, StepsOwnProject
  <2>3. QED BY <2>1, <2>2
<1>5. QED BY <1>2, <1>3, <1>4 DEF CrossInv, StepsOwnProject

LEMMA CrossStep == TypeOK /\ CrossInv /\ [Next]_vars => CrossInv'
<1> SUFFICES ASSUME TypeOK, CrossInv, [Next]_vars PROVE CrossInv' OBVIOUS
<1>1. CASE UNCHANGED <<loops, op>>
  BY <1>1 DEF CrossInv, StepsOwnProject, Caught, Running, loops
<1>2. CASE ~UNCHANGED <<loops, op>>
  <2>1. \/ \E c \in Cycle : Start(c) \/ Stop(c) \/ LoopStep(c)
        \/ \E o \in Op : \/ \E k \in Kinds : BeginStopping(o, k)
                         \/ ScanSynthesis(o) \/ ScanCycles(o) \/ Waited(o)
                         \/ Act(o) \/ Finish(o) \/ Fail(o)
    BY <1>2 DEF Next, vars, Acquire, EndPolling, AutoRelease, LabOffline, Released
  <2>2. QED BY <2>1, CrossLoops, CrossCalls
<1>3. QED BY <1>1, <1>2

(* A step in progress works on what it read from the project that is open, except in a loop
   that was started after a switch or a rollback had looked for it, or that outlasted its
   wait (stopAllBackgroundServices, executeRollback, runEngineLoop, runCycleLoop). *)
THEOREM NothingCrosses == Spec => []StepsOwnProject
<1>1. Init => CrossInv BY CrossInit
<1>2. TypeOK /\ CrossInv /\ [Next]_vars => CrossInv' BY CrossStep
<1>3. CrossInv => StepsOwnProject BY DEF CrossInv
<1>4. QED BY <1>1, <1>2, <1>3, EngineTypes, PTL DEF Spec
-----------------------------------------------------------------------------
(* The resource lock *)

LEMMA LockInit == Init => LockIsOwed
BY DEF Init, LockIsOwed

LEMMA LockStep == TypeOK /\ LockIsOwed /\ [Next]_vars => LockIsOwed'
<1> SUFFICES ASSUME TypeOK, LockIsOwed, [Next]_vars PROVE LockIsOwed' OBVIOUS
<1>1. CASE UNCHANGED locking
  BY <1>1 DEF LockIsOwed, locking, Polling
<1>2. CASE \E j \in Job : Acquire(j)
  BY <1>2 DEF Acquire, LockIsOwed, Polling, TypeOK
<1>3. CASE (\E j \in Job : EndPolling(j)) \/ AutoRelease \/ LabOffline
  <2>1. Release
    BY <1>3 DEF EndPolling, AutoRelease, LabOffline, Released
  <2>2. QED BY <2>1 DEF Release, LockIsOwed
<1>4. CASE ~UNCHANGED locking
  <2>1. (\E j \in Job : Acquire(j) \/ EndPolling(j)) \/ AutoRelease \/ LabOffline
    BY <1>4 DEF Next, vars, Start, Stop, LoopStep, LoopStops, LoopIsDone, BeginStep, CallModel,
       Answer, Aborts, EndStep, BeginStopping, ScanSynthesis, ScanCycles, Scan, Waited, Act,
       Finish, Fail
  <2>2. QED BY <1>2, <1>3, <2>1
<1>5. QED BY <1>1, <1>4

(* The lock is held by a job that is polled, with a timer that will release it, and the
   loops are paused exactly as long (acquireResourceLock, releaseResourceLock). *)
THEOREM LockNeverOutlivesWork == Spec => []LockIsOwed
BY LockInit, LockStep, EngineTypes, PTL DEF Spec

-----------------------------------------------------------------------------
(* Stops *)

(* No loop begins to work when it is told to stop. *)
LEMMA BeginsUnlessStopped ==
  ASSUME TypeOK, Next, NEW c \in Cycle, pc[c] = "idle", pc'[c] = "ready"
  PROVE  ~stop[c]
<1>1. \/ \E d \in Cycle : Start(d) \/ Stop(d) \/ LoopStep(d)
      \/ \E o \in Op, k \in Kinds : BeginStopping(o, k)
  BY DEF Next, ScanSynthesis, ScanCycles, Scan, Waited, Act, Finish, Fail, Acquire, EndPolling,
         AutoRelease, LabOffline, Released, loops
<1>2. ASSUME NEW o \in Op, NEW k \in Kinds PROVE ~BeginStopping(o, k)
  BY <1>2 DEF BeginStopping, TypeOK
<1>3. PICK d \in Cycle : Start(d) \/ Stop(d) \/ LoopStep(d)
  BY <1>1, <1>2
<1>4. ~Start(d) /\ ~Stop(d)
  BY DEF Start, Stop, TypeOK
<1>5. d = c
  BY <1>3, <1>4 DEF LoopStep, LoopStops, LoopIsDone, BeginStep, CallModel, Answer, Aborts,
                    EndStep, Off, TypeOK
<1>6. BeginStep(c)
  BY <1>3, <1>4, <1>5 DEF LoopStep, LoopStops, LoopIsDone, CallModel, Answer, Aborts,
                          EndStep, Off, TypeOK
<1>7. QED BY <1>6 DEF BeginStep

(* A loop that is told to stop begins no further step and forgets it only by ending, however
   many starts and stops there are at once (the running and shouldStop flags). *)
THEOREM StopsAreHonoured == Spec => StopHonoured
<1> DEFINE A == \A c \in Cycle : stop[c] =>
                  /\ stop'[c] \/ pc'[c] = "off"
                  /\ pc[c] = "idle" => pc'[c] /= "ready"
<1>1. TypeOK /\ [Next]_vars => [A]_vars
  <2> SUFFICES ASSUME TypeOK, Next, NEW c \in Cycle, stop[c]
               PROVE  /\ stop'[c] \/ pc'[c] = "off"
                      /\ pc[c] = "idle" => pc'[c] /= "ready"
    OBVIOUS
  <2>1. pc[c] = "idle" => pc'[c] /= "ready" BY BeginsUnlessStopped
  <2>2. stop'[c] \/ pc'[c] = "off"
    <3>1. CASE \E d \in Cycle : Start(d) \/ Stop(d)
      BY <3>1 DEF Start, Stop, Refused, TypeOK, Running
    <3>2. CASE \E d \in Cycle : LoopStep(d)
      BY <3>2, LoopSteps DEF LoopOnly, Off, TypeOK
    <3>3. CASE \E o \in Op : ScanSynthesis(o) \/ ScanCycles(o)
      BY <3>3 DEF ScanSynthesis, ScanCycles, Scan
    <3>4. CASE stop' = stop
      BY <3>4
    <3>5. QED
      BY <3>1, <3>2, <3>3, <3>4 DEF Next, BeginStopping, Waited, Act, Finish, Fail, Acquire,
         EndPolling, AutoRelease, LabOffline, Released, loops
  <2>3. QED BY <2>1, <2>2
<1>2. QED BY <1>1, EngineTypes, PTL DEF Spec, StopHonoured
=============================================================================
