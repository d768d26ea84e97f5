-------------------------- MODULE KbPipeline_proofs --------------------------
(***************************************************************************)
(* Proofs about KbPipeline for every number of files, workers, calls and   *)
(* faults: the type invariant, that the counter of the running jobs is     *)
(* their number and keeps its limit (CountsJobs), that no file is left     *)
(* processing or pending by jobs that ended (ProcessingHasJob,             *)
(* PendingHasJob), and that no place stays empty while a job waits         *)
(* (NoIdleCapacity).                                                       *)
(*                                                                         *)
(* The last is not inductive alone: what is queued during a stop is held   *)
(* back whatever the capacity, which matters after the resume.  HeldBack   *)
(* says that too.                                                          *)
(***************************************************************************)
EXTENDS KbPipeline, SequenceTheorems, FiniteSetTheorems, TLAPS

Item == [file : File, priority : {0, 1}]
Jobs == [Worker -> [pc : JobPC, file : File] \cup {Free}]
OpenPC == {"mark", "read", "finish", "fail"}

\* Of values, so that they can be said of the states between two steps: the workers that
\* run a job, that a job of file f has yet to write how it ends, that one waits in q
Running(jobs)    == {w \in Worker : jobs[w] # Free}
Runs(jobs, f)    == \E w \in Worker : jobs[w] # Free /\ jobs[w].file = f /\ jobs[w].pc \in OpenPC
Waiting(q, f)    == \E i \in 1..Len(q) : q[i].file = f

\* The calls that are under way
Calls == [pc : {"next", "reset", "enqueue"}, kind : Kinds, found : SUBSET File, todo : SUBSET File,
          file : File \cup {NoFile}, new : BOOLEAN, any : BOOLEAN]

\* The counter of the running jobs, of values.
Counted(active, jobs) == active = Cardinality(Running(jobs)) /\ active <= MaxConcurrency

\* A job waits in vain only until the next one is queued or ends: during a stop, and for
\* what was queued then.
HeldBack ==
  queue # <<>> /\ (stopRequested \/ activeJobs < MaxConcurrency) => heldBack

\* A call is about to queue file f.
ToQueue(f) == \E c \in Caller : caller[c].pc = "enqueue" /\ caller[c].file = f

\* ProcessingHasJob and PendingHasJob, of one file.
Processed(f) ==
  status[f] = "processing" => Runs(job, f) \/ f \in unreported \/ starting.pc = "files"
Awaited(f) ==
  status[f] = "pending" =>
    \/ Waiting(queue, f) \/ Runs(job, f) \/ ToQueue(f)
    \/ starting.pc \in {"files", "folders", "select"} \/ f \in starting.files
    \/ f \in dropped \/ f \in unreported

\* A call that resets or queues a file has one.
Named == \A c \in Caller : caller[c].pc \in {"reset", "enqueue"} => caller[c].file \in File

IInv ==
  /\ TypeOK /\ Named
  /\ Counted(activeJobs, job) /\ HeldBack
  /\ \A f \in File : Processed(f) /\ Awaited(f)

\* The inductive invariant says what the four invariants do, and HeldBack.
LEMMA InvariantsFollow ==
  ASSUME IInv
  PROVE  CountsJobs /\ ProcessingHasJob /\ PendingHasJob /\ NoIdleCapacity
<1>1. DOMAIN queue = 1..Len(queue)
  BY LenProperties DEF IInv, TypeOK
<1>2. Busy = Running(job)
  BY DEF Busy, Running
<1>3. \A f \in File : /\ Runs(job, f) => \E w \in On(f) : Open(w)
                      /\ Waiting(queue, f) <=> Queued(f)
  BY <1>1 DEF Busy, On, Open, Running, Runs, OpenPC, Queued, Waiting
<1>4. CountsJobs /\ NoIdleCapacity
  BY <1>2 DEF IInv, Counted, CountsJobs, HeldBack, NoIdleCapacity
<1>5. ProcessingHasJob
  BY <1>3 DEF IInv, Processed, ProcessingHasJob
<1>6. PendingHasJob
  BY <1>3 DEF IInv, Awaited, ToQueue, Has, PendingHasJob
<1> QED
  BY <1>4, <1>5, <1>6
-----------------------------------------------------------------------------
(* Operators *)

\* Sets of workers are finite.
LEMMA RunningFinite ==
  ASSUME NEW W, W \subseteq Worker
  PROVE  IsFiniteSet(W) /\ Cardinality(W) \in Nat
<1>1. IsFiniteSet(W)
  BY FS_Subset, KbAssumption
<1> QED
  BY <1>1, FS_CardinalityType

\* The sequence of a finite set holds each of its elements, once.
LEMMA SequenceOfSet ==
  ASSUME NEW S, IsFiniteSet(S)
  PROVE  LET s == SetToSeq(S)
         IN  /\ s \in [1..Cardinality(S) -> S] /\ s \in Seq(S) /\ Len(s) = Cardinality(S)
             /\ \A i, j \in 1..Cardinality(S) : s[i] = s[j] => i = j
             /\ \A x \in S : \E i \in 1..Cardinality(S) : s[i] = x
<1> DEFINE n == Cardinality(S)
           s == SetToSeq(S)
<1>1. n \in Nat /\ ExistsBijection(1..n, S)
  BY FS_CardinalityType
<1>2. PICK b : b \in [1..n -> S] /\ IsInjective(b)
  BY <1>1 DEF ExistsBijection, Bijection, Injection
<1>3. s \in [1..n -> S] /\ IsInjective(s)
  BY <1>2 DEF SetToSeq
<1>4. s \in Injection(1..n, S)
  BY <1>3 DEF Injection
<1>5. Cardinality(1..n) = n
  BY <1>1, FS_Interval
<1>6. s \in Surjection(1..n, S)
  BY <1>4, <1>5, FS_Injection
<1>7. s \in Seq(S) /\ Len(s) = n
  BY <1>1, <1>3, SeqDef, LenProperties
<1> HIDE DEF s
<1>8. \A i, j \in 1..n : s[i] = s[j] => i = j
  BY <1>3 DEF IsInjective
<1>9. \A x \in S : \E i \in 1..n : s[i] = x
  BY <1>6 DEF Surjection
<1> QED
  BY <1>3, <1>7, <1>8, <1>9 DEF s

\* A set of numbers that is not empty has a least element.
LEMMA NatLeast ==
  ASSUME NEW L, L \subseteq Nat, L # {}
  PROVE  \E k \in L : \A j \in L : k <= j
<1>1. PICK k \in L : \A j \in L : ~(<<j, k>> \in OpToRel(<, Nat))
  BY NatLessThanWellFounded, WFMin
<1>2. \A j \in L : ~(j < k)
  BY <1>1 DEF OpToRel
<1> QED
  BY <1>2

\* enqueue puts the job into the queue, and loses none.
LEMMA InsertedInQueue ==
  ASSUME NEW q \in Seq(Item), NEW f \in File, NEW p \in {0, 1}
  PROVE  /\ Inserted(q, f, p) \in Seq(Item)
         /\ Inserted(q, f, p) # <<>>
         /\ Waiting(Inserted(q, f, p), f)
         /\ \A g \in File : Waiting(q, g) => Waiting(Inserted(q, f, p), g)
<1> DEFINE P(k) == /\ k = Len(q) + 1 \/ q[k].priority < p
                   /\ \A j \in 1..k - 1 : q[j].priority >= p
           at == CHOOSE k \in 1..Len(q) + 1 : P(k)
           e == [file |-> f, priority |-> p]
           r == Inserted(q, f, p)
<1>1. Len(q) \in Nat /\ \A i \in 1..Len(q) : q[i] \in Item
  BY LenProperties, ElementOfSeq
<1>2. \E k \in 1..Len(q) + 1 : P(k)
  <2>1. CASE \A i \in 1..Len(q) : q[i].priority >= p
    BY <1>1, <2>1
  <2>2. CASE p = 1 /\ \E i \in 1..Len(q) : q[i].priority = 0
    <3> DEFINE L == {i \in 1..Len(q) : q[i].priority = 0}
    <3>1. PICK k \in L : \A j \in L : k <= j
      <4>1. L \subseteq Nat /\ L # {}
        BY <1>1, <2>2
      <4> QED
        BY <4>1, NatLeast
    <3>2. \A j \in 1..k - 1 : j \in 1..Len(q) /\ j \notin L
      BY <1>1, <3>1
    <3>3. \A j \in 1..k - 1 : q[j].priority >= p
      BY <1>1, <3>2 DEF Item
    <3> QED
      BY <1>1, <2>2, <3>1, <3>3
  <2> QED
    <3>1. \A i \in 1..Len(q) : q[i].priority \in {0, 1}
      BY <1>1 DEF Item
    <3>2. \A i \in 1..Len(q) : q[i].priority >= p \/ (p = 1 /\ q[i].priority = 0)
      BY <3>1
    <3> QED
      BY <2>1, <2>2, <3>2
<1>3. at \in 1..Len(q) + 1
  BY <1>2
<1>4. r = InsertAt(q, at, e) /\ e \in Item /\ e.file = f
  BY DEF Inserted, Item
<1> HIDE DEF at, e, r, P
<1>5. r = SubSeq(q, 1, at - 1) \o <<e>> \o SubSeq(q, at, Len(q))
  BY <1>4 DEF InsertAt
<1> DEFINE a == SubSeq(q, 1, at - 1)
           b == SubSeq(q, at, Len(q))
           c == a \o <<e>>
<1>6. /\ a \in Seq(Item) /\ Len(a) = at - 1 /\ \A i \in 1..at - 1 : a[i] = q[i]
  <2>1. \A i \in 1..at - 1 : q[i] \in Item
    BY <1>1, <1>3
  <2> QED
    BY <1>1, <1>3, <2>1, SubSeqProperties
<1>7. /\ b \in Seq(Item) /\ Len(b) = Len(q) - at + 1 /\ \A i \in 1..Len(q) - at + 1 : b[i] = q[at + i - 1]
  <2>1. \A i \in at..Len(q) : q[i] \in Item
    BY <1>1, <1>3
  <2> QED
    BY <1>1, <1>3, <2>1, SubSeqProperties
<1>8. <<e>> \in Seq(Item) /\ Len(<<e>>) = 1 /\ <<e>>[1] = e
  BY <1>4
<1> HIDE DEF a, b
<1>9. /\ c \in Seq(Item) /\ Len(c) = at
      /\ \A i \in 1..at : c[i] = IF i <= at - 1 THEN a[i] ELSE <<e>>[i - (at - 1)]
  BY <1>1, <1>3, <1>6, <1>8, ConcatProperties
<1> HIDE DEF c
<1>10. /\ r \in Seq(Item) /\ Len(r) = Len(q) + 1
       /\ \A i \in 1..Len(q) + 1 : r[i] = IF i <= at THEN c[i] ELSE b[i - at]
  <2>1. r = c \o b
    BY <1>5 DEF a, b, c
  <2> QED
    BY <1>1, <1>3, <1>7, <1>9, <2>1, ConcatProperties
<1>11. r[at].file = f
  BY <1>1, <1>3, <1>4, <1>8, <1>9, <1>10
<1>12. \A i \in 1..Len(q) : \E j \in 1..Len(r) : r[j] = q[i]
  <2> SUFFICES ASSUME NEW i \in 1..Len(q) PROVE \E j \in 1..Len(r) : r[j] = q[i]
    OBVIOUS
  <2>1. CASE i < at
    <3>1. i \in 1..at - 1 /\ i \in 1..at /\ i \in 1..Len(q) + 1 /\ i <= at /\ i <= at - 1
      BY <1>1, <1>3, <2>1
    <3>2. r[i] = c[i] /\ c[i] = a[i] /\ a[i] = q[i]
      BY <1>6, <1>9, <1>10, <3>1
    <3> QED
      BY <1>10, <3>1, <3>2
  <2>2. CASE i >= at
    <3>1. i + 1 \in 1..Len(r) /\ r[i + 1] = b[i + 1 - at]
      BY <1>1, <1>3, <1>10, <2>2
    <3>2. b[i + 1 - at] = q[i]
      <4>1. i + 1 - at \in 1..Len(q) - at + 1 /\ at + (i + 1 - at) - 1 = i
        BY <1>1, <1>3, <2>2
      <4> QED
        BY <1>7, <4>1
    <3> QED
      BY <3>1, <3>2
  <2> QED
    BY <1>1, <1>3, <2>1, <2>2
<1>13. Len(r) # 0 /\ at \in 1..Len(r)
  BY <1>1, <1>3, <1>10
<1>14. Waiting(r, f)
  BY <1>11, <1>13 DEF Waiting
<1>15. \A g \in File : Waiting(q, g) => Waiting(r, g)
  BY <1>12 DEF Waiting
<1>16. r # <<>>
  BY <1>13, EmptySeq
<1> QED
  BY <1>10, <1>14, <1>15, <1>16 DEF r
-----------------------------------------------------------------------------
(* processNext *)

\* What processNext, on queue q with the jobs running, leaves: as many jobs run as are
\* counted, those that ran go on, the file of a job that left the queue has one running,
\* and what still waits either has no place or is held back.
Drained(q, jobs) ==
  /\ queue' \in Seq(Item) /\ job' \in Jobs /\ activeJobs' \in Nat /\ heldBack' \in BOOLEAN
  /\ activeJobs' = Cardinality(Running(job')) /\ activeJobs' <= MaxConcurrency
  /\ \A f \in File : Runs(jobs, f) => Runs(job', f)
  /\ \A f \in File : Waiting(q, f) => Waiting(queue', f) \/ Runs(job', f)
  /\ queue' # <<>> /\ (stopRequested \/ activeJobs' < MaxConcurrency) => heldBack'

\* processNext does so.
LEMMA ProcessNextDrains ==
  ASSUME stopRequested \in BOOLEAN, heldBack \in BOOLEAN,
         NEW q \in Seq(Item), NEW jobs \in Jobs, NEW active \in Nat,
         active = Cardinality(Running(jobs)), active <= MaxConcurrency,
         ProcessNext(q, active, jobs)
  PROVE  Drained(q, jobs)
<1> DEFINE F == {w \in Worker : jobs[w] = Free}
           free == SetToSeq(F)
           m == Cardinality(F)
           P(k) == /\ k <= Capacity(active) /\ k <= Len(free)
                   /\ k = Len(q) \/ k = Capacity(active) \/ k = Len(free)
           n == IF stopRequested THEN 0 ELSE CHOOSE k \in 0..Len(q) : P(k)
           begun == {free[i] : i \in 1..n}
           item(w) == q[CHOOSE i \in 1..n : free[i] = w]
<1>1. /\ queue' = SubSeq(q, n + 1, Len(q))
      /\ activeJobs' = active + n
      /\ job' = [w \in Worker |-> IF w \in begun THEN [pc |-> "mark", file |-> item(w).file] ELSE jobs[w]]
      /\ heldBack' = IF stopRequested THEN heldBack \/ q # <<>> ELSE FALSE
  BY DEF ProcessNext
<1>2. IsFiniteSet(F) /\ m \in Nat
  BY RunningFinite
<1>3. /\ free \in [1..m -> F] /\ Len(free) = m
      /\ \A i, j \in 1..m : free[i] = free[j] => i = j
  BY <1>2, SequenceOfSet
<1>4. Len(q) \in Nat /\ \A i \in 1..Len(q) : q[i] \in Item
  BY LenProperties, ElementOfSeq
<1>5. Capacity(active) \in Nat /\ active + Capacity(active) = MaxConcurrency
  BY KbAssumption DEF Capacity
<1>6. m >= Capacity(active)
  <2>1. /\ IsFiniteSet(Running(jobs)) /\ Cardinality(Running(jobs)) \in Nat
    BY RunningFinite DEF Running
  <2>2. Worker = Running(jobs) \cup F /\ Running(jobs) \cap F = {}
    BY DEF Running
  <2>3. Cardinality(Worker) = Cardinality(Running(jobs)) + m - Cardinality({})
    BY <1>2, <2>1, <2>2, FS_Union
  <2>4. Cardinality({}) = 0
    BY FS_EmptySet
  <2> QED
    BY <1>2, <1>5, <2>1, <2>3, <2>4, KbAssumption
<1> HIDE DEF F, free, m
<1>7. \E k \in 0..Len(q) : P(k)
  <2>1. CASE Len(q) <= Capacity(active)
    BY <1>2, <1>3, <1>4, <1>5, <1>6, <2>1
  <2>2. CASE Len(q) > Capacity(active)
    BY <1>2, <1>3, <1>4, <1>5, <1>6, <2>2
  <2> QED
    BY <1>4, <1>5, <2>1, <2>2
<1>8. /\ n \in 0..Len(q) /\ n <= Capacity(active) /\ n <= m
      /\ ~stopRequested => n = Len(q) \/ n = Capacity(active)
  <2>1. CASE stopRequested
    BY <1>2, <1>4, <1>5, <2>1
  <2>2. CASE ~stopRequested
    <3>1. n = CHOOSE k \in 0..Len(q) : P(k)
      BY <2>2
    <3>2. n \in 0..Len(q) /\ P(n)
      BY <1>7, <3>1
    <3> QED
      BY <1>2, <1>3, <1>5, <1>6, <3>2
  <2> QED
    BY <2>1, <2>2
<1> HIDE DEF n
<1>9. n \in Nat /\ 1..n \subseteq 1..m /\ 1..n \subseteq 1..Len(q)
  BY <1>2, <1>4, <1>8
<1>10. begun \subseteq F /\ \A w \in begun : item(w) \in Item /\ \E i \in 1..n : free[i] = w /\ item(w) = q[i]
  <2>1. ASSUME NEW w \in begun
        PROVE  w \in F /\ item(w) \in Item /\ \E i \in 1..n : free[i] = w /\ item(w) = q[i]
    <3>1. PICK i \in 1..n : free[i] = w
      BY <2>1
    <3> DEFINE k == CHOOSE k \in 1..n : free[k] = w
    <3>2. k \in 1..n /\ free[k] = w /\ item(w) = q[k]
      BY <3>1
    <3> QED
      BY <1>3, <1>4, <1>9, <3>1, <3>2
  <2> QED
    BY <2>1
<1>11. \A i \in 1..n : free[i] \in begun /\ item(free[i]) = q[i]
  <2> SUFFICES ASSUME NEW i \in 1..n PROVE free[i] \in begun /\ item(free[i]) = q[i]
    OBVIOUS
  <2>1. PICK j \in 1..n : free[j] = free[i] /\ item(free[i]) = q[j]
    BY <1>10
  <2> QED
    BY <1>3, <1>9, <2>1
<1>12. Cardinality(begun) = n /\ IsFiniteSet(begun)
  <2> DEFINE b == [i \in 1..n |-> free[i]]
  <2>1. b \in Injection(1..n, begun)
    BY <1>3, <1>9 DEF Injection, IsInjective
  <2>2. b \in Surjection(1..n, begun)
    BY DEF Surjection
  <2>3. ExistsBijection(1..n, begun)
    BY <2>1, <2>2 DEF ExistsBijection, Bijection
  <2>4. begun \subseteq Worker
    BY <1>10 DEF F
  <2> QED
    BY <1>9, <2>3, <2>4, FS_CountingElements, RunningFinite
<1> DEFINE it == [w \in begun |-> item(w).file]
<1>13. /\ \A w \in begun : it[w] \in File /\ \A i \in 1..n : free[i] = w => it[w] = q[i].file
       /\ job' = [w \in Worker |-> IF w \in begun THEN [pc |-> "mark", file |-> it[w]] ELSE jobs[w]]
  <2>1. \A w \in begun : it[w] \in File
    BY <1>10 DEF Item
  <2>2. \A w \in begun : \A i \in 1..n : free[i] = w => it[w] = q[i].file
    BY <1>11
  <2>3. job' = [w \in Worker |-> IF w \in begun THEN [pc |-> "mark", file |-> it[w]] ELSE jobs[w]]
    BY <1>1
  <2> QED
    BY <2>1, <2>2, <2>3
<1> HIDE DEF it, item
<1>14. \A w \in begun : w \in Worker /\ jobs[w] = Free
  BY <1>10 DEF F
<1>15. \A w \in begun : /\ job'[w] # Free /\ job'[w].file = it[w] /\ job'[w].pc = "mark"
  BY <1>13, <1>14 DEF Free
<1>16. \A w \in Worker \ begun : job'[w] = jobs[w]
  BY <1>13
<1>17. job' \in Jobs
  BY <1>13 DEF Jobs, JobPC
<1>18. Running(job') = Running(jobs) \cup begun /\ Running(jobs) \cap begun = {}
  BY <1>14, <1>15, <1>16 DEF Running
<1>19. activeJobs' = Cardinality(Running(job')) /\ activeJobs' <= MaxConcurrency /\ activeJobs' \in Nat
  <2>1. IsFiniteSet(Running(jobs)) /\ Cardinality(Running(jobs)) \in Nat
    BY RunningFinite DEF Running
  <2>2. Cardinality(Running(job')) = Cardinality(Running(jobs)) + Cardinality(begun) - Cardinality({})
    BY <1>12, <1>18, <2>1, FS_Union
  <2>3. Cardinality({}) = 0
    BY FS_EmptySet
  <2> QED
    BY <1>1, <1>5, <1>8, <1>9, <1>12, <2>1, <2>2, <2>3, KbAssumption
<1>20. /\ queue' \in Seq(Item) /\ Len(queue') = Len(q) - n
       /\ \A i \in 1..Len(q) - n : queue'[i] = q[n + i]
  <2>1. \A i \in n + 1..Len(q) : q[i] \in Item
    BY <1>4, <1>9
  <2> DEFINE r == SubSeq(q, n + 1, Len(q))
  <2>2. /\ r \in Seq(Item) /\ Len(r) = IF n + 1 <= Len(q) THEN Len(q) - (n + 1) + 1 ELSE 0
        /\ \A i \in 1..Len(q) - (n + 1) + 1 : r[i] = q[n + 1 + i - 1]
    BY <1>4, <1>9, <2>1, SubSeqProperties
  <2>3. queue' = r
    BY <1>1
  <2> HIDE DEF r
  <2> QED
    BY <1>4, <1>8, <2>2, <2>3
<1>21. ASSUME NEW f \in File, Runs(jobs, f) PROVE Runs(job', f)
  BY <1>14, <1>16, <1>21 DEF Runs
<1>22. ASSUME NEW f \in File, Waiting(q, f) PROVE Waiting(queue', f) \/ Runs(job', f)
  <2>1. PICK i \in 1..Len(q) : q[i].file = f
    BY <1>22 DEF Waiting
  <2>2. CASE i <= n
    <3>1. i \in 1..n /\ free[i] \in begun
      BY <1>11, <1>9, <2>2
    <3>2. it[free[i]] = f
      BY <1>13, <2>1, <3>1
    <3> QED
      BY <1>14, <1>15, <3>1, <3>2 DEF Runs, OpenPC
  <2>3. CASE i > n
    <3>1. i - n \in 1..Len(q) - n /\ n + (i - n) = i
      BY <1>4, <1>9, <2>3
    <3>2. queue'[i - n] = q[i]
      BY <1>20, <3>1
    <3> QED
      BY <1>20, <2>1, <3>1, <3>2 DEF Waiting
  <2> QED
    BY <1>9, <2>2, <2>3
<1>23. heldBack' \in BOOLEAN /\ (queue' # <<>> /\ (stopRequested \/ activeJobs' < MaxConcurrency) => heldBack')
  <2>1. CASE stopRequested
    <3>1. queue' # <<>> => q # <<>>
      <4>1. Len(queue') # 0 => Len(q) # 0
        BY <1>4, <1>20, <1>9
      <4> QED
        BY <1>20, <4>1, EmptySeq
    <3> QED
      BY <1>1, <2>1, <3>1
  <2>2. CASE ~stopRequested
    <3>1. CASE n = Len(q)
      <4>1. Len(queue') = 0
        BY <1>4, <1>20, <3>1
      <4>2. queue' = <<>>
        BY <1>20, <4>1, EmptySeq
      <4> QED
        BY <1>1, <2>2, <4>2
    <3>2. CASE n = Capacity(active)
      BY <1>1, <1>5, <2>2, <3>2, KbAssumption
    <3> QED
      BY <1>8, <2>2, <3>1, <3>2
  <2> QED
    BY <2>1, <2>2
<1> QED
  BY <1>17, <1>19, <1>20, <1>21, <1>22, <1>23 DEF Drained

\* The finally block: the job is over, its place free or taken by the next.
LEMMA EndJobDrains ==
  ASSUME TypeOK, Counted(activeJobs, job), HeldBack, NEW w \in Worker,
         job[w].pc \in {"count", "look", "settle"}, EndJob(w)
  PROVE  Drained(queue, job)
<1> DEFINE jobs == [job EXCEPT ![w] = Free]
<1>0. /\ queue \in Seq(Item) /\ job \in Jobs /\ activeJobs \in Nat
      /\ stopRequested \in BOOLEAN /\ heldBack \in BOOLEAN
  BY DEF TypeOK, Item, Jobs
<1>1. jobs \in Jobs /\ job[w] # Free
  BY <1>0 DEF Jobs, Free
<1>2. Running(jobs) = Running(job) \ {w} /\ w \in Running(job)
  BY <1>0, <1>1 DEF Running, Jobs
<1>3. Counted(activeJobs - 1, jobs) /\ activeJobs - 1 \in Nat
  <2>1. IsFiniteSet(Running(job)) /\ Cardinality(Running(job)) \in Nat
    BY RunningFinite DEF Running
  <2>2. Cardinality(Running(jobs)) = Cardinality(Running(job)) - 1
    BY <1>2, <2>1, FS_RemoveElement
  <2>3. Cardinality(Running(jobs)) \in Nat
    BY RunningFinite DEF Running
  <2> QED
    BY <2>1, <2>2, <2>3, KbAssumption DEF Counted
<1>4. ASSUME NEW f \in File, Runs(job, f) PROVE Runs(jobs, f)
  <2>1. PICK v \in Worker : job[v] # Free /\ job[v].file = f /\ job[v].pc \in OpenPC
    BY <1>4 DEF Runs
  <2>2. v # w
    BY <2>1 DEF OpenPC
  <2>3. jobs[v] = job[v]
    BY <2>2, <1>0 DEF Jobs
  <2> QED
    BY <2>1, <2>3 DEF Runs
<1>5. CASE stopRequested
  <2>1. job' = jobs /\ activeJobs' = activeJobs - 1 /\ queue' = queue /\ heldBack' = heldBack
    BY <1>5 DEF EndJob
  <2> QED
    BY <1>0, <1>1, <1>3, <1>4, <1>5, <2>1 DEF Drained, Counted, HeldBack
<1>6. CASE ~stopRequested
  <2>1. ProcessNext(queue, activeJobs - 1, jobs)
    BY <1>6 DEF EndJob
  <2> HIDE DEF jobs
  <2>2. Drained(queue, jobs)
    BY <1>0, <1>1, <1>3, <2>1, ProcessNextDrains DEF Counted
  <2> QED
    BY <1>4, <2>2 DEF Drained
<1> QED
  BY <1>0, <1>5, <1>6
-----------------------------------------------------------------------------
(* Steps of a job *)

\* A job that goes on to point p of its processing.
LEMMA JobGoesOn ==
  ASSUME job \in Jobs, NEW w \in Worker, job[w] # Free, NEW p \in JobPC, Step(w, p)
  PROVE  /\ job' \in Jobs /\ Running(job') = Running(job)
         /\ job[w].file \in File /\ job'[w].file = job[w].file /\ job'[w].pc = p /\ job'[w] # Free
         /\ \A v \in Worker \ {w} : job'[v] = job[v]
         /\ p \in OpenPC => Runs(job', job[w].file)
         /\ \A f \in File : f # job[w].file \/ p \in OpenPC => (Runs(job, f) => Runs(job', f))
<1>1. job[w] \in [pc : JobPC, file : File]
  BY DEF Jobs
<1>2. job' = [job EXCEPT ![w] = [job[w] EXCEPT !.pc = p]]
  BY DEF Step
<1> DEFINE r == [job[w] EXCEPT !.pc = p]
<1>3. r \in [pc : JobPC, file : File] /\ r.pc = p /\ r.file = job[w].file
  BY <1>1
<1>4. job' = [job EXCEPT ![w] = r]
  BY <1>2
<1> HIDE DEF r
<1>5. r # Free
  BY <1>3 DEF Free, JobPC
<1>6. job' \in Jobs /\ job'[w] = r /\ \A v \in Worker \ {w} : job'[v] = job[v]
  BY <1>3, <1>4 DEF Jobs
<1>7. Running(job') = Running(job)
  BY <1>5, <1>6 DEF Running
<1>8. p \in OpenPC => Runs(job', job[w].file)
  BY <1>3, <1>5, <1>6 DEF Runs
<1>9. \A f \in File : f # job[w].file \/ p \in OpenPC => (Runs(job, f) => Runs(job', f))
  BY <1>3, <1>5, <1>6 DEF Runs
<1> QED
  BY <1>1, <1>3, <1>5, <1>6, <1>7, <1>8, <1>9

\* A step of a job that moves on and leaves the queue alone keeps the counter, and what is
\* held back.
LEMMA MovesOnCounts ==
  ASSUME Counted(activeJobs, job), HeldBack, Running(job') = Running(job),
         UNCHANGED <<queue, activeJobs, stopRequested, heldBack>>
  PROVE  Counted(activeJobs, job)' /\ HeldBack'
BY DEF Counted, HeldBack

\* The steps before the end of a job.
LEMMA ProcessingKeeps ==
  ASSUME IInv, NEW w \in Worker,
         Mark(w) \/ Read(w) \/ Skip(w) \/ Finish(w) \/ Throw(w) \/ Report(w) \/ ReportLost(w)
  PROVE  IInv'
<1> DEFINE g == job[w].file
<1>0. TypeOK /\ job \in Jobs /\ status \in [File -> Status] /\ Counted(activeJobs, job) /\ HeldBack
  BY DEF IInv, TypeOK, Jobs
<1>1. /\ UNCHANGED <<folder, memory, caller, stopping, starting, calls, heldBack, dropped>>
      /\ faults' \in 0..MaxFaults
  <2>1. faults \in 0..MaxFaults /\ (faults < MaxFaults => faults + 1 \in 0..MaxFaults)
    BY <1>0, KbAssumption DEF TypeOK
  <2> QED
    BY <2>1 DEF Mark, Read, Skip, Finish, Throw, Report, ReportLost, bounded, history
<1>2. PICK p \in {"read", "finish", "fail", "count"} :
        /\ Step(w, p) /\ job[w] # Free
        /\ \/ p = "read" /\ SetStatus(w, "processing") /\ unreported' = unreported \ {g}
           \/ p \in {"finish", "fail"} /\ status' = status /\ unreported' = unreported
           \/ p = "count" /\ (\E st \in {"skipped", "completed", "error"} : SetStatus(w, st))
                          /\ unreported' = unreported
           \/ p = "count" /\ status' = status /\ unreported' = unreported \cup {g}
  <2>1. job[w].pc # "free" => job[w] # Free
    BY DEF Free
  <2> QED
    BY <2>1 DEF Mark, Read, Skip, Finish, Throw, Report, ReportLost, bounded, history
<1>3. /\ job' \in Jobs /\ Running(job') = Running(job)
      /\ g \in File
      /\ p \in OpenPC => Runs(job', g)
      /\ \A f \in File : f # g \/ p \in OpenPC => (Runs(job, f) => Runs(job', f))
  <2>1. p \in JobPC
    BY DEF JobPC
  <2> QED
    BY <1>0, <1>2, <2>1, JobGoesOn
<1>4. /\ status' \in [File -> Status] /\ unreported' \subseteq File
      /\ \A f \in File \ {g} : status'[f] = status[f] /\ (f \in unreported => f \in unreported')
      /\ \/ p = "read" /\ status'[g] = "processing"
         \/ p \in {"finish", "fail"} /\ status' = status /\ unreported' = unreported
         \/ p = "count" /\ (status'[g] \in {"skipped", "completed", "error"} \/ g \in unreported')
  BY <1>0, <1>2, <1>3 DEF SetStatus, Status, TypeOK
<1>5. TypeOK'
  BY <1>0, <1>1, <1>3, <1>4 DEF TypeOK, memory, Jobs
<1>6. Counted(activeJobs, job)' /\ HeldBack'
  BY <1>0, <1>1, <1>3, MovesOnCounts DEF memory
<1>8. Named'
  BY <1>1 DEF IInv, Named
<1>7. ASSUME NEW f \in File PROVE Processed(f)' /\ Awaited(f)'
  <2>1. Processed(f) /\ Awaited(f)
    BY DEF IInv
  <2>2. UNCHANGED <<queue, caller, starting, dropped>>
    BY <1>1 DEF memory
  <2>3. ToQueue(f)' <=> ToQueue(f)
    BY <2>2 DEF ToQueue
  <2>4. CASE f # g
    BY <1>3, <1>4, <2>1, <2>2, <2>3, <2>4 DEF Processed, Awaited
  <2>5. CASE f = g
    BY <1>3, <1>4, <2>1, <2>2, <2>3, <2>5 DEF Processed, Awaited, OpenPC
  <2> QED
    BY <2>4, <2>5
<1> QED
  BY <1>5, <1>6, <1>7, <1>8 DEF IInv

\* The end of a job.
LEMMA EndingKeeps ==
  ASSUME IInv, NEW w \in Worker, Count(w) \/ Look(w) \/ Settle(w) \/ CheckFails(w)
  PROVE  IInv'
<1>0. TypeOK /\ job \in Jobs /\ Counted(activeJobs, job) /\ HeldBack
  BY DEF IInv, TypeOK, Jobs
<1>1. /\ UNCHANGED <<status, stopRequested, caller, stopping, starting, bounded, dropped, unreported>>
      /\ folder' \in Folder /\ job[w].pc \in {"count", "look", "settle"}
  BY <1>0 DEF TypeOK, Count, Look, Settle, CheckFails, Folder
<1>2. EndJob(w) \/ \E p \in {"look", "settle"} : Step(w, p) /\ UNCHANGED <<queue, activeJobs, heldBack>>
  BY DEF Count, Look, Settle, CheckFails
<1>3. /\ queue' \in Seq(Item) /\ job' \in Jobs /\ activeJobs' \in Nat /\ heldBack' \in BOOLEAN
      /\ Counted(activeJobs, job)' /\ HeldBack'
      /\ \A f \in File : Runs(job, f) => Runs(job', f)
      /\ \A f \in File : Waiting(queue, f) => Waiting(queue', f) \/ Runs(job', f)
  <2>1. CASE EndJob(w)
    <3>1. Drained(queue, job)
      BY <1>0, <1>1, <2>1, EndJobDrains
    <3> QED
      BY <1>1, <3>1 DEF Drained, Counted, HeldBack
  <2>2. ASSUME NEW p \in {"look", "settle"}, Step(w, p), UNCHANGED <<queue, activeJobs, heldBack>>
        PROVE  /\ queue' \in Seq(Item) /\ job' \in Jobs /\ activeJobs' \in Nat /\ heldBack' \in BOOLEAN
               /\ Counted(activeJobs, job)' /\ HeldBack'
               /\ \A f \in File : Runs(job, f) => Runs(job', f)
               /\ \A f \in File : Waiting(queue, f) => Waiting(queue', f) \/ Runs(job', f)
    <3>1. job[w] # Free /\ p \in JobPC
      BY <1>1 DEF Free, JobPC
    <3>2. /\ job' \in Jobs /\ Running(job') = Running(job)
          /\ \A v \in Worker \ {w} : job'[v] = job[v]
      BY <1>0, <2>2, <3>1, JobGoesOn
    <3>3. \A f \in File : Runs(job, f) => Runs(job', f)
      <4>1. job[w].pc \notin OpenPC
        BY <1>1 DEF OpenPC
      <4> QED
        BY <3>2, <4>1 DEF Runs
    <3>4. Counted(activeJobs, job)' /\ HeldBack'
      BY <1>0, <1>1, <2>2, <3>2, MovesOnCounts
    <3> QED
      BY <1>0, <2>2, <3>2, <3>3, <3>4 DEF TypeOK, Item
  <2> QED
    BY <1>2, <2>1, <2>2
<1>4. TypeOK'
  BY <1>0, <1>1, <1>3 DEF TypeOK, Item, Jobs, bounded
<1>5. ASSUME NEW f \in File PROVE Processed(f)' /\ Awaited(f)'
  <2>1. Processed(f) /\ Awaited(f)
    BY DEF IInv
  <2>2. ToQueue(f)' <=> ToQueue(f)
    BY <1>1 DEF ToQueue
  <2> QED
    BY <1>1, <1>3, <2>1, <2>2 DEF Processed, Awaited
<1>6. Named'
  BY <1>1 DEF IInv, Named
<1> QED
  BY <1>3, <1>4, <1>5, <1>6 DEF IInv
-----------------------------------------------------------------------------
(* Steps of a call that queues files *)

\* A call that goes on.
LEMMA CallGoesOn ==
  ASSUME caller \in [Caller -> {Gone} \cup Calls], NEW c \in Caller, NEW e \in {Gone} \cup Calls,
         Named, e.pc \in {"reset", "enqueue"} => e.file \in File,
         caller' = [caller EXCEPT ![c] = e]
  PROVE  /\ caller' \in [Caller -> {Gone} \cup Calls] /\ Named'
         /\ \A f \in File : ToQueue(f) => ToQueue(f)' \/ (caller[c].pc = "enqueue" /\ caller[c].file = f)
         /\ e.pc = "enqueue" => ToQueue(e.file)'
<1>1. /\ caller' \in [Caller -> {Gone} \cup Calls]
      /\ caller'[c] = e /\ \A d \in Caller \ {c} : caller'[d] = caller[d]
  OBVIOUS
<1>2. Named'
  BY <1>1 DEF Named
<1>3. \A f \in File : ToQueue(f) => ToQueue(f)' \/ (caller[c].pc = "enqueue" /\ caller[c].file = f)
  BY <1>1 DEF ToQueue
<1>4. e.pc = "enqueue" => ToQueue(e.file)'
  BY <1>1 DEF ToQueue
<1> QED
  BY <1>1, <1>2, <1>3, <1>4

\* The fields of a call after an assignment to one of them.
LEMMA CallAssigned ==
  ASSUME NEW r \in Calls
  PROVE  /\ \A x \in {"next", "reset", "enqueue"} : /\ [r EXCEPT !.pc = x] \in Calls
                                                    /\ [r EXCEPT !.pc = x].pc = x
                                                    /\ [r EXCEPT !.pc = x].file = r.file
         /\ \A x \in SUBSET File : /\ [r EXCEPT !.todo = x] \in Calls
                                   /\ [r EXCEPT !.todo = x].pc = r.pc
                                   /\ [r EXCEPT !.todo = x].file = r.file
         /\ \A x \in File \cup {NoFile} : /\ [r EXCEPT !.file = x] \in Calls
                                          /\ [r EXCEPT !.file = x].pc = r.pc
                                          /\ [r EXCEPT !.file = x].file = x
         /\ \A x \in BOOLEAN : /\ [r EXCEPT !.new = x] \in Calls
                               /\ [r EXCEPT !.new = x].pc = r.pc
                               /\ [r EXCEPT !.new = x].file = r.file
         /\ \A x \in BOOLEAN : /\ [r EXCEPT !.any = x] \in Calls
                               /\ [r EXCEPT !.any = x].pc = r.pc
                               /\ [r EXCEPT !.any = x].file = r.file
BY DEF Calls

\* A step of a call that leaves the jobs and the queue alone keeps the invariant, if every
\* file it makes pending, or no longer queues, is accounted for.
LEMMA CallKeeps ==
  ASSUME IInv, UNCHANGED <<memory, job, stopping, starting, heldBack>>,
         status' \in [File -> Status], folder' \in Folder, caller' \in [Caller -> {Gone} \cup Calls],
         Named', calls' \in 0..MaxCalls, faults' = faults,
         dropped' \in SUBSET File, unreported' \in SUBSET File,
         \A f \in File : /\ status'[f] = "processing" =>
                              status[f] = "processing" /\ (f \in unreported => f \in unreported')
                         /\ status'[f] = "pending" =>
                              \/ ToQueue(f)' \/ f \in dropped'
                              \/ /\ status[f] = "pending" /\ ~ToQueue(f)
                                 /\ (f \in dropped \cup unreported => f \in dropped' \cup unreported')
  PROVE  IInv'
<1>0. TypeOK /\ Counted(activeJobs, job) /\ HeldBack
  BY DEF IInv
<1>1. UNCHANGED <<queue, activeJobs, stopRequested, job, stopping, starting, heldBack>>
  BY DEF memory
<1>2. TypeOK'
  BY <1>0, <1>1 DEF TypeOK, Calls
<1>3. Counted(activeJobs, job)' /\ HeldBack'
  BY <1>0, <1>1 DEF Counted, HeldBack
<1>4. ASSUME NEW f \in File PROVE Processed(f)' /\ Awaited(f)'
  <2>1. Processed(f) /\ Awaited(f)
    BY DEF IInv
  <2>2. Processed(f)'
    BY <1>1, <2>1 DEF Processed
  <2>3. Awaited(f)'
    BY <1>1, <2>1 DEF Awaited
  <2> QED
    BY <2>2, <2>3
<1> QED
  BY <1>2, <1>3, <1>4 DEF IInv

\* The steps of a call before it queues a file, and around that.
LEMMA CallingKeeps ==
  ASSUME IInv, NEW c \in Caller,
         \/ \E k \in Kinds : \E todo \in Todo(k) : BeginCall(c, k, todo)
         \/ \E f \in File : PassOver(c, f) \/ TakeUp(c, f) \/ MarkDeleted(c, f)
         \/ Reset(c) \/ EndCall(c) \/ FailCall(c)
  PROVE  IInv'
<1>0. /\ TypeOK /\ Named /\ caller \in [Caller -> {Gone} \cup Calls]
      /\ status \in [File -> Status] /\ folder \in Folder
      /\ dropped \in SUBSET File /\ unreported \in SUBSET File /\ calls \in 0..MaxCalls
  BY DEF IInv, TypeOK, Calls
<1>1. ASSUME NEW k \in Kinds, NEW todo \in Todo(k), BeginCall(c, k, todo) PROVE IInv'
  <2> DEFINE e == [pc |-> "next", kind |-> k, found |-> todo, todo |-> todo, file |-> NoFile,
                   new |-> FALSE, any |-> FALSE]
  <2>1. todo \in SUBSET File
    BY KbAssumption DEF Todo
  <2>2. e \in Calls /\ e.pc = "next"
    BY <2>1 DEF Calls
  <2>3. /\ caller' = [caller EXCEPT ![c] = e] /\ folder' \in Folder /\ caller[c].pc # "enqueue"
        /\ UNCHANGED <<status, memory, job, stopping, starting, faults, heldBack, dropped, unreported>>
    BY <1>0, <1>1 DEF BeginCall, Folder, Has, history
  <2>4. calls' \in 0..MaxCalls
    BY <1>0, <1>1, KbAssumption DEF BeginCall
  <2> HIDE DEF e
  <2>5. /\ caller' \in [Caller -> {Gone} \cup Calls] /\ Named'
        /\ \A f \in File : ToQueue(f) => ToQueue(f)'
    BY <1>0, <2>2, <2>3, CallGoesOn
  <2> QED
    BY <1>0, <2>3, <2>4, <2>5, CallKeeps
<1>2. ASSUME NEW f \in File, PassOver(c, f) PROVE IInv'
  <2> DEFINE x == caller[c].todo \ {f}
             e == [caller[c] EXCEPT !.todo = x]
  <2>1. caller[c] \in Calls /\ caller[c].pc = "next"
    BY <1>0, <1>2 DEF PassOver, Has, Gone
  <2>2. x \in SUBSET File
    BY <2>1 DEF Calls
  <2>3. /\ caller' = [caller EXCEPT ![c] = e]
        /\ UNCHANGED <<status, folder, memory, job, stopping, starting, calls, faults, heldBack, dropped,
                       unreported>>
    BY <1>0, <1>2 DEF PassOver, history, bounded
  <2> HIDE DEF x
  <2>4. e \in Calls /\ e.pc = "next"
    BY <2>1, <2>2, CallAssigned
  <2> HIDE DEF e
  <2>5. /\ caller' \in [Caller -> {Gone} \cup Calls] /\ Named'
        /\ \A g \in File : ToQueue(g) => ToQueue(g)'
    BY <1>0, <2>1, <2>3, <2>4, CallGoesOn
  <2> QED
    BY <1>0, <2>3, <2>5, CallKeeps
<1>3. ASSUME NEW f \in File, TakeUp(c, f) PROVE IInv'
  <2> DEFINE x == caller[c].todo \ {f}
             n == status[f] = "none"
             e1 == [caller[c] EXCEPT !.todo = x]
             e2 == [e1 EXCEPT !.pc = "reset"]
             e3 == [e2 EXCEPT !.file = f]
             e4 == [e3 EXCEPT !.new = n]
  <2>1. caller[c] \in Calls /\ caller[c].pc = "next"
    <3>1. caller[c].pc = "next"
      BY <1>3 DEF TakeUp, Has
    <3> QED
      BY <1>0, <3>1 DEF Gone
  <2>2. x \in SUBSET File /\ n \in BOOLEAN
    BY <2>1 DEF Calls
  <2>3. /\ caller' = [caller EXCEPT ![c] = e4]
        /\ UNCHANGED <<status, folder, memory, job, stopping, starting, calls, faults, heldBack, dropped,
                       unreported>>
    BY <1>0, <1>3 DEF TakeUp, history, bounded
  <2> HIDE DEF x, n
  <2>4. e1 \in Calls
    BY <2>1, <2>2, CallAssigned
  <2> HIDE DEF e1
  <2>5. e2 \in Calls /\ e2.pc = "reset"
    BY <2>4, CallAssigned
  <2> HIDE DEF e2
  <2>6. e3 \in Calls /\ e3.pc = "reset" /\ e3.file = f
    <3>1. f \in File \cup {NoFile}
      OBVIOUS
    <3> QED
      BY <2>5, <3>1 DEF Calls
  <2> HIDE DEF e3
  <2>7. e4 \in Calls /\ e4.pc = "reset" /\ e4.file = f
    BY <2>2, <2>6, CallAssigned
  <2> HIDE DEF e4
  <2>8. /\ caller' \in [Caller -> {Gone} \cup Calls] /\ Named'
        /\ \A g \in File : ToQueue(g) => ToQueue(g)'
    BY <1>0, <2>1, <2>3, <2>7, CallGoesOn
  <2> QED
    BY <1>0, <2>3, <2>8, CallKeeps
<1>4. ASSUME NEW f \in File, MarkDeleted(c, f) PROVE IInv'
  <2>1. /\ status' = [status EXCEPT ![f] = "deleted"]
        /\ UNCHANGED <<folder, memory, job, caller, stopping, starting, calls, faults, heldBack, dropped,
                       unreported>>
    BY <1>4 DEF MarkDeleted, history, bounded
  <2>2. /\ status' \in [File -> Status] /\ status'[f] = "deleted"
        /\ \A g \in File \ {f} : status'[g] = status[g]
    BY <1>0, <2>1 DEF Status
  <2>3. Named' /\ \A g \in File : ToQueue(g) <=> ToQueue(g)'
    BY <1>0, <2>1 DEF Named, ToQueue
  <2> QED
    BY <1>0, <2>1, <2>2, <2>3, CallKeeps
<1>5. CASE Reset(c)
  <2>1. caller[c] \in Calls /\ caller[c].pc = "reset" /\ caller[c].file \in File
    BY <1>0, <1>5 DEF Reset, Has, Gone, Named
  <2>2. PICK g \in File : g = caller[c].file
    BY <2>1
  <2>3. /\ caller' = [caller EXCEPT ![c].pc = "enqueue"]
        /\ status' = [status EXCEPT ![g] = "pending"] /\ unreported' = unreported \ {g}
        /\ UNCHANGED <<folder, memory, job, stopping, starting, calls, faults, heldBack, dropped>>
    BY <1>0, <1>5, <2>2 DEF Reset, bounded
  <2>4. PICK e : e = [caller[c] EXCEPT !.pc = "enqueue"]
    OBVIOUS
  <2>5. e \in Calls /\ e.pc = "enqueue" /\ e.file = g
    BY <2>1, <2>2, <2>4, CallAssigned
  <2>6. caller' = [caller EXCEPT ![c] = e]
    BY <2>3, <2>4
  <2>7. /\ caller' \in [Caller -> {Gone} \cup Calls] /\ Named' /\ ToQueue(g)'
        /\ \A f \in File : ToQueue(f) => ToQueue(f)'
    <3>1. /\ caller' \in [Caller -> {Gone} \cup Calls] /\ Named'
          /\ \A f \in File : ToQueue(f) => ToQueue(f)' \/ (caller[c].pc = "enqueue" /\ caller[c].file = f)
          /\ ToQueue(e.file)'
      BY <1>0, <2>5, <2>6, CallGoesOn
    <3> QED
      BY <2>1, <2>5, <3>1
  <2>8. /\ status' \in [File -> Status] /\ status'[g] = "pending" /\ unreported' \in SUBSET File
        /\ \A f \in File \ {g} : status'[f] = status[f] /\ (f \in unreported => f \in unreported')
    BY <1>0, <2>3 DEF Status
  <2> QED
    BY <1>0, <2>3, <2>7, <2>8, CallKeeps
<1>6. CASE EndCall(c)
  <2>1. /\ caller' = [caller EXCEPT ![c] = Gone] /\ caller[c].pc = "next" /\ folder' \in Folder
        /\ UNCHANGED <<status, memory, job, stopping, starting, calls, faults, heldBack, dropped, unreported>>
    BY <1>0, <1>6 DEF EndCall, Has, history, bounded, Folder
  <2>2. /\ caller' \in [Caller -> {Gone} \cup Calls] /\ Named'
        /\ \A f \in File : ToQueue(f) => ToQueue(f)'
    BY <1>0, <2>1, CallGoesOn DEF Gone
  <2> QED
    BY <1>0, <2>1, <2>2, CallKeeps
<1>7. CASE FailCall(c)
  <2> DEFINE g == caller[c].file
  <2>1. /\ caller' = [caller EXCEPT ![c] = Gone] /\ folder' \in Folder
        /\ dropped' = IF caller[c].pc = "enqueue" THEN dropped \cup {g} ELSE dropped
        /\ UNCHANGED <<status, memory, job, stopping, starting, calls, faults, heldBack, unreported>>
    BY <1>0, <1>7 DEF FailCall, Has, bounded, Folder
  <2>2. caller[c].pc = "enqueue" => g \in File
    BY <1>0 DEF Named
  <2>3. /\ caller' \in [Caller -> {Gone} \cup Calls] /\ Named'
        /\ \A f \in File : ToQueue(f) => ToQueue(f)' \/ (caller[c].pc = "enqueue" /\ caller[c].file = f)
    BY <1>0, <2>1, CallGoesOn DEF Gone
  <2>4. dropped' \in SUBSET File /\ dropped \subseteq dropped' /\ (caller[c].pc = "enqueue" => g \in dropped')
    BY <1>0, <2>1, <2>2
  <2> QED
    BY <1>0, <2>1, <2>3, <2>4, CallKeeps
<1> QED
  BY <1>1, <1>2, <1>3, <1>4, <1>5, <1>6, <1>7

\* A file is queued.
LEMMA EnqueueKeeps ==
  ASSUME IInv, NEW c \in Caller, Enqueue(c)
  PROVE  IInv'
<1> DEFINE g == caller[c].file
           pr == Priority(caller[c].kind)
           q == Inserted(queue, g, pr)
           e1 == [caller[c] EXCEPT !.pc = "next"]
           e2 == [e1 EXCEPT !.file = NoFile]
           e3 == [e2 EXCEPT !.any = TRUE]
<1>0. /\ TypeOK /\ Named /\ caller \in [Caller -> {Gone} \cup Calls]
      /\ queue \in Seq(Item) /\ job \in Jobs /\ activeJobs \in Nat /\ stopRequested \in BOOLEAN
      /\ heldBack \in BOOLEAN /\ Counted(activeJobs, job)
  BY DEF IInv, TypeOK, Calls, Item, Jobs
<1>1. caller[c] \in Calls /\ caller[c].pc = "enqueue" /\ g \in File /\ pr \in {0, 1}
  BY <1>0 DEF Enqueue, Has, Gone, Named, Priority
<1>2. /\ ProcessNext(q, activeJobs, job) /\ caller' = [caller EXCEPT ![c] = e3]
      /\ dropped' = dropped \ {g}
      /\ UNCHANGED <<status, folder, stopRequested, stopping, starting, bounded, unreported>>
  BY <1>0 DEF Enqueue
<1>3. e1 \in Calls
  BY <1>1, CallAssigned
<1> HIDE DEF e1
<1>4. e2 \in Calls /\ e2.pc = "next"
  <2>1. e1.pc = "next" /\ NoFile \in File \cup {NoFile}
    BY <1>1, CallAssigned DEF e1
  <2> QED
    BY <1>3, <2>1, CallAssigned
<1> HIDE DEF e2
<1>5. e3 \in Calls /\ e3.pc = "next"
  BY <1>4, CallAssigned
<1> HIDE DEF e3, q, pr
<1>6. /\ q \in Seq(Item) /\ Waiting(q, g)
      /\ \A f \in File : Waiting(queue, f) => Waiting(q, f)
  BY <1>0, <1>1, InsertedInQueue DEF q
<1> HIDE DEF g
<1>7. Drained(q, job)
  BY <1>0, <1>2, <1>6, ProcessNextDrains DEF Counted
<1>8. /\ caller' \in [Caller -> {Gone} \cup Calls] /\ Named'
      /\ \A f \in File : ToQueue(f) => ToQueue(f)' \/ f = g
  BY <1>0, <1>2, <1>5, CallGoesOn DEF g
<1>9. TypeOK'
  BY <1>0, <1>2, <1>7, <1>8 DEF TypeOK, Drained, Item, Jobs, Calls, bounded
<1>10. Counted(activeJobs, job)' /\ HeldBack'
  BY <1>2, <1>7 DEF Drained, Counted, HeldBack
<1>11. ASSUME NEW f \in File PROVE Processed(f)' /\ Awaited(f)'
  <2>1. Processed(f) /\ Awaited(f)
    BY DEF IInv
  <2>2. /\ Runs(job, f) => Runs(job', f)
        /\ Waiting(q, f) => Waiting(queue', f) \/ Runs(job', f)
    BY <1>7 DEF Drained
  <2>3. f # g /\ f \in dropped => f \in dropped'
    BY <1>2
  <2> QED
    BY <1>2, <1>6, <1>8, <2>1, <2>2, <2>3 DEF Processed, Awaited
<1> QED
  BY <1>8, <1>9, <1>10, <1>11 DEF IInv
-----------------------------------------------------------------------------
(* The watcher, stop, resume, crash and start *)

\* A file that is seen to go, and a watcher that starts or stops.
LEMMA WatchingKeeps ==
  ASSUME IInv, (\E f \in File : Unlink(f)) \/ Watcher
  PROVE  IInv'
<1>0. TypeOK /\ Named /\ Counted(activeJobs, job) /\ HeldBack /\ status \in [File -> Status]
  BY DEF IInv, TypeOK
<1>1. /\ UNCHANGED <<queue, activeJobs, stopRequested, job, caller, stopping, starting, faults,
                     heldBack, dropped, unreported>>
      /\ status' \in [File -> Status] /\ folder' \in Folder /\ calls' \in 0..MaxCalls
      /\ \A f \in File : status'[f] = status[f] \/ status'[f] = "skipped"
  <2>1. calls \in 0..MaxCalls /\ (calls < MaxCalls => calls + 1 \in 0..MaxCalls) /\ folder \in Folder
    BY <1>0, KbAssumption DEF TypeOK
  <2>2. CASE Watcher
    BY <1>0, <2>1, <2>2 DEF Watcher, memory, history, Folder
  <2>3. ASSUME NEW g \in File, Unlink(g)
        PROVE  /\ UNCHANGED <<queue, activeJobs, stopRequested, job, caller, stopping, starting, faults,
                              heldBack, dropped, unreported>>
               /\ status' \in [File -> Status] /\ folder' \in Folder /\ calls' \in 0..MaxCalls
               /\ \A f \in File : status'[f] = status[f] \/ status'[f] = "skipped"
    BY <1>0, <2>1, <2>3 DEF Unlink, memory, history, Status
  <2> QED
    BY <2>2, <2>3
<1>2. TypeOK' /\ Named'
  BY <1>0, <1>1 DEF TypeOK, Named
<1>3. Counted(activeJobs, job)' /\ HeldBack'
  BY <1>0, <1>1 DEF Counted, HeldBack
<1>4. ASSUME NEW f \in File PROVE Processed(f)' /\ Awaited(f)'
  <2>1. Processed(f) /\ Awaited(f)
    BY DEF IInv
  <2>2. ToQueue(f)' <=> ToQueue(f)
    BY <1>1 DEF ToQueue
  <2>3. status'[f] = status[f] \/ status'[f] = "skipped"
    BY <1>1
  <2> QED
    BY <1>1, <2>1, <2>2, <2>3 DEF Processed, Awaited
<1> QED
  BY <1>2, <1>3, <1>4 DEF IInv

\* A stop empties the queue, and remembers what was in it.
LEMMA StopKeeps ==
  ASSUME IInv, Stop
  PROVE  IInv'
<1>0. TypeOK /\ Named /\ Counted(activeJobs, job)
  BY DEF IInv
<1>1. /\ UNCHANGED <<status, folder, activeJobs, job, caller, starting, calls, unreported>>
      /\ queue' = <<>> /\ stopRequested' = TRUE /\ heldBack' = FALSE /\ stopping' = "files"
      /\ dropped' = dropped \cup {f \in File : Queued(f)} /\ faults' \in 0..MaxFaults
  BY <1>0, KbAssumption DEF Stop, TypeOK
<1>2. <<>> \in Seq(Item)
  BY EmptySeq
<1>3. TypeOK' /\ Named'
  BY <1>0, <1>1, <1>2 DEF TypeOK, Named, Item
<1>4. Counted(activeJobs, job)' /\ HeldBack'
  BY <1>0, <1>1 DEF Counted, HeldBack
<1>5. \A f \in File : Waiting(queue, f) => f \in dropped'
  <2>1. DOMAIN queue = 1..Len(queue)
    BY <1>0, LenProperties DEF TypeOK
  <2> QED
    BY <1>1, <2>1 DEF Waiting, Queued
<1>6. ASSUME NEW f \in File PROVE Processed(f)' /\ Awaited(f)'
  <2>1. Processed(f) /\ Awaited(f)
    BY DEF IInv
  <2>2. ToQueue(f)' <=> ToQueue(f)
    BY <1>1 DEF ToQueue
  <2>3. f \in dropped => f \in dropped'
    BY <1>1
  <2> QED
    BY <1>1, <1>5, <2>1, <2>2, <2>3 DEF Processed, Awaited
<1> QED
  BY <1>3, <1>4, <1>6 DEF IInv

\* What the reset of the files leaves: none is processing, and one that was is pending
\* with its job still running, or remembered as dropped.
LEMMA FilesReset ==
  ASSUME IInv, ResetFiles
  PROVE  /\ status' \in [File -> Status] /\ dropped' \subseteq File /\ unreported' \subseteq File
         /\ \A f \in File : /\ status'[f] # "processing"
                            /\ status'[f] = "pending" /\ status[f] # "pending" =>
                                 Runs(job, f) \/ f \in dropped'
                            /\ status[f] = "pending" => (f \in unreported => f \in unreported')
                            /\ f \in dropped => f \in dropped'
<1>0. TypeOK /\ status \in [File -> Status] /\ dropped \subseteq File /\ unreported \subseteq File
  BY DEF IInv, TypeOK
<1> DEFINE stuck == {f \in File : status[f] = "processing"}
<1>1. /\ status' = [f \in File |-> IF f \in stuck THEN "pending" ELSE status[f]]
      /\ dropped' = dropped \cup {f \in stuck : ~\E w \in On(f) : Open(w)}
      /\ unreported' = unreported \ stuck
  BY DEF ResetFiles
<1>2. \A f \in File : (\E w \in On(f) : Open(w)) => Runs(job, f)
  BY DEF On, Busy, Open, Runs, OpenPC
<1>3. status' \in [File -> Status] /\ dropped' \subseteq File /\ unreported' \subseteq File
  BY <1>0, <1>1 DEF Status
<1>4. ASSUME NEW f \in File
      PROVE  /\ status'[f] # "processing"
             /\ status'[f] = "pending" /\ status[f] # "pending" => Runs(job, f) \/ f \in dropped'
             /\ status[f] = "pending" => (f \in unreported => f \in unreported')
             /\ f \in dropped => f \in dropped'
  BY <1>1, <1>2
<1> QED
  BY <1>3, <1>4

\* The reset of the files and of the folder, by a stop or by the start, and the resume.
LEMMA ResetKeeps ==
  ASSUME IInv, StopFiles \/ StopFolders \/ RecoverFiles \/ RecoverFolders \/ SelectPending
  PROVE  IInv'
<1>0. /\ TypeOK /\ Named /\ Counted(activeJobs, job) /\ HeldBack
      /\ starting \in [pc : {"files", "folders", "select", "requeue", "done"}, files : SUBSET File]
      /\ folder \in Folder /\ stopping \in {"no", "files", "folders"}
  BY DEF IInv, TypeOK
<1>1. /\ UNCHANGED <<queue, activeJobs, stopRequested, job, caller, bounded, heldBack>>
      /\ stopping' \in {"no", "files", "folders"} /\ folder' \in Folder
  BY <1>0 DEF StopFiles, StopFolders, RecoverFiles, RecoverFolders, SelectPending, ResetFolder, memory,
              history, Folder
<1>2. /\ status' \in [File -> Status] /\ dropped' \subseteq File /\ unreported' \subseteq File
      /\ starting' \in [pc : {"files", "folders", "select", "requeue", "done"}, files : SUBSET File]
      /\ \A f \in File :
           /\ status'[f] = "processing" =>
                 status[f] = "processing" /\ (starting'.pc = starting.pc \/ starting.pc # "files")
           /\ \/ status'[f] = "pending" /\ status[f] # "pending" => Runs(job, f) \/ f \in dropped'
              \/ starting'.pc \in {"folders", "select"}
           /\ f \in unreported => (status'[f] # "processing" /\ status[f] = "processing") \/ f \in unreported'
           /\ f \in dropped => f \in dropped'
           /\ status'[f] = "pending" =>
                \/ starting'.pc = starting.pc /\ starting'.files = starting.files
                \/ starting'.pc \in {"files", "folders", "select"}
                \/ f \in starting'.files
  <2>1. CASE StopFiles
    <3>1. ResetFiles /\ starting' = starting
      BY <2>1 DEF StopFiles
    <3> QED
      BY <1>0, <3>1, FilesReset DEF ResetFiles
  <2>2. CASE RecoverFiles
    <3>1. ResetFiles /\ starting' = [starting EXCEPT !.pc = "folders"]
      BY <2>2 DEF RecoverFiles
    <3>2. /\ starting'.pc = "folders"
          /\ starting' \in [pc : {"files", "folders", "select", "requeue", "done"}, files : SUBSET File]
      BY <1>0, <3>1
    <3> QED
      BY <3>1, <3>2, FilesReset DEF ResetFiles
  <2>3. CASE StopFolders \/ RecoverFolders \/ SelectPending
    <3>1. status' = status /\ dropped' = dropped /\ unreported' = unreported
      BY <2>3 DEF StopFolders, RecoverFolders, SelectPending, history
    <3>2. status \in [File -> Status] /\ dropped \subseteq File /\ unreported \subseteq File
      BY <1>0 DEF TypeOK
    <3>3. /\ starting' \in [pc : {"files", "folders", "select", "requeue", "done"}, files : SUBSET File]
          /\ \/ starting' = starting
             \/ starting.pc # "files" /\ starting'.pc = "select"
             \/ starting.pc # "files" /\ \A f \in File : status[f] = "pending" => f \in starting'.files
      BY <1>0, <2>3 DEF StopFolders, RecoverFolders, SelectPending
    <3>4. \A f \in File :
            /\ status'[f] = "processing" =>
                 status[f] = "processing" /\ (starting'.pc = starting.pc \/ starting.pc # "files")
            /\ status'[f] = "pending" =>
                 \/ starting'.pc = starting.pc /\ starting'.files = starting.files
                 \/ starting'.pc \in {"files", "folders", "select"}
                 \/ f \in starting'.files
      <4>1. CASE starting' = starting
        BY <3>1, <4>1
      <4>2. CASE starting.pc # "files" /\ starting'.pc = "select"
        BY <3>1, <4>2
      <4>3. CASE starting.pc # "files" /\ \A f \in File : status[f] = "pending" => f \in starting'.files
        BY <3>1, <4>3
      <4> QED
        BY <3>3, <4>1, <4>2, <4>3
    <3>5. \A f \in File :
            /\ \/ status'[f] = "pending" /\ status[f] # "pending" => Runs(job, f) \/ f \in dropped'
               \/ starting'.pc \in {"folders", "select"}
            /\ f \in unreported => (status'[f] # "processing" /\ status[f] = "processing") \/ f \in unreported'
            /\ f \in dropped => f \in dropped'
      BY <3>1
    <3>6. /\ status' \in [File -> Status] /\ dropped' \subseteq File /\ unreported' \subseteq File
          /\ starting' \in [pc : {"files", "folders", "select", "requeue", "done"}, files : SUBSET File]
      BY <3>1, <3>2, <3>3
    <3> QED
      BY <3>4, <3>5, <3>6
  <2> QED
    BY <2>1, <2>2, <2>3
<1>3. TypeOK' /\ Named'
  BY <1>0, <1>1, <1>2 DEF TypeOK, Named, bounded
<1>4. Counted(activeJobs, job)' /\ HeldBack'
  BY <1>0, <1>1 DEF Counted, HeldBack
<1>5. ASSUME NEW f \in File PROVE Processed(f)' /\ Awaited(f)'
  <2>1. Processed(f) /\ Awaited(f)
    BY DEF IInv
  <2>2. ToQueue(f)' <=> ToQueue(f)
    BY <1>1 DEF ToQueue
  <2>3. Processed(f)'
    BY <1>1, <1>2, <2>1 DEF Processed
  <2>4. Awaited(f)'
    BY <1>1, <1>2, <2>1, <2>2 DEF Awaited
  <2> QED
    BY <2>3, <2>4
<1> QED
  BY <1>3, <1>4, <1>5 DEF IInv

\* A resume looks for nothing in the queue: what the stop held back stays held back.
LEMMA ResumeKeeps ==
  ASSUME IInv, Resume
  PROVE  IInv'
<1>0. TypeOK /\ Named /\ Counted(activeJobs, job) /\ HeldBack
  BY DEF IInv
<1>1. /\ UNCHANGED <<status, folder, queue, activeJobs, job, caller, stopping, starting, bounded, heldBack,
                     dropped, unreported>>
      /\ stopRequested /\ stopRequested' = FALSE
  BY DEF Resume, history
<1>2. TypeOK' /\ Named'
  BY <1>0, <1>1 DEF TypeOK, Named, bounded
<1>3. Counted(activeJobs, job)' /\ HeldBack'
  BY <1>0, <1>1 DEF Counted, HeldBack
<1>4. ASSUME NEW f \in File PROVE Processed(f)' /\ Awaited(f)'
  <2>1. Processed(f) /\ Awaited(f)
    BY DEF IInv
  <2>2. ToQueue(f)' <=> ToQueue(f)
    BY <1>1 DEF ToQueue
  <2> QED
    BY <1>1, <2>1, <2>2 DEF Processed, Awaited
<1> QED
  BY <1>2, <1>3, <1>4 DEF IInv

\* A crash loses what is in memory; until the start has recovered, every file is excused.
LEMMA CrashKeeps ==
  ASSUME IInv, Crash
  PROVE  IInv'
<1>0. TypeOK
  BY DEF IInv
<1>1. /\ UNCHANGED <<status, folder, calls, dropped, unreported>> /\ faults' \in 0..MaxFaults
      /\ queue' = <<>> /\ activeJobs' = 0 /\ stopRequested' = FALSE /\ heldBack' = FALSE
      /\ job' = [w \in Worker |-> Free] /\ caller' = [c \in Caller |-> Gone]
      /\ stopping' = "no" /\ starting' = [pc |-> "files", files |-> {}]
  BY <1>0, KbAssumption DEF Crash, TypeOK
<1>2. Running(job') = {}
  BY <1>1 DEF Running
<1>3. Counted(activeJobs, job)'
  BY <1>1, <1>2, FS_EmptySet, KbAssumption DEF Counted
<1>4. HeldBack' /\ Named'
  BY <1>1 DEF HeldBack, Named, Gone
<1>5. <<>> \in Seq(Item) /\ starting'.pc = "files"
  BY <1>1, EmptySeq
<1>6. TypeOK'
  BY <1>0, <1>1, <1>5 DEF TypeOK, Item
<1>7. \A f \in File : Processed(f)' /\ Awaited(f)'
  BY <1>5 DEF Processed, Awaited
<1> QED
  BY <1>3, <1>4, <1>6, <1>7 DEF IInv

\* The start queues what it found pending or in error.
LEMMA RequeueKeeps ==
  ASSUME IInv, Requeue
  PROVE  IInv'
<1> DEFINE sel == starting.files
           bad == IF sel = {} THEN {} ELSE {f \in File : status[f] = "error"}
           all == SetToSeq(sel)
           more == [i \in 1..Len(all) |-> [file |-> all[i], priority |-> 0]]
           q == queue \o more
<1>0. /\ TypeOK /\ Named /\ Counted(activeJobs, job) /\ HeldBack
      /\ queue \in Seq(Item) /\ job \in Jobs /\ activeJobs \in Nat /\ stopRequested \in BOOLEAN
      /\ heldBack \in BOOLEAN /\ status \in [File -> Status] /\ sel \subseteq File /\ dropped \subseteq File
  BY DEF IInv, TypeOK, Item, Jobs
<1>1. /\ starting.pc = "requeue" /\ starting' = Started
      /\ status' = [f \in File |-> IF f \in bad THEN "pending" ELSE status[f]]
      /\ dropped' = (dropped \cup bad) \ sel
      /\ UNCHANGED <<folder, stopRequested, caller, stopping, bounded, unreported>>
      /\ sel = {} => UNCHANGED <<queue, activeJobs, job, heldBack>>
      /\ sel # {} => ProcessNext(q, activeJobs, job)
  BY DEF Requeue
<1>2. /\ q \in Seq(Item)
      /\ \A f \in File : Waiting(queue, f) \/ f \in sel => Waiting(q, f)
  <2>1. IsFiniteSet(sel)
    BY <1>0, FS_Subset, KbAssumption
  <2>2. /\ all \in Seq(sel) /\ Len(all) = Cardinality(sel)
        /\ \A f \in sel : \E i \in 1..Cardinality(sel) : all[i] = f
    BY <2>1, SequenceOfSet
  <2> HIDE DEF all
  <2>3. Len(all) \in Nat /\ \A i \in 1..Len(all) : all[i] \in File
    BY <1>0, <2>2, LenProperties, ElementOfSeq
  <2>4. more \in Seq(Item) /\ Len(more) = Len(all) /\ \A i \in 1..Len(all) : more[i].file = all[i]
    <3>1. more \in [1..Len(all) -> Item]
      BY <2>3 DEF Item
    <3> QED
      BY <2>3, <3>1, SeqDef, LenProperties
  <2> HIDE DEF more, sel
  <2>5. /\ q \in Seq(Item) /\ Len(q) = Len(queue) + Len(more) /\ Len(queue) \in Nat
        /\ \A i \in 1..Len(queue) + Len(more) : q[i] = IF i <= Len(queue) THEN queue[i] ELSE more[i - Len(queue)]
    BY <1>0, <2>4, ConcatProperties, LenProperties
  <2> HIDE DEF q
  <2>6. ASSUME NEW f \in File, Waiting(queue, f) PROVE Waiting(q, f)
    <3>1. PICK i \in 1..Len(queue) : queue[i].file = f
      BY <2>6 DEF Waiting
    <3>2. i \in 1..Len(q) /\ q[i] = queue[i]
      BY <2>3, <2>4, <2>5, <3>1
    <3> QED
      BY <3>1, <3>2 DEF Waiting
  <2>7. ASSUME NEW f \in File, f \in sel PROVE Waiting(q, f)
    <3>1. PICK i \in 1..Len(all) : all[i] = f
      BY <2>2, <2>7
    <3>2. /\ Len(queue) + i \in 1..Len(q) /\ Len(queue) + i \in 1..Len(queue) + Len(more)
          /\ ~(Len(queue) + i <= Len(queue)) /\ Len(queue) + i - Len(queue) = i
      BY <2>3, <2>4, <2>5, <3>1
    <3>3. q[Len(queue) + i] = more[i]
      BY <2>5, <3>2
    <3> QED
      BY <2>4, <3>1, <3>2, <3>3 DEF Waiting
  <2> QED
    BY <2>5, <2>6, <2>7
<1> HIDE DEF q
<1>3. /\ queue' \in Seq(Item) /\ job' \in Jobs /\ activeJobs' \in Nat /\ heldBack' \in BOOLEAN
      /\ Counted(activeJobs, job)' /\ HeldBack'
      /\ \A f \in File : Runs(job, f) => Runs(job', f)
      /\ \A f \in File : Waiting(queue, f) \/ f \in sel => Waiting(queue', f) \/ Runs(job', f)
  <2>1. CASE sel = {}
    BY <1>0, <1>1, <2>1 DEF Counted, HeldBack
  <2>2. CASE sel # {}
    <3>1. ProcessNext(q, activeJobs, job)
      BY <1>1, <2>2
    <3>2. Drained(q, job)
      BY <1>0, <1>2, <3>1, ProcessNextDrains DEF Counted
    <3> QED
      BY <1>1, <1>2, <3>2 DEF Drained, Counted, HeldBack
  <2> QED
    BY <2>1, <2>2
<1>4. /\ status' \in [File -> Status] /\ dropped' \subseteq File
      /\ starting' \in [pc : {"files", "folders", "select", "requeue", "done"}, files : SUBSET File]
  BY <1>0, <1>1 DEF Started, Status
<1>5. TypeOK' /\ Named'
  BY <1>0, <1>1, <1>3, <1>4 DEF TypeOK, Named, Item, Jobs, bounded
<1>6. ASSUME NEW f \in File PROVE Processed(f)' /\ Awaited(f)'
  <2>1. Processed(f) /\ Awaited(f)
    BY DEF IInv
  <2>2. ToQueue(f)' <=> ToQueue(f)
    BY <1>1 DEF ToQueue
  <2>3. Processed(f)'
    BY <1>1, <1>3, <2>1 DEF Processed
  <2>4. f \in dropped \/ f \in bad => f \in dropped' \/ f \in sel
    BY <1>1
  <2>5. status'[f] = "pending" => status[f] = "pending" \/ f \in bad
    BY <1>1
  <2>6. Awaited(f)'
    BY <1>1, <1>3, <2>1, <2>2, <2>4, <2>5 DEF Awaited
  <2> QED
    BY <2>3, <2>6
<1> QED
  BY <1>3, <1>5, <1>6 DEF IInv
-----------------------------------------------------------------------------
(* The inductive invariant *)

\* The initial states satisfy it.
LEMMA InitIInv == Init => IInv
<1> SUFFICES ASSUME Init PROVE IInv
  OBVIOUS
<1>1. Running(job) = {}
  BY DEF Init, Running
<1>2. Counted(activeJobs, job)
  BY <1>1, FS_EmptySet, KbAssumption DEF Init, Counted
<1>3. HeldBack /\ Named
  BY DEF Init, HeldBack, Named, Gone
<1>4. <<>> \in Seq([file : File, priority : {0, 1}])
  BY EmptySeq
<1>5. TypeOK
  <2>1. job \in [Worker -> [pc : JobPC, file : File] \cup {Free}]
    BY DEF Init
  <2>2. caller \in [Caller -> {Gone} \cup
          [pc : {"next", "reset", "enqueue"}, kind : Kinds, found : SUBSET File, todo : SUBSET File,
           file : File \cup {NoFile}, new : BOOLEAN, any : BOOLEAN]]
    BY DEF Init
  <2>3. status \in [File -> Status] /\ folder \in Folder
    BY DEF Init, Status, Folder
  <2>4. starting \in [pc : {"files", "folders", "select", "requeue", "done"}, files : SUBSET File]
    BY DEF Init, Started
  <2>5. /\ activeJobs \in Nat /\ stopRequested \in BOOLEAN /\ stopping \in {"no", "files", "folders"}
        /\ calls \in 0..MaxCalls /\ faults \in 0..MaxFaults
        /\ heldBack \in BOOLEAN /\ dropped \subseteq File /\ unreported \subseteq File
    <3>1. 0 \in 0..MaxCalls /\ 0 \in 0..MaxFaults
      BY KbAssumption
    <3> QED
      BY <3>1 DEF Init
  <2>6. queue \in Seq([file : File, priority : {0, 1}])
    BY <1>4 DEF Init
  <2> QED
    BY <2>1, <2>2, <2>3, <2>4, <2>5, <2>6 DEF TypeOK
<1>6. \A f \in File : Processed(f) /\ Awaited(f)
  BY DEF Init, Processed, Awaited
<1> QED
  BY <1>2, <1>3, <1>5, <1>6 DEF IInv

\* Every step keeps it.
LEMMA StepIInv == IInv /\ [Next]_vars => IInv'
<1> SUFFICES ASSUME IInv, [Next]_vars PROVE IInv'
  OBVIOUS
<1>1. ASSUME NEW w \in Worker, JobStep(w) PROVE IInv'
  BY <1>1, ProcessingKeeps, EndingKeeps DEF JobStep
<1>2. ASSUME NEW c \in Caller, CallerStep(c) PROVE IInv'
  <2>1. CASE Enqueue(c)
    BY <2>1, EnqueueKeeps
  <2>2. CASE ~Enqueue(c)
    BY <1>2, <2>2, CallingKeeps DEF CallerStep
  <2> QED
    BY <2>1, <2>2
<1>3. CASE (\E f \in File : Unlink(f)) \/ Watcher
  BY <1>3, WatchingKeeps
<1>4. CASE Stop \/ Resume \/ Crash
  BY <1>4, StopKeeps, ResumeKeeps, CrashKeeps
<1>5. CASE StopFiles \/ StopFolders \/ Start
  BY <1>5, ResetKeeps, RequeueKeeps DEF Start
<1>6. CASE UNCHANGED vars
  <2>1. UNCHANGED <<status, folder, queue, activeJobs, stopRequested, job, caller, stopping, starting,
                    calls, faults, heldBack, dropped, unreported>>
    BY <1>6 DEF vars, memory, bounded, history
  <2>2. \A f \in File : (Processed(f)' <=> Processed(f)) /\ (Awaited(f)' <=> Awaited(f))
    <3>1. \A f \in File : ToQueue(f)' <=> ToQueue(f)
      BY <2>1 DEF ToQueue
    <3> QED
      BY <2>1, <3>1 DEF Processed, Awaited
  <2>3. TypeOK' /\ Named' /\ Counted(activeJobs, job)' /\ HeldBack'
    BY <2>1 DEF IInv, TypeOK, Named, Counted, HeldBack
  <2> QED
    BY <2>2, <2>3 DEF IInv
<1> QED
  BY <1>1, <1>2, <1>3, <1>4, <1>5, <1>6 DEF Next
-----------------------------------------------------------------------------
(* Theorems *)

\* Every variable holds values of its type.
THEOREM PipelineTypesCorrect == Spec => []TypeOK
<1>1. IInv => TypeOK
  BY DEF IInv
<1> QED
  BY <1>1, StepIInv, InitIInv, PTL DEF Spec

\* The counter of running jobs is their number and never exceeds the limit, over stops
\* that leave jobs running, resumes and restarts (processNext and its finally block).
THEOREM JobsCounted == Spec => []CountsJobs
<1>1. IInv => CountsJobs
  BY InvariantsFollow
<1> QED
  BY <1>1, StepIInv, InitIInv, PTL DEF Spec

\* A file in processing has a job that will say how it ends, but for a report that failed
\* and a start that has not recovered yet.
THEOREM ProcessingAccounted == Spec => []ProcessingHasJob
<1>1. IInv => ProcessingHasJob
  BY InvariantsFollow
<1> QED
  BY <1>1, StepIInv, InitIInv, PTL DEF Spec

\* A pending file has a job, or a call or a start about to queue one, unless its job was
\* dropped in one of the ways the model names.
THEOREM PendingAccounted == Spec => []PendingHasJob
<1>1. IInv => PendingHasJob
  BY InvariantsFollow
<1> QED
  BY <1>1, StepIInv, InitIInv, PTL DEF Spec

\* No place stays empty while a job waits, though nobody polls the queue.
THEOREM CapacityUsed == Spec => []NoIdleCapacity
<1>1. IInv => NoIdleCapacity
  BY InvariantsFollow
<1> QED
  BY <1>1, StepIInv, InitIInv, PTL DEF Spec
=============================================================================
