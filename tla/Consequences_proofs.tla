------------------------ MODULE Consequences_proofs ------------------------
(***************************************************************************)
(* Theorems about Consequences, for any graph, any number of pipelines and *)
(* scans, and any limits: the types, that a node under experiment stays    *)
(* frozen, that a node that waits for a review will be reviewed, and that  *)
(* taint has its cause.                                                    *)
(*                                                                         *)
(* They rest on what a process is at its place (Shape): whom it is about,  *)
(* that a critique knows whom it judges until it has decided, how often it *)
(* can have changed its node by then.                                      *)
(***************************************************************************)
EXTENDS Consequences, WellFoundedInduction, TLAPS

USE ConsequencesAssumption

Verdict  == Complete \cup {None}
Decision == {"none", "confirm", "correct"}

(* What a process is at its place. *)
Shape(r) ==
  /\ r.pc /= "off" => r.node \in Node
  /\ r.pc = "off" => ~r.froze
  /\ r.pc \in {"run", "fail", "retry"} => r.kind /= "recovery"
  /\ r.pc = "run" => r.applied = 0
  /\ r.pc \in {"run", "fail"} => r.decision = "none"
  /\ r.decision = "none" /\ r.pc \notin {"retry", "thaw"} => r.applied <= 1
  /\ r.pc = "mark" => r.left > 0
  /\ r.pc = "enqueue" => /\ r.kind \in {"experiment", "retest"} /\ r.decision = "none"
                         /\ r.verdict /= None /\ r.depth < MaxChainDepth
  /\ r.pc = "decide" => r.decision = "none"
  /\ r.pc \in {"decide", "close"} => r.parent /= None
  /\ r.pc = "close" => r.decision /= "none"
  /\ r.parent /= None => r.kind = "critique"

Shapes == \A p \in Process : Shape(proc[p])

(* Two records of one pipeline, at different places. *)
Kin(r, s) == s.node = r.node /\ s.kind = r.kind /\ s.depth = r.depth /\ s.froze = r.froze

(* A process that will review its node, or have it reviewed. *)
Reviews(r) ==
  \/ r.pc = "enqueue"
  \/ /\ r.kind = "critique" /\ r.decision = "none"
     /\ \/ r.pc \in {"run", "fail"}
        \/ r.parent /= None /\ r.pc \notin {"off", "retry", "thaw"}

(* The process p moves and no other. *)
Moves(p) == /\ proc' \in [Process -> Proc]
            /\ Kin(proc[p], proc'[p])
            /\ \A q \in Process \ {p} : proc'[q] = proc[q]
-----------------------------------------------------------------------------
(* Records of processes *)

\* Setting one field.
LEMMA SetField ==
  ASSUME NEW r \in Proc
  PROVE  /\ \A x \in PC : [r EXCEPT !.pc = x] \in Proc
         /\ \A x \in Verdict : [r EXCEPT !.verdict = x] \in Proc
         /\ \A x \in Verdict : [r EXCEPT !.parent = x] \in Proc
         /\ \A x \in BOOLEAN : [r EXCEPT !.erred = x] \in Proc
         /\ \A x \in Decision : [r EXCEPT !.decision = x] \in Proc
         /\ \A x \in SUBSET Node : [r EXCEPT !.layer = x] \in Proc
         /\ \A x \in 0..TaintMaxDepth : [r EXCEPT !.left = x] \in Proc
         /\ \A x \in 0..2 : [r EXCEPT !.applied = x] \in Proc
  BY DEF Proc, Verdict, Decision

\* One process is replaced.
LEMMA Replaced ==
  ASSUME proc \in [Process -> Proc], NEW p \in Process, NEW r \in Proc, Kin(proc[p], r),
         proc' = [proc EXCEPT ![p] = r]
  PROVE  Moves(p) /\ proc'[p] = r
  BY DEF Moves

\* A free process is a process.
LEMMA OffIsProc == Off \in Proc
  BY DEF Off, Proc, PC, Kind

\* A verdict gets its consequences.
LEMMA SpreadKeeps ==
  ASSUME NEW r \in Proc, r.node \in Node, NEW v, NEW ref \in {"archive", "layer"},
         NEW s, s = Spread(r, v, ref)
  PROVE  /\ s \in Proc /\ Kin(r, s) /\ s.pc \in {ref, "clear"}
         /\ s.parent = r.parent /\ s.decision = r.decision /\ s.applied = r.applied
<1>1. ref \in PC /\ "clear" \in PC /\ TaintMaxDepth \in 0..TaintMaxDepth
  BY DEF PC
<1>2. s \in Proc
  BY <1>1, SetField DEF Spread
<1> QED
  BY <1>1, <1>2 DEF Spread, Proc, Kin

\* The changes of a critique are counted.
LEMMA CountedKeeps ==
  ASSUME NEW r \in Proc, r.applied <= 1, NEW b \in BOOLEAN, NEW s, s = Counted(r, b)
  PROVE  /\ s \in Proc /\ Kin(r, s) /\ s.pc = r.pc
         /\ s.parent = r.parent /\ s.decision = r.decision
         /\ s.applied \in {r.applied, r.applied + 1}
         /\ r.kind /= "critique" => s.applied = r.applied
<1>1. r.applied \in Nat /\ r.applied \in 0..2 /\ r.applied + 1 \in 0..2
  BY DEF Proc
<1> DEFINE x == IF r.kind = "critique" /\ b THEN r.applied + 1 ELSE r.applied
<1>2. s = [r EXCEPT !.applied = x]
  BY DEF Counted
<1>3. /\ x \in 0..2 /\ x \in {r.applied, r.applied + 1}
      /\ r.kind /= "critique" => x = r.applied
  BY <1>1
<1> HIDE DEF x
<1>4. s \in Proc
  BY <1>2, <1>3 DEF Proc
<1> QED
  BY <1>2, <1>3, <1>4 DEF Proc, Kin
-----------------------------------------------------------------------------
(* What the steps do to the process that takes them *)

\* Only the place changes.
LEMMA GotoMoves ==
  ASSUME TypeOK, Shapes, NEW p \in Process, NEW x \in PC, Goto(p, x)
  PROVE  /\ Moves(p) /\ proc'[p] = [proc[p] EXCEPT !.pc = x]
         /\ proc'[p].pc = x /\ proc'[p].parent = proc[p].parent
         /\ proc'[p].decision = proc[p].decision /\ proc'[p].applied = proc[p].applied
<1> DEFINE r == [proc[p] EXCEPT !.pc = x]
<1>1. proc[p] \in Proc /\ proc \in [Process -> Proc]
  BY DEF TypeOK
<1>2. r \in Proc
  BY <1>1, SetField
<1>3. /\ Kin(proc[p], r) /\ r.pc = x /\ r.parent = proc[p].parent
      /\ r.decision = proc[p].decision /\ r.applied = proc[p].applied
  BY <1>1 DEF Proc, Kin
<1>4. proc' = [proc EXCEPT ![p] = r]
  BY DEF Goto
<1> HIDE DEF r
<1>5. Moves(p) /\ proc'[p] = r
  BY <1>1, <1>2, <1>3, <1>4, Replaced
<1> QED
  BY <1>3, <1>5 DEF r

\* The place changes, and no verdict waits any longer.
LEMMA EndsMoves ==
  ASSUME TypeOK, Shapes, NEW p \in Process, NEW x \in PC,
         proc' = [proc EXCEPT ![p].pc = x, ![p].verdict = None]
  PROVE  /\ Moves(p) /\ proc'[p].pc = x /\ proc'[p].parent = proc[p].parent
         /\ proc'[p].decision = proc[p].decision /\ proc'[p].applied = proc[p].applied
<1> DEFINE r1 == [proc[p] EXCEPT !.pc = x]
           r2 == [r1 EXCEPT !.verdict = None]
<1>1. proc[p] \in Proc /\ proc \in [Process -> Proc]
  BY DEF TypeOK
<1>2. proc' = [proc EXCEPT ![p] = r2]
  BY <1>1
<1>3. r1 \in Proc /\ Kin(proc[p], r1) /\ r1.parent = proc[p].parent /\ r1.pc = x
      /\ r1.decision = proc[p].decision /\ r1.applied = proc[p].applied
  BY <1>1 DEF Proc, Kin, PC
<1> HIDE DEF r1
<1>4. r2 \in Proc /\ Kin(proc[p], r2) /\ r2.parent = proc[p].parent /\ r2.pc = x
      /\ r2.decision = proc[p].decision /\ r2.applied = proc[p].applied
  BY <1>3 DEF Proc, Kin
<1> HIDE DEF r2
<1>5. Moves(p) /\ proc'[p] = r2
  BY <1>1, <1>2, <1>4, Replaced
<1> QED
  BY <1>4, <1>5

\* A walk or a clearing ends.
LEMMA AfterMoves ==
  ASSUME TypeOK, Shapes, NEW p \in Process, After(p), proc[p].pc \in {"layer", "clear"}
  PROVE  /\ Moves(p) /\ Shape(proc'[p])
         /\ Reviews(proc[p]) => Reviews(proc'[p])
<1> DEFINE x == IF proc[p].parent = None THEN "thaw"
                ELSE IF proc[p].decision = "none" THEN "decide" ELSE "close"
           r1 == [proc[p] EXCEPT !.layer = {}]
           r2 == [r1 EXCEPT !.left = 0]
           r3 == [r2 EXCEPT !.pc = x]
<1>1. proc[p] \in Proc /\ proc \in [Process -> Proc]
  BY DEF TypeOK
<1>2. proc' = [proc EXCEPT ![p] = r3]
  BY <1>1 DEF After
<1>3. x \in PC /\ 0 \in 0..TaintMaxDepth
  BY DEF PC
<1> HIDE DEF x
<1>4. r1 \in Proc /\ Kin(proc[p], r1) /\ r1.parent = proc[p].parent
      /\ r1.decision = proc[p].decision /\ r1.applied = proc[p].applied
  <2>1. r1 \in Proc
    BY <1>1, SetField
  <2> QED
    BY <1>1, <2>1 DEF Proc, Kin
<1> HIDE DEF r1
<1>5. r2 \in Proc /\ Kin(proc[p], r2) /\ r2.parent = proc[p].parent
      /\ r2.decision = proc[p].decision /\ r2.applied = proc[p].applied
  <2>1. r2 \in Proc
    BY <1>3, <1>4, SetField
  <2> QED
    BY <1>3, <1>4, <2>1 DEF Proc, Kin
<1> HIDE DEF r2
<1>6. r3 \in Proc /\ Kin(proc[p], r3) /\ r3.parent = proc[p].parent /\ r3.pc = x
      /\ r3.decision = proc[p].decision /\ r3.applied = proc[p].applied
  <2>1. r3 \in Proc
    BY <1>3, <1>5, SetField
  <2> QED
    BY <1>3, <1>5, <2>1 DEF Proc, Kin
<1> HIDE DEF r3
<1>7. Moves(p) /\ proc'[p] = r3
  BY <1>1, <1>2, <1>6, Replaced
<1>8. Shape(proc[p])
  BY DEF Shapes
<1> QED
  BY <1>6, <1>7, <1>8 DEF Shape, Reviews, Kin, x

\* A decision is over.
LEMMA DoneMoves ==
  ASSUME TypeOK, Shapes, NEW p \in Process, Done(p),
         \/ proc[p].pc \in {"decide", "close"}
         \/ proc[p].pc \in {"archive", "clear"} /\ proc[p].kind /= "recovery"
  PROVE  Moves(p) /\ Shape(proc'[p])
<1> DEFINE x == IF proc[p].erred THEN "retry" ELSE "thaw"
           r0 == [proc[p] EXCEPT !.pc = x]
           r1 == [r0 EXCEPT !.verdict = None]
           r2 == [r1 EXCEPT !.parent = None]
           r3 == [r2 EXCEPT !.erred = FALSE]
           r4 == [r3 EXCEPT !.decision = "none"]
<1>1. proc[p] \in Proc /\ proc \in [Process -> Proc]
  BY DEF TypeOK
<1>2. proc' = [proc EXCEPT ![p] = r4]
  BY <1>1 DEF Done
<1>3. x \in PC
  BY DEF PC
<1>4. x \in {"retry", "thaw"}
  OBVIOUS
<1> HIDE DEF x
<1>5a. r0 \in Proc /\ Kin(proc[p], r0) /\ r0.pc = x /\ r0.applied = proc[p].applied
  <2>1. r0 \in Proc
    BY <1>1, <1>3, SetField
  <2> QED
    BY <1>1, <1>3, <2>1 DEF Proc, Kin
<1> HIDE DEF r0
<1>5. r1 \in Proc /\ Kin(proc[p], r1) /\ r1.pc = x /\ r1.applied = proc[p].applied
  <2>1. r1 \in Proc
    BY <1>5a, SetField DEF Verdict
  <2> QED
    BY <1>5a, <2>1 DEF Proc, Kin
<1> HIDE DEF r1
<1>6. r2 \in Proc /\ Kin(proc[p], r2) /\ r2.pc = x /\ r2.parent = None
      /\ r2.applied = proc[p].applied
  <2>1. r2 \in Proc
    BY <1>5, SetField DEF Verdict
  <2> QED
    BY <1>5, <2>1 DEF Proc, Kin
<1> HIDE DEF r2
<1>7. r3 \in Proc /\ Kin(proc[p], r3) /\ r3.pc = x /\ r3.parent = None
      /\ r3.applied = proc[p].applied
  <2>1. r3 \in Proc
    BY <1>6, SetField
  <2> QED
    BY <1>6, <2>1 DEF Proc, Kin
<1> HIDE DEF r3
<1>8. r4 \in Proc /\ Kin(proc[p], r4) /\ r4.pc = x /\ r4.parent = None /\ r4.decision = "none"
      /\ r4.applied = proc[p].applied
  <2>1. r4 \in Proc
    BY <1>7, SetField DEF Decision
  <2> QED
    BY <1>7, <2>1 DEF Proc, Kin
<1> HIDE DEF r4
<1>9. Moves(p) /\ proc'[p] = r4
  BY <1>1, <1>2, <1>8, Replaced
<1>10. Shape(proc[p])
  BY DEF Shapes
<1>11. proc[p].kind /= "recovery" /\ proc[p].node \in Node
  BY <1>10 DEF Shape
<1> QED
  BY <1>4, <1>8, <1>9, <1>11 DEF Shape, Kin

\* A pipeline takes an entry.
LEMMA ClaimMoves ==
  ASSUME TypeOK, Shapes, NEW p \in Process, NEW e \in queue, Claim(p, e)
  PROVE  /\ proc' \in [Process -> Proc] /\ \A q \in Process \ {p} : proc'[q] = proc[q]
         /\ Shape(proc'[p]) /\ proc'[p].node = e.node /\ e.node \in Node
         /\ proc'[p].froze \in BOOLEAN
         /\ lab' = IF proc'[p].froze THEN [lab EXCEPT ![e.node] = Frozen] ELSE lab
         /\ thawed' = IF proc'[p].froze THEN thawed \ {e.node} ELSE thawed
         /\ e.kind = "critique" => Reviews(proc'[p])
<1>1. proc \in [Process -> Proc] /\ e \in Entry /\ pending \in [Node -> Complete \cup {None}]
  BY DEF TypeOK
<1>2. PICK freeze \in FreezeChoices, parent \in Parents(e) :
        /\ lab' = IF freeze THEN [lab EXCEPT ![e.node] = Frozen] ELSE lab
        /\ thawed' = IF freeze THEN thawed \ {e.node} ELSE thawed
        /\ proc' = [proc EXCEPT ![p] =
             [Off EXCEPT !.pc = IF e.node \in archived THEN "fail" ELSE "run",
                         !.node = e.node, !.kind = e.kind, !.depth = e.depth,
                         !.froze = freeze, !.parent = parent]]
  BY DEF Claim
<1> DEFINE x  == IF e.node \in archived THEN "fail" ELSE "run"
           r1 == [Off EXCEPT !.pc = x]
           r2 == [r1 EXCEPT !.node = e.node]
           r3 == [r2 EXCEPT !.kind = e.kind]
           r4 == [r3 EXCEPT !.depth = e.depth]
           r5 == [r4 EXCEPT !.froze = freeze]
           r6 == [r5 EXCEPT !.parent = parent]
<1>3. proc' = [proc EXCEPT ![p] = r6]
  BY <1>2
<1>4. /\ e.node \in Node /\ e.kind \in Kind \ {"recovery"} /\ e.depth \in 0..MaxChainDepth
      /\ freeze \in BOOLEAN /\ x \in PC /\ x \in {"fail", "run"}
  BY <1>1 DEF Entry, PC
<1>5. /\ parent \in Complete \cup {None}
      /\ parent /= None => e.kind = "critique"
  <2>1. CASE e.kind = "critique"
    BY <1>1, <1>4, <2>1 DEF Parents
  <2>2. CASE e.kind /= "critique"
    BY <2>2 DEF Parents
  <2> QED
    BY <2>1, <2>2
<1> HIDE DEF x
<1>6. r1 \in Proc /\ r1.pc = x /\ r1.decision = "none" /\ r1.applied = 0
  BY <1>4, OffIsProc DEF Off, Proc
<1> HIDE DEF r1
<1>7. r2 \in Proc /\ r2.pc = x /\ r2.decision = "none" /\ r2.applied = 0 /\ r2.node = e.node
  BY <1>4, <1>6 DEF Proc
<1> HIDE DEF r2
<1>8. r3 \in Proc /\ r3.pc = x /\ r3.decision = "none" /\ r3.applied = 0 /\ r3.node = e.node
      /\ r3.kind = e.kind
  BY <1>4, <1>7 DEF Proc
<1> HIDE DEF r3
<1>9. r4 \in Proc /\ r4.pc = x /\ r4.decision = "none" /\ r4.applied = 0 /\ r4.node = e.node
      /\ r4.kind = e.kind
  BY <1>4, <1>8 DEF Proc
<1> HIDE DEF r4
<1>10. r5 \in Proc /\ r5.pc = x /\ r5.decision = "none" /\ r5.applied = 0 /\ r5.node = e.node
       /\ r5.kind = e.kind /\ r5.froze = freeze
  BY <1>4, <1>9 DEF Proc
<1> HIDE DEF r5
<1>11. r6 \in Proc /\ r6.pc = x /\ r6.decision = "none" /\ r6.applied = 0 /\ r6.node = e.node
       /\ r6.kind = e.kind /\ r6.froze = freeze /\ r6.parent = parent
  BY <1>5, <1>10 DEF Proc
<1> HIDE DEF r6
<1>12. proc' \in [Process -> Proc] /\ proc'[p] = r6 /\ \A q \in Process \ {p} : proc'[q] = proc[q]
  BY <1>1, <1>3, <1>11
<1>13. Shape(r6) /\ (e.kind = "critique" => Reviews(r6))
  BY <1>4, <1>5, <1>11 DEF Shape, Reviews
<1> QED
  BY <1>2, <1>4, <1>11, <1>12, <1>13

\* The lab has answered, and the verdict is written.
LEMMA RecordMoves ==
  ASSUME TypeOK, Shapes, NEW p \in Process, NEW v \in Complete, Record(p, v)
  PROVE  /\ Moves(p) /\ Shape(proc'[p]) /\ proc[p].node \in Node
         /\ \/ /\ pending' = [pending EXCEPT ![proc[p].node] = v]
               /\ vstatus' = [vstatus EXCEPT ![proc[p].node] = "pending_review"]
               /\ Reviews(proc'[p])
            \/ /\ pending' = pending
               /\ vstatus' = [vstatus EXCEPT ![proc[p].node] = "completed"]
<1>1. proc[p] \in Proc /\ proc \in [Process -> Proc] /\ Shape(proc[p]) /\ proc[p].pc = "run"
  BY DEF TypeOK, Shapes, Record, At
<1>2. proc[p].node \in Node /\ proc[p].applied = 0 /\ proc[p].decision = "none"
  BY <1>1 DEF Shape
<1>3. CASE /\ WillChain(p, v)
           /\ pending' = [pending EXCEPT ![Target(p)] = v]
           /\ vstatus' = [vstatus EXCEPT ![Target(p)] = "pending_review"]
           /\ proc' = [proc EXCEPT ![p].verdict = v, ![p].pc = "enqueue"]
  <2> DEFINE r1 == [proc[p] EXCEPT !.verdict = v]
             r2 == [r1 EXCEPT !.pc = "enqueue"]
  <2>1. proc' = [proc EXCEPT ![p] = r2]
    BY <1>1, <1>3
  <2>2. /\ pending' = [pending EXCEPT ![proc[p].node] = v]
        /\ vstatus' = [vstatus EXCEPT ![proc[p].node] = "pending_review"]
    BY <1>3 DEF Target
  <2>3. /\ proc[p].kind \in {"experiment", "retest"} /\ proc[p].depth < MaxChainDepth
    BY <1>3 DEF WillChain
  <2>4. r1 \in Proc /\ Kin(proc[p], r1) /\ r1.applied = 0 /\ r1.decision = "none" /\ r1.verdict = v
        /\ r1.parent = proc[p].parent
    BY <1>1, <1>2 DEF Proc, Kin
  <2> HIDE DEF r1
  <2>5. r2 \in Proc /\ Kin(proc[p], r2) /\ r2.applied = 0 /\ r2.decision = "none" /\ r2.verdict = v
        /\ r2.parent = proc[p].parent /\ r2.pc = "enqueue"
    BY <2>4 DEF Proc, Kin, PC
  <2> HIDE DEF r2
  <2>6. Moves(p) /\ proc'[p] = r2
    BY <1>1, <2>1, <2>5, Replaced
  <2> QED
    BY <1>1, <1>2, <2>2, <2>3, <2>5, <2>6 DEF Shape, Reviews, Kin
<1>4. CASE /\ pending' = pending
           /\ vstatus' = [vstatus EXCEPT ![Target(p)] = "completed"]
           /\ proc' = [proc EXCEPT ![p] =
                         Counted(Spread(proc[p], v, "archive"), v /= "inconclusive")]
  <2> DEFINE s == Spread(proc[p], v, "archive")
             r == Counted(s, v /= "inconclusive")
  <2>1. proc' = [proc EXCEPT ![p] = r]
    BY <1>1, <1>4
  <2>2. pending' = pending /\ vstatus' = [vstatus EXCEPT ![proc[p].node] = "completed"]
    BY <1>4 DEF Target
  <2>3. /\ s \in Proc /\ Kin(proc[p], s) /\ s.pc \in {"archive", "clear"} /\ s.applied = 0
        /\ s.parent = proc[p].parent /\ s.decision = "none"
    BY <1>1, <1>2, SpreadKeeps
  <2> HIDE DEF s
  <2>4. s.applied <= 1 /\ (v /= "inconclusive") \in BOOLEAN
    BY <2>3
  <2>5. /\ r \in Proc /\ Kin(s, r) /\ r.pc = s.pc /\ r.parent = s.parent
        /\ r.decision = s.decision /\ r.applied \in {s.applied, s.applied + 1}
    BY <2>3, <2>4, CountedKeeps
  <2> HIDE DEF r
  <2>6. r \in Proc /\ Kin(proc[p], r) /\ r.pc \in {"archive", "clear"} /\ r.applied <= 1
        /\ r.parent = proc[p].parent /\ r.decision = "none"
    BY <2>3, <2>5 DEF Kin
  <2>7. Moves(p) /\ proc'[p] = r
    BY <1>1, <2>1, <2>6, Replaced
  <2> QED
    BY <1>1, <1>2, <2>2, <2>6, <2>7 DEF Shape, Reviews, Kin
<1> QED
  BY <1>1, <1>3, <1>4 DEF Record

\* The recovery scan has found a result.
LEMMA ScanMoves ==
  ASSUME TypeOK, Shapes, NEW p \in Process, NEW n \in Node, NEW v, Scan(p, n, v)
  PROVE  /\ proc' \in [Process -> Proc] /\ \A q \in Process \ {p} : proc'[q] = proc[q]
         /\ Shape(proc'[p]) /\ ~proc'[p].froze
<1> DEFINE r == [Off EXCEPT !.node = n]
           s == Spread(r, v, "layer")
<1>1. proc \in [Process -> Proc]
  BY DEF TypeOK
<1>2. proc' = [proc EXCEPT ![p] = s]
  BY DEF Scan
<1>3. r \in Proc /\ r.node = n /\ r.kind = "recovery" /\ ~r.froze /\ r.applied = 0
      /\ r.parent = None /\ r.decision = "none"
  BY OffIsProc DEF Off, Proc
<1> HIDE DEF r
<1>4. /\ s \in Proc /\ Kin(r, s) /\ s.pc \in {"layer", "clear"}
      /\ s.parent = r.parent /\ s.decision = r.decision /\ s.applied = r.applied
  BY <1>3, SpreadKeeps
<1> HIDE DEF s
<1>5. proc' \in [Process -> Proc] /\ proc'[p] = s /\ \A q \in Process \ {p} : proc'[q] = proc[q]
  BY <1>1, <1>2, <1>4
<1> QED
  BY <1>3, <1>4, <1>5 DEF Shape, Kin

\* The lab has no answer to a critique.
LEMMA CritiqueErrorMoves ==
  ASSUME TypeOK, Shapes, NEW p \in Process, CritiqueError(p)
  PROVE  Moves(p) /\ Shape(proc'[p]) /\ Reviews(proc'[p])
<1>0. PICK e \in BOOLEAN : proc' = [proc EXCEPT ![p].pc = "decide", ![p].erred = e]
  BY DEF CritiqueError
<1> DEFINE r1 == [proc[p] EXCEPT !.pc = "decide"]
           r2 == [r1 EXCEPT !.erred = e]
<1>1. proc[p] \in Proc /\ proc \in [Process -> Proc] /\ Shape(proc[p]) /\ proc[p].pc = "run"
      /\ proc[p].kind = "critique" /\ proc[p].parent /= None
  BY DEF TypeOK, Shapes, CritiqueError, At
<1>2. proc' = [proc EXCEPT ![p] = r2]
  BY <1>0, <1>1
<1>3. r1 \in Proc /\ Kin(proc[p], r1) /\ r1.parent = proc[p].parent /\ r1.pc = "decide"
      /\ r1.decision = proc[p].decision /\ r1.applied = proc[p].applied
  BY <1>1 DEF Proc, Kin, PC
<1> HIDE DEF r1
<1>4. r2 \in Proc /\ Kin(proc[p], r2) /\ r2.parent = proc[p].parent /\ r2.pc = "decide"
      /\ r2.decision = proc[p].decision /\ r2.applied = proc[p].applied
  BY <1>0, <1>3 DEF Proc, Kin
<1> HIDE DEF r2
<1>5. Moves(p) /\ proc'[p] = r2
  BY <1>1, <1>2, <1>4, Replaced
<1> QED
  BY <1>1, <1>4, <1>5 DEF Shape, Reviews, Kin

\* The consequences of a verdict, by a critique or because there will be none.
LEMMA ApplyMoves ==
  ASSUME TypeOK, Shapes, NEW p \in Process, NEW v \in Complete, NEW w, NEW d \in Decision,
         ApplyNow(p, v, w, d),
         \/ proc[p].pc = "enqueue" /\ d = "none"
         \/ proc[p].pc = "decide" /\ d /= "none"
  PROVE  /\ Moves(p) /\ Shape(proc'[p]) /\ proc[p].node \in Node
         /\ vstatus' = [vstatus EXCEPT ![proc[p].node] = "completed"]
<1> DEFINE s  == Spread(proc[p], w, "archive")
           r  == Counted(s, TRUE)
           u  == IF v = w THEN None ELSE v
           r1 == [r EXCEPT !.verdict = u]
           r2 == [r1 EXCEPT !.decision = d]
<1>1. proc[p] \in Proc /\ proc \in [Process -> Proc] /\ Shape(proc[p])
  BY DEF TypeOK, Shapes
<1>2. /\ proc[p].node \in Node /\ proc[p].applied <= 1
      /\ d = "none" => proc[p].kind /= "critique"
  BY <1>1 DEF Shape
<1>3. proc' = [proc EXCEPT ![p] = r2]
  BY <1>1 DEF ApplyNow
<1>4. vstatus' = [vstatus EXCEPT ![proc[p].node] = "completed"]
  BY DEF ApplyNow, Target
<1>5. /\ s \in Proc /\ Kin(proc[p], s) /\ s.pc \in {"archive", "clear"}
      /\ s.applied = proc[p].applied /\ s.parent = proc[p].parent
  BY <1>1, <1>2, SpreadKeeps
<1> HIDE DEF s
<1>6. /\ r \in Proc /\ Kin(s, r) /\ r.pc = s.pc /\ r.parent = s.parent
      /\ s.kind /= "critique" => r.applied = s.applied
  <2>1. s.applied <= 1 /\ TRUE \in BOOLEAN
    BY <1>2, <1>5
  <2> QED
    BY <1>5, <2>1, CountedKeeps
<1> HIDE DEF r
<1>7. /\ r \in Proc /\ Kin(proc[p], r) /\ r.pc \in {"archive", "clear"}
      /\ r.parent = proc[p].parent
      /\ d = "none" => r.applied <= 1
  BY <1>2, <1>5, <1>6 DEF Kin
<1>8. /\ r1 \in Proc /\ Kin(proc[p], r1) /\ r1.pc \in {"archive", "clear"}
      /\ r1.parent = proc[p].parent /\ r1.applied = r.applied
  <2>1. u \in Verdict
    BY DEF Verdict
  <2>2. r1 \in Proc
    BY <1>7, <2>1, SetField
  <2> QED
    BY <1>7, <2>2 DEF Proc, Kin
<1> HIDE DEF r1
<1>9. /\ r2 \in Proc /\ Kin(proc[p], r2) /\ r2.pc \in {"archive", "clear"}
      /\ r2.parent = proc[p].parent /\ r2.applied = r.applied /\ r2.decision = d
  BY <1>8 DEF Proc, Kin, Decision
<1> HIDE DEF r2
<1>10. Moves(p) /\ proc'[p] = r2
  BY <1>1, <1>3, <1>9, Replaced
<1>11. Shape(r2)
  BY <1>1, <1>2, <1>7, <1>9 DEF Shape, Kin
<1> QED
  BY <1>2, <1>4, <1>10, <1>11

\* A step of the walk.
LEMMA LayerMoves ==
  ASSUME TypeOK, Shapes, NEW p \in Process, Layer(p)
  PROVE  Moves(p) /\ Shape(proc'[p]) /\ (Reviews(proc[p]) => Reviews(proc'[p]))
<1>1. proc[p] \in Proc /\ proc \in [Process -> Proc] /\ Shape(proc[p]) /\ proc[p].pc = "layer"
  BY DEF TypeOK, Shapes, Layer, At
<1>2. CASE After(p)
  BY <1>1, <1>2, AfterMoves
<1>3. CASE proc[p].left > 0 /\ proc' = [proc EXCEPT ![p].pc = "mark", ![p].layer = NextLayer(p)]
  <2> DEFINE r1 == [proc[p] EXCEPT !.pc = "mark"]
             r2 == [r1 EXCEPT !.layer = NextLayer(p)]
  <2>1. proc' = [proc EXCEPT ![p] = r2]
    BY <1>1, <1>3
  <2>2. NextLayer(p) \in SUBSET Node
    <3>1. proc[p].layer \subseteq Node
      BY <1>1 DEF Proc
    <3> QED
      BY <3>1 DEF NextLayer
  <2>3. r1 \in Proc /\ Kin(proc[p], r1) /\ r1.parent = proc[p].parent /\ r1.pc = "mark"
        /\ r1.decision = proc[p].decision /\ r1.applied = proc[p].applied /\ r1.left = proc[p].left
    BY <1>1 DEF Proc, Kin, PC
  <2> HIDE DEF r1
  <2>4. r2 \in Proc /\ Kin(proc[p], r2) /\ r2.parent = proc[p].parent /\ r2.pc = "mark"
        /\ r2.decision = proc[p].decision /\ r2.applied = proc[p].applied /\ r2.left = proc[p].left
    <3>1. r2 \in Proc
      BY <2>2, <2>3, SetField
    <3> QED
      BY <2>3, <3>1 DEF Proc, Kin
  <2> HIDE DEF r2
  <2>5. Moves(p) /\ proc'[p] = r2
    BY <1>1, <2>1, <2>4, Replaced
  <2> QED
    BY <1>1, <1>3, <2>4, <2>5 DEF Shape, Reviews, Kin
<1> QED
  BY <1>2, <1>3 DEF Layer

\* A layer is marked.
LEMMA MarkMoves ==
  ASSUME TypeOK, Shapes, NEW p \in Process, Mark(p)
  PROVE  /\ Moves(p) /\ Shape(proc'[p]) /\ proc[p].node \in Node
         /\ Reviews(proc[p]) => Reviews(proc'[p])
<1> DEFINE r1 == [proc[p] EXCEPT !.pc = "layer"]
           r2 == [r1 EXCEPT !.left = proc[p].left - 1]
<1>1. proc[p] \in Proc /\ proc \in [Process -> Proc] /\ Shape(proc[p]) /\ proc[p].pc = "mark"
  BY DEF TypeOK, Shapes, Mark, At
<1>2. proc[p].left - 1 \in 0..TaintMaxDepth /\ proc[p].node \in Node
  <2>1. proc[p].left \in 0..TaintMaxDepth /\ proc[p].left > 0 /\ TaintMaxDepth \in Nat
    BY <1>1 DEF Proc, Shape
  <2> QED
    BY <1>1, <2>1 DEF Shape
<1>3. proc' = [proc EXCEPT ![p] = r2]
  BY <1>1 DEF Mark
<1>4. r1 \in Proc /\ Kin(proc[p], r1) /\ r1.parent = proc[p].parent /\ r1.pc = "layer"
      /\ r1.decision = proc[p].decision /\ r1.applied = proc[p].applied
  BY <1>1 DEF Proc, Kin, PC
<1> HIDE DEF r1
<1>5. r2 \in Proc /\ Kin(proc[p], r2) /\ r2.parent = proc[p].parent /\ r2.pc = "layer"
      /\ r2.decision = proc[p].decision /\ r2.applied = proc[p].applied
  <2>1. r2 \in Proc
    BY <1>2, <1>4, SetField
  <2> QED
    BY <1>4, <2>1 DEF Proc, Kin
<1> HIDE DEF r2
<1>6. Moves(p) /\ proc'[p] = r2
  BY <1>1, <1>3, <1>5, Replaced
<1> QED
  BY <1>1, <1>2, <1>5, <1>6 DEF Shape, Reviews, Kin

\* A verdict is archived on, and its walk begins.
LEMMA AutoArchiveMoves ==
  ASSUME TypeOK, Shapes, NEW p \in Process, AutoArchive(p)
  PROVE  /\ Moves(p) /\ Shape(proc'[p]) /\ proc[p].node \in Node
         /\ proc'[p].pc = "layer" /\ proc'[p].layer = proc[p].layer /\ proc'[p].left = proc[p].left
         /\ Reviews(proc[p]) => Reviews(proc'[p])
<1> DEFINE r1 == [proc[p] EXCEPT !.pc = "layer"]
           r2 == [r1 EXCEPT !.verdict = None]
<1>1. proc[p] \in Proc /\ proc \in [Process -> Proc] /\ Shape(proc[p]) /\ proc[p].pc = "archive"
  BY DEF TypeOK, Shapes, AutoArchive, At
<1>2. proc' = [proc EXCEPT ![p] = r2]
  BY <1>1 DEF AutoArchive
<1>3. r1 \in Proc /\ Kin(proc[p], r1) /\ r1.parent = proc[p].parent /\ r1.pc = "layer"
      /\ r1.decision = proc[p].decision /\ r1.applied = proc[p].applied
      /\ r1.layer = proc[p].layer /\ r1.left = proc[p].left
  BY <1>1 DEF Proc, Kin, PC
<1> HIDE DEF r1
<1>4. r2 \in Proc /\ Kin(proc[p], r2) /\ r2.parent = proc[p].parent /\ r2.pc = "layer"
      /\ r2.decision = proc[p].decision /\ r2.applied = proc[p].applied
      /\ r2.layer = proc[p].layer /\ r2.left = proc[p].left
  BY <1>3 DEF Proc, Kin
<1> HIDE DEF r2
<1>5. Moves(p) /\ proc'[p] = r2
  BY <1>1, <1>2, <1>4, Replaced
<1> QED
  BY <1>1, <1>4, <1>5 DEF Shape, Reviews, Kin

\* The pipeline fails at what throws, or the critique is over.
LEMMA ThrowsMoves ==
  ASSUME TypeOK, Shapes, NEW p \in Process, Throws(p)
  PROVE  /\ Moves(p) /\ Shape(proc'[p]) /\ proc'[p].pc \in {"fail", "retry", "thaw"}
         /\ Reviews(proc[p]) => Reviews(proc'[p])
<1>1. proc[p].pc \in {"archive", "clear", "close"} /\ proc[p].kind /= "recovery"
      /\ proc[p] \in Proc /\ proc \in [Process -> Proc] /\ Shape(proc[p])
  BY DEF Throws, TypeOK, Shapes
<1>2. CASE proc[p].decision = "none" /\ proc' = [proc EXCEPT ![p].pc = "fail", ![p].verdict = None]
  <2>1. Moves(p) /\ proc'[p].pc = "fail" /\ proc'[p].parent = proc[p].parent
        /\ proc'[p].decision = proc[p].decision /\ proc'[p].applied = proc[p].applied
    BY <1>1, <1>2, EndsMoves DEF PC
  <2> QED
    BY <1>1, <1>2, <2>1 DEF Moves, Kin, Shape, Reviews
<1>3. CASE proc[p].decision /= "none" /\ Done(p)
  <2>1. Moves(p) /\ Shape(proc'[p])
    BY <1>1, <1>3, DoneMoves
  <2>2. proc'[p].pc \in {"retry", "thaw"}
    BY <1>1, <1>3 DEF Done, Proc
  <2>3. ~Reviews(proc[p])
    BY <1>1, <1>3 DEF Reviews
  <2> QED
    BY <2>1, <2>2, <2>3
<1> QED
  BY <1>2, <1>3 DEF Throws

\* An entry is completed without a verdict.
LEMMA SkipMoves ==
  ASSUME TypeOK, Shapes, NEW p \in Process, Skip(p)
  PROVE  /\ Moves(p) /\ Shape(proc'[p]) /\ proc[p].node \in Node /\ proc'[p].pc = "thaw"
         /\ Reviews(proc[p]) => proc[p].kind = "critique"
<1>1. "thaw" \in PC /\ Goto(p, "thaw") /\ proc[p].pc = "run" /\ Shape(proc[p])
  BY DEF PC, Skip, At, Shapes
<1>2. /\ Moves(p) /\ proc'[p].pc = "thaw" /\ proc'[p].parent = proc[p].parent
      /\ proc'[p].decision = proc[p].decision /\ proc'[p].applied = proc[p].applied
  BY <1>1, GotoMoves
<1> QED
  BY <1>1, <1>2 DEF Moves, Kin, Shape, Reviews

\* A pipeline fails.
LEMMA FailMoves ==
  ASSUME TypeOK, Shapes, NEW p \in Process, Fail(p)
  PROVE  /\ Moves(p) /\ Shape(proc'[p]) /\ proc[p].node \in Node /\ proc[p].kind /= "recovery"
         /\ Reviews(proc[p]) => proc[p].kind = "critique" /\ proc[p].pc /= "retry"
<1>1. "thaw" \in PC /\ Goto(p, "thaw") /\ proc[p].pc \in {"run", "fail", "retry"}
      /\ Shape(proc[p])
  BY DEF PC, Fail, At, Shapes
<1>2. /\ Moves(p) /\ proc'[p].pc = "thaw" /\ proc'[p].parent = proc[p].parent
      /\ proc'[p].decision = proc[p].decision /\ proc'[p].applied = proc[p].applied
  BY <1>1, GotoMoves
<1> QED
  BY <1>1, <1>2 DEF Moves, Kin, Shape, Reviews

\* The critique is queued, and the pipeline ends; or nothing is, and it fails.
LEMMA QueuedMoves ==
  ASSUME TypeOK, Shapes, NEW p \in Process, proc[p].pc = "enqueue", NEW x \in {"thaw", "fail"},
         proc' = [proc EXCEPT ![p].pc = x, ![p].verdict = None]
  PROVE  Moves(p) /\ Shape(proc'[p])
<1>1. x \in PC /\ Shape(proc[p])
  BY DEF PC, Shapes
<1>2. Moves(p) /\ proc'[p].pc = x /\ proc'[p].parent = proc[p].parent
      /\ proc'[p].decision = proc[p].decision /\ proc'[p].applied = proc[p].applied
  BY <1>1, EndsMoves
<1> QED
  BY <1>1, <1>2 DEF Moves, Kin, Shape
-----------------------------------------------------------------------------
(* Types *)

(* Everything but the processes. *)
Tables ==
  /\ lab \in [Node -> {Free, Frozen} \cup Node] /\ vstatus \in [Node -> VStatus]
  /\ archived \subseteq Node /\ queue \subseteq Entry
  /\ pending \in [Node -> Complete \cup {None}]
  /\ entries \in 0..MaxEntries /\ scans \in 0..MaxScans /\ others \in 0..MaxOthers
  /\ cause \in [Node -> Cause] /\ thawed \subseteq Node /\ unreviewed \subseteq Node

\* The types, process by process and table by table.
LEMMA TypeParts ==
  TypeOK /\ Shapes <=> Tables /\ proc \in [Process -> Proc] /\ Shapes
  BY DEF TypeOK, Tables, Shapes, Shape, At

\* One process has moved.
LEMMA ProcMoved ==
  ASSUME TypeOK, Shapes, NEW p \in Process, proc' \in [Process -> Proc],
         \A q \in Process \ {p} : proc'[q] = proc[q], Shape(proc'[p])
  PROVE  proc' \in [Process -> Proc] /\ Shapes'
  BY DEF Shapes

\* What a step does to the process that takes it, unless it begins or ends it.
LEMMA StepMoves ==
  ASSUME TypeOK, Shapes, NEW p \in Process,
         \/ AutoArchive(p) \/ Layer(p) \/ Mark(p) \/ Clear(p) \/ Close(p) \/ Review(p) \/ Fail(p)
         \/ Throws(p) \/ Skip(p) \/ \E v \in Complete : Record(p, v)
  PROVE  Moves(p) /\ Shape(proc'[p])
<1>1. ASSUME \/ AutoArchive(p) \/ Layer(p) \/ Mark(p) \/ Fail(p) \/ CritiqueError(p)
             \/ Throws(p) \/ Skip(p) \/ \E v \in Complete : Record(p, v)
      PROVE  Moves(p) /\ Shape(proc'[p])
  BY <1>1, AutoArchiveMoves, LayerMoves, MarkMoves, FailMoves, CritiqueErrorMoves, RecordMoves,
     ThrowsMoves, SkipMoves
<1>2. ASSUME Clear(p) PROVE Moves(p) /\ Shape(proc'[p])
  BY <1>2, AfterMoves DEF Clear, At
<1>3. ASSUME Close(p) \/ Retest(p) \/ Orphaned(p) \/ DecideThrows(p)
      PROVE  Moves(p) /\ Shape(proc'[p])
  <2>1. Done(p) /\ proc[p].pc \in {"decide", "close"}
    BY <1>3 DEF Close, Retest, Orphaned, DecideThrows, At
  <2> QED
    BY <2>1, DoneMoves
<1>4. ASSUME EnqueueCritique(p) PROVE Moves(p) /\ Shape(proc'[p])
  <2>1. /\ proc[p].pc = "enqueue" /\ "none" \in Decision
        /\ \/ \E x \in {"thaw", "fail"} : proc' = [proc EXCEPT ![p].pc = x, ![p].verdict = None]
           \/ ApplyNow(p, proc[p].verdict, Judged(proc[p].verdict), "none")
    BY <1>4 DEF EnqueueCritique, At, Decision
  <2>2. proc[p].verdict \in Complete
    BY <2>1 DEF TypeOK, Proc, At
  <2> QED
    BY <2>1, <2>2, QueuedMoves, ApplyMoves
<1>5. ASSUME Decide(p) PROVE Moves(p) /\ Shape(proc'[p])
  <2>1. /\ proc[p].pc = "decide" /\ "confirm" \in Decision /\ "correct" \in Decision
        /\ "confirm" /= "none" /\ "correct" /= "none"
        /\ \/ ApplyNow(p, proc[p].parent, Judged(proc[p].parent), "confirm")
           \/ \E v \in Complete : ApplyNow(p, v, v, "correct")
    BY <1>5 DEF Decide, At, Decision
  <2>2. proc[p].parent \in Complete
    BY <2>1 DEF TypeOK, Proc, At
  <2> QED
    BY <2>1, <2>2, ApplyMoves
<1> QED
  BY <1>1, <1>2, <1>3, <1>4, <1>5 DEF Review

\* Processes stay what they are at their places.
LEMMA ProcNext ==
  ASSUME TypeOK, Shapes, [Next]_vars, Tested \cup Scanned \subseteq Node
  PROVE  proc' \in [Process -> Proc] /\ Shapes'
<1>1. proc \in [Process -> Proc]
  BY DEF TypeOK
<1>2. CASE proc' = proc
  BY <1>1, <1>2 DEF Shapes
<1>3. ASSUME NEW p \in Process,
             \/ AutoArchive(p) \/ Layer(p) \/ Mark(p) \/ Clear(p) \/ Close(p) \/ Review(p) \/ Fail(p)
             \/ Throws(p) \/ Skip(p) \/ \E v \in Complete : Record(p, v)
      PROVE  proc' \in [Process -> Proc] /\ Shapes'
  <2>1. Moves(p) /\ Shape(proc'[p])
    BY <1>3, StepMoves
  <2> QED
    BY <2>1, ProcMoved DEF Moves
<1>4. ASSUME NEW p \in Process, NEW e \in queue, Claim(p, e)
      PROVE  proc' \in [Process -> Proc] /\ Shapes'
  BY <1>4, ClaimMoves, ProcMoved
<1>5. ASSUME NEW p \in Process, NEW v \in Complete, NEW n \in Scanned, Scan(p, n, v)
      PROVE  proc' \in [Process -> Proc] /\ Shapes'
  BY <1>5, ScanMoves, ProcMoved
<1>6. ASSUME NEW p \in Process, Thaw(p)
      PROVE  proc' \in [Process -> Proc] /\ Shapes'
  <2>1. /\ proc' \in [Process -> Proc] /\ proc'[p] = Off
        /\ \A q \in Process \ {p} : proc'[q] = proc[q]
    BY <1>1, <1>6, OffIsProc DEF Thaw
  <2>2. Shape(Off)
    BY DEF Shape, Off
  <2> QED
    BY <2>1, <2>2, ProcMoved
<1>7. ASSUME \/ \E n \in Tested : Enqueue(n)
             \/ \E n \in Node : ArchiveNode(n) \/ ThawOther(n)
             \/ \E e \in queue : CancelEntry(e)
             \/ Sweep \/ UNCHANGED vars
      PROVE  proc' = proc
  BY <1>7 DEF Enqueue, ArchiveNode, ThawOther, CancelEntry, Sweep, vars
<1> QED
  BY <1>2, <1>3, <1>4, <1>5, <1>6, <1>7 DEF Next, Consequence

\* An entry is put into the queue.
LEMMA InsertKeeps ==
  ASSUME Tables, NEW n \in Node, NEW kind \in Kind \ {"recovery"}, NEW depth \in 0..MaxChainDepth,
         Insert(n, kind, depth)
  PROVE  queue' \subseteq Entry /\ entries' \in 0..MaxEntries
<1>1. queue' \subseteq Entry
  BY DEF Insert, Tables, Entry
<1>2. entries \in 0..MaxEntries /\ entries < MaxEntries /\ entries' = entries + 1 /\ MaxEntries \in Nat
  BY DEF Insert, Tables
<1> QED
  BY <1>1, <1>2

\* A chain job is queued or refused.
LEMMA ChainedKeeps ==
  ASSUME Tables, NEW n \in Node, NEW kind \in Kind \ {"recovery"}, NEW depth \in 0..MaxChainDepth,
         Chained(n, kind, depth)
  PROVE  /\ queue' \subseteq Entry /\ entries' \in 0..MaxEntries
         /\ vstatus' \in [Node -> VStatus] /\ unreviewed' \subseteq Node
<1>1. CASE Insert(n, kind, depth) /\ unreviewed' = unreviewed \ {n}
           /\ vstatus' = [vstatus EXCEPT ![n] = IF kind = "critique" THEN "pending_review"
                                               ELSE "in_queue"]
  BY <1>1, InsertKeeps DEF Tables, VStatus
<1>2. CASE unreviewed' = unreviewed \cup {n} /\ UNCHANGED <<queue, vstatus, entries>>
  BY <1>2 DEF Tables
<1> QED
  BY <1>1, <1>2 DEF Chained

\* The other tables keep their types.
LEMMA TablesNext ==
  ASSUME TypeOK, Shapes, [Next]_vars, Tested \cup Scanned \subseteq Node
  PROVE  Tables'
<1>1. Tables /\ proc \in [Process -> Proc]
  BY TypeParts
<1>2. {"in_queue", "none", "completed", "pending_review"} \subseteq VStatus
  BY DEF VStatus
<1>3. ASSUME NEW n \in Tested, Enqueue(n) PROVE Tables'
  <2>1. /\ n \in Node /\ Insert(n, "experiment", 0) /\ "experiment" \in Kind \ {"recovery"}
        /\ 0 \in 0..MaxChainDepth
    BY <1>3 DEF Enqueue, Kind
  <2>2. queue' \subseteq Entry /\ entries' \in 0..MaxEntries
    BY <1>1, <2>1, InsertKeeps
  <2> QED
    BY <1>1, <1>2, <1>3, <2>1, <2>2 DEF Enqueue, Tables, history
<1>4. ASSUME NEW n \in Node, ArchiveNode(n) PROVE Tables'
  BY <1>1, <1>4 DEF ArchiveNode, Other, Tables, history
<1>5. ASSUME NEW n \in Node, ThawOther(n) PROVE Tables'
  BY <1>1, <1>5 DEF ThawOther, Other, Tables
<1>6. ASSUME NEW e \in queue, CancelEntry(e) PROVE Tables'
  <2>1. e \in Entry /\ e.node \in Node
    BY <1>1 DEF Tables, Entry
  <2>2. vstatus' \in [Node -> VStatus]
    BY <1>1, <1>2, <1>6, <2>1 DEF CancelEntry, Tables
  <2>3. unreviewed' \subseteq Node /\ queue' \subseteq Entry
    BY <1>1, <1>6, <2>1 DEF CancelEntry, Tables
  <2> QED
    BY <1>1, <1>6, <2>2, <2>3 DEF CancelEntry, Tables, bounded
<1>7. ASSUME NEW p \in Process, NEW e \in queue, Claim(p, e) PROVE Tables'
  <2>1. /\ e.node \in Node /\ proc'[p].froze \in BOOLEAN
        /\ lab' = IF proc'[p].froze THEN [lab EXCEPT ![e.node] = Frozen] ELSE lab
        /\ thawed' = IF proc'[p].froze THEN thawed \ {e.node} ELSE thawed
    BY <1>7, ClaimMoves
  <2> QED
    BY <1>1, <1>7, <2>1 DEF Claim, Tables, bounded
<1>8. ASSUME NEW p \in Process, AutoArchive(p) PROVE Tables'
  <2>1. proc[p].node \in Node
    BY <1>8, AutoArchiveMoves
  <2>2. cause' \in [Node -> Cause]
    BY <1>1, <1>8 DEF AutoArchive, Tables, Cause
  <2> QED
    BY <1>1, <1>8, <2>1, <2>2 DEF AutoArchive, Target, Tables, bounded
<1>9. ASSUME NEW p \in Process, Layer(p) \/ CritiqueError(p) \/ Throws(p)
      PROVE  Tables'
  BY <1>1, <1>9 DEF Layer, CritiqueError, Throws, Tables, bounded, history
<1>10. ASSUME NEW p \in Process, Mark(p) PROVE Tables'
  <2>1. proc[p].node \in Node
    BY <1>10, MarkMoves
  <2>2. PICK marked \in SUBSET proc[p].layer :
          lab' = [n \in Node |-> IF n \in marked /\ lab[n] = Free THEN proc[p].node ELSE lab[n]]
    BY <1>10 DEF Mark, Target
  <2>3. lab' \in [Node -> {Free, Frozen} \cup Node]
    BY <1>1, <2>1, <2>2 DEF Tables
  <2> QED
    BY <1>1, <1>10, <2>3 DEF Mark, Tables, bounded, history
<1>11. ASSUME NEW p \in Process, Clear(p) PROVE Tables'
  <2>1. proc[p].node \in Node
    BY <1>11 DEF Clear, At, Shapes, Shape
  <2>2. /\ \/ lab' = lab
           \/ lab' = [n \in Node |-> IF lab[n] = proc[p].node THEN Free ELSE lab[n]]
        /\ \/ cause' = [cause EXCEPT ![proc[p].node] = "none"]
           \/ cause' = [cause EXCEPT ![proc[p].node] = "crossed"]
           \/ cause' = [cause EXCEPT ![proc[p].node] = "uncleared"]
    BY <1>11 DEF Clear, Untainted, Target
  <2>3. lab' \in [Node -> {Free, Frozen} \cup Node]
    BY <1>1, <2>2 DEF Tables
  <2>4. cause' \in [Node -> Cause]
    BY <1>1, <2>2 DEF Tables, Cause
  <2> QED
    BY <1>1, <1>11, <2>3, <2>4 DEF Clear, Tables, bounded
<1>12. ASSUME NEW p \in Process, Close(p) PROVE Tables'
  <2>1. proc[p].node \in Node
    BY <1>12 DEF Close, At, Shapes, Shape
  <2>2. /\ pending' = [pending EXCEPT ![proc[p].node] = None]
        /\ vstatus' = vstatus \/ vstatus' = [vstatus EXCEPT ![proc[p].node] = "completed"]
        /\ archived' \in {archived, archived \cup {proc[p].node}}
    BY <1>12 DEF Close, Target
  <2>3. pending' \in [Node -> Complete \cup {None}] /\ archived' \subseteq Node
    BY <1>1, <2>1, <2>2 DEF Tables
  <2>4. vstatus' \in [Node -> VStatus]
    BY <1>1, <1>2, <2>2 DEF Tables
  <2> QED
    BY <1>1, <1>12, <2>3, <2>4 DEF Close, Tables, bounded, history
<1>13. ASSUME NEW p \in Process, Thaw(p) PROVE Tables'
  <2>1. proc[p].node \in Node
    BY <1>13 DEF Thaw, At, Shapes, Shape
  <2>2. vstatus' \in [Node -> VStatus]
    BY <1>1, <1>2, <1>13, <2>1 DEF Thaw, Target, Tables
  <2>3. lab' \in [Node -> {Free, Frozen} \cup Node]
    BY <1>1, <1>13, <2>1 DEF Thaw, Target, Tables
  <2>4. thawed' \subseteq Node
    BY <1>1, <1>13, <2>1 DEF Thaw, Target, Tables
  <2> QED
    BY <1>1, <1>13, <2>2, <2>3, <2>4 DEF Thaw, Tables, bounded
<1>14. ASSUME NEW p \in Process, EnqueueCritique(p) PROVE Tables'
  <2>1. /\ proc[p].pc = "enqueue" /\ proc[p] \in Proc /\ Shape(proc[p]) /\ "none" \in Decision
    BY <1>1, <1>14 DEF EnqueueCritique, At, Shapes, Decision
  <2>2. CASE /\ ApplyNow(p, proc[p].verdict, Judged(proc[p].verdict), "none")
             /\ UNCHANGED <<queue, entries, unreviewed>>
    <3>1. proc[p].node \in Node /\ vstatus' = [vstatus EXCEPT ![proc[p].node] = "completed"]
      <4>1. proc[p].verdict \in Complete
        BY <2>1 DEF Proc, Shape
      <4> QED
        BY <2>1, <2>2, <4>1, ApplyMoves
    <3> QED
      BY <1>1, <1>2, <1>14, <2>2, <3>1 DEF EnqueueCritique, Tables
  <2>3. CASE Chained(proc[p].node, "critique", proc[p].depth + 1)
    <3>1. /\ proc[p].node \in Node /\ proc[p].depth + 1 \in 0..MaxChainDepth
          /\ "critique" \in Kind \ {"recovery"}
      BY <2>1 DEF Shape, Proc, Kind
    <3>2. /\ queue' \subseteq Entry /\ entries' \in 0..MaxEntries
          /\ vstatus' \in [Node -> VStatus] /\ unreviewed' \subseteq Node
      BY <1>1, <2>3, <3>1, ChainedKeeps
    <3> QED
      BY <1>1, <1>14, <3>2 DEF EnqueueCritique, Tables
  <2>4. CASE unreviewed' = unreviewed \cup {proc[p].node} /\ UNCHANGED <<queue, vstatus, entries>>
    <3>1. proc[p].node \in Node
      BY <2>1 DEF Shape
    <3> QED
      BY <1>1, <1>14, <2>4, <3>1 DEF EnqueueCritique, Tables
  <2> QED
    BY <1>14, <2>2, <2>3, <2>4 DEF EnqueueCritique, Target
<1>15. ASSUME NEW p \in Process, Decide(p) PROVE Tables'
  <2>1. /\ proc[p].pc = "decide" /\ "confirm" \in Decision /\ "correct" \in Decision
        /\ "confirm" /= "none" /\ "correct" /= "none"
    BY <1>15 DEF Decide, At, Decision
  <2>2. proc[p].node \in Node /\ vstatus' = [vstatus EXCEPT ![proc[p].node] = "completed"]
    <3>1. proc[p].parent \in Complete
      BY <1>1, <2>1 DEF Proc, Shapes, Shape
    <3> QED
      BY <1>15, <2>1, <3>1, ApplyMoves DEF Decide
  <2> QED
    BY <1>1, <1>2, <1>15, <2>2 DEF Decide, Tables, bounded, history
<1>16. ASSUME NEW p \in Process, Retest(p) PROVE Tables'
  <2>1. proc[p] \in Proc /\ Shape(proc[p]) /\ proc[p].pc = "decide"
    BY <1>1, <1>16 DEF Retest, At, Shapes
  <2>2. /\ proc[p].node \in Node /\ proc[p].depth + 1 \in 0..MaxChainDepth
        /\ "retest" \in Kind \ {"recovery"}
    BY <1>16, <2>1 DEF Retest, LastInChain, Shape, Proc, Kind
  <2>3. /\ queue' \subseteq Entry /\ entries' \in 0..MaxEntries
        /\ vstatus' \in [Node -> VStatus] /\ unreviewed' \subseteq Node
    BY <1>1, <1>16, <2>2, ChainedKeeps DEF Retest, Target
  <2> QED
    BY <1>1, <1>16, <2>2, <2>3 DEF Retest, Target, Tables
<1>17. ASSUME NEW p \in Process, Orphaned(p) PROVE Tables'
  <2>1. proc[p].node \in Node
    BY <1>17 DEF Orphaned, At, Shapes, Shape
  <2>2. vstatus' \in [Node -> VStatus] /\ pending' \in [Node -> Complete \cup {None}]
    BY <1>1, <1>2, <1>17, <2>1 DEF Orphaned, Target, Tables
  <2> QED
    BY <1>1, <1>17, <2>2 DEF Orphaned, Tables, bounded, history
<1>18. ASSUME NEW p \in Process, DecideThrows(p) PROVE Tables'
  <2>1. proc[p].node \in Node
    BY <1>18 DEF DecideThrows, At, Shapes, Shape
  <2> QED
    BY <1>1, <1>18, <2>1 DEF DecideThrows, Target, Tables, bounded
<1>19. ASSUME NEW p \in Process, Fail(p) PROVE Tables'
  <2>1. /\ proc[p].node \in Node /\ proc[p].kind \in Kind \ {"recovery"}
        /\ proc[p].depth \in 0..MaxChainDepth
    BY <1>1, <1>19, FailMoves DEF Proc
  <2>2. CASE Insert(proc[p].node, proc[p].kind, proc[p].depth) /\ UNCHANGED unreviewed
    <3>1. queue' \subseteq Entry /\ entries' \in 0..MaxEntries
      BY <1>1, <2>1, <2>2, InsertKeeps
    <3> QED
      BY <1>1, <1>19, <2>2, <3>1 DEF Fail, Tables
  <2>3. CASE unreviewed' \in {unreviewed, unreviewed \cup {proc[p].node}} /\ UNCHANGED <<queue, entries>>
    BY <1>1, <1>19, <2>1, <2>3 DEF Fail, Tables
  <2> QED
    BY <1>19, <2>2, <2>3 DEF Fail, Target
<1>20. ASSUME NEW p \in Process, NEW v \in Complete, Record(p, v) PROVE Tables'
  <2>1. /\ proc[p].node \in Node
        /\ \/ /\ pending' = [pending EXCEPT ![proc[p].node] = v]
              /\ vstatus' = [vstatus EXCEPT ![proc[p].node] = "pending_review"]
           \/ /\ pending' = pending
              /\ vstatus' = [vstatus EXCEPT ![proc[p].node] = "completed"]
    BY <1>20, RecordMoves
  <2> QED
    BY <1>1, <1>2, <1>20, <2>1 DEF Record, Tables, bounded, history
<1>21. ASSUME NEW p \in Process, NEW v \in Complete, NEW n \in Scanned, Scan(p, n, v) PROVE Tables'
  <2>1. scans' \in 0..MaxScans
    BY <1>1, <1>21 DEF Scan, Tables
  <2>2. n \in Node
    BY <1>21
  <2>3. vstatus' \in [Node -> VStatus] /\ cause' \in [Node -> Cause]
    BY <1>1, <1>2, <1>21, <2>2 DEF Scan, Tables, Cause
  <2> QED
    BY <1>1, <1>21, <2>1, <2>3 DEF Scan, Tables
<1>22. ASSUME Sweep PROVE Tables'
  <2>1. others' \in 0..MaxOthers
    BY <1>1, <1>22 DEF Sweep, Other, Tables
  <2>2. lab' \in [Node -> {Free, Frozen} \cup Node]
    BY <1>1, <1>22 DEF Sweep, Tables
  <2> QED
    BY <1>1, <1>22, <2>1, <2>2 DEF Sweep, Tables, history
<1>23. ASSUME UNCHANGED vars PROVE Tables'
  BY <1>1, <1>23 DEF vars, bounded, history, Tables
<1>24. ASSUME NEW p \in Process, Skip(p) PROVE Tables'
  <2>1. proc[p].node \in Node
    BY <1>24, SkipMoves
  <2> QED
    BY <1>1, <1>24, <2>1 DEF Skip, Target, Tables, bounded
<1> QED
  BY <1>3, <1>4, <1>5, <1>6, <1>7, <1>8, <1>9, <1>10, <1>11, <1>12, <1>13, <1>14, <1>15,
     <1>16, <1>17, <1>18, <1>19, <1>20, <1>21, <1>22, <1>23, <1>24
  DEF Next, Consequence, Review

\* The types hold at the start ...
LEMMA TypeInit ==
  Init => TypeOK /\ Shapes
<1> SUFFICES ASSUME Init PROVE TypeOK /\ Shapes
  OBVIOUS
<1>1. proc \in [Process -> Proc] /\ \A p \in Process : proc[p] = Off
  BY OffIsProc DEF Init
<1>2. Shapes
  BY <1>1 DEF Shapes, Shape, Off
<1>3. Tables
  BY DEF Init, Tables, VStatus, Cause
<1> QED
  BY <1>1, <1>2, <1>3, TypeParts

\* ... and every step keeps them.
LEMMA TypeNext ==
  TypeOK /\ Shapes /\ [Next]_vars => TypeOK' /\ Shapes'
<1> SUFFICES ASSUME TypeOK, Shapes, [Next]_vars PROVE TypeOK' /\ Shapes'
  OBVIOUS
<1>1. Tested \cup Scanned \subseteq Node
  OBVIOUS
<1>2. Tables' /\ proc' \in [Process -> Proc] /\ Shapes'
  BY <1>1, ProcNext, TablesNext
<1> QED
  BY <1>2, TypeParts DEF TypeOK, Tables, Shapes, Shape, At

\* The variables keep their types: the status of a node is one of those that the code
\* writes, no chain is longer than its depth allows, nobody decides without an execution to
\* decide about, and the walk of the taint never goes deeper than it may.
THEOREM TypesHold == Spec => []TypeOK
<1>1. Spec => [](TypeOK /\ Shapes)
  BY TypeInit, TypeNext, PTL DEF Spec
<1> QED
  BY <1>1, PTL
-----------------------------------------------------------------------------
(* The freeze *)

(* A frozen node of a pipeline has its mark, or somebody else took it. *)
Held(r, l, th) == r.froze => r.node \in Node /\ (l[r.node] = Frozen \/ r.node \in th)

\* FreezeHolds, process by process.
LEMMA HeldIsFreezeHolds ==
  ASSUME Shapes
  PROVE  FreezeHolds <=> \A p \in Process : Held(proc[p], lab, thawed)
  BY DEF FreezeHolds, Held, Target, Shapes, Shape

\* No mark is lost, and the processes that moved are about what they were about.
LEMMA MarksKept ==
  ASSUME \A p \in Process : Held(proc[p], lab, thawed), TypeOK,
         \A p \in Process : proc'[p].froze = proc[p].froze /\ proc'[p].node = proc[p].node,
         \A n \in Node : lab[n] = Frozen => lab'[n] = Frozen \/ n \in thawed',
         thawed \subseteq thawed'
  PROVE  \A p \in Process : Held(proc'[p], lab', thawed')
  BY DEF Held

\* Every step leaves the marks of those under experiment, or it is known who took them.
LEMMA FreezeNext ==
  ASSUME TypeOK, Shapes, [Next]_vars, \A p \in Process : Held(proc[p], lab, thawed)
  PROVE  \A p \in Process : Held(proc'[p], lab', thawed')
<1>1. lab \in [Node -> {Free, Frozen} \cup Node] /\ Frozen \notin Node /\ Frozen /= Free
  BY DEF TypeOK
<1> DEFINE Same == \A p \in Process : proc'[p].froze = proc[p].froze /\ proc'[p].node = proc[p].node
           Marks == \A n \in Node : lab[n] = Frozen => lab'[n] = Frozen \/ n \in thawed'
<1>2. ASSUME NEW p \in Process, Moves(p) PROVE Same
  BY <1>2 DEF Moves, Kin
<1>3. ASSUME proc' = proc PROVE Same
  BY <1>3
<1>4. ASSUME lab' = lab PROVE Marks
  BY <1>4
<1>5. ASSUME NEW p \in Process, NEW e \in queue, Claim(p, e)
      PROVE  \A q \in Process : Held(proc'[q], lab', thawed')
  <2>1. /\ \A q \in Process \ {p} : proc'[q] = proc[q]
        /\ proc'[p].node = e.node /\ e.node \in Node /\ proc'[p].froze \in BOOLEAN
        /\ lab' = IF proc'[p].froze THEN [lab EXCEPT ![e.node] = Frozen] ELSE lab
        /\ thawed' = IF proc'[p].froze THEN thawed \ {e.node} ELSE thawed
    BY <1>5, ClaimMoves
  <2>2. Held(proc'[p], lab', thawed')
    BY <1>1, <2>1 DEF Held
  <2>3. ASSUME NEW q \in Process \ {p} PROVE Held(proc[q], lab', thawed')
    BY <1>1, <2>1 DEF Held
  <2> QED
    BY <2>1, <2>2, <2>3
<1>6. ASSUME NEW p \in Process, NEW v \in Complete, NEW n \in Scanned, Scan(p, n, v)
      PROVE  \A q \in Process : Held(proc'[q], lab', thawed')
  <2>1. ~proc'[p].froze /\ \A q \in Process \ {p} : proc'[q] = proc[q]
    BY <1>6, ScanMoves
  <2>2. lab' = lab /\ thawed' = thawed
    BY <1>6 DEF Scan
  <2> QED
    BY <2>1, <2>2 DEF Held
<1>7. ASSUME NEW p \in Process, Thaw(p)
      PROVE  \A q \in Process : Held(proc'[q], lab', thawed')
  <2>1. proc'[p] = Off /\ \A q \in Process \ {p} : proc'[q] = proc[q]
    BY <1>7 DEF Thaw, TypeOK
  <2>2. Held(Off, lab', thawed')
    BY DEF Held, Off
  <2>3. ASSUME NEW q \in Process \ {p}, proc[q].froze PROVE Held(proc[q], lab', thawed')
    <3>1. proc[q].node \in Node /\ (lab[proc[q].node] = Frozen \/ proc[q].node \in thawed)
      BY <2>3 DEF Held
    <3>2. thawed \subseteq thawed'
      BY <1>7 DEF Thaw
    <3>3. CASE proc[q].node /= proc[p].node \/ ~proc[p].froze
      BY <1>1, <1>7, <3>1, <3>2, <3>3 DEF Thaw, Target, Held
    <3>4. CASE proc[q].node = proc[p].node /\ proc[p].froze
      <4>1. q \in On(proc[p].node) \ {p}
        BY <2>3, <3>4 DEF On
      <4>2. proc[p].node \in thawed'
        BY <1>7, <2>3, <3>4, <4>1 DEF Thaw, Target
      <4> QED
        BY <3>1, <3>4, <4>2 DEF Held
    <3> QED
      BY <3>3, <3>4
  <2>4. ASSUME NEW q \in Process \ {p} PROVE Held(proc[q], lab', thawed')
    BY <2>3 DEF Held
  <2> QED
    BY <2>1, <2>2, <2>4
<1>8. ASSUME NEW p \in Process, Mark(p) PROVE Same /\ Marks /\ thawed' = thawed
  <2>1. Moves(p)
    BY <1>8, MarkMoves
  <2>2. PICK marked \in SUBSET proc[p].layer :
          lab' = [n \in Node |-> IF n \in marked /\ lab[n] = Free THEN proc[p].node ELSE lab[n]]
    BY <1>8 DEF Mark, Target
  <2> QED
    BY <1>1, <1>2, <1>8, <2>1, <2>2 DEF Mark, history
<1>9. ASSUME NEW p \in Process, Clear(p) PROVE Same /\ Marks /\ thawed' = thawed
  <2>1. Moves(p) /\ proc[p].node \in Node
    BY <1>9, AfterMoves DEF Clear, At, Shapes, Shape
  <2>2. \/ lab' = lab
        \/ lab' = [n \in Node |-> IF lab[n] = proc[p].node THEN Free ELSE lab[n]]
    BY <1>9 DEF Clear, Untainted, Target
  <2>3. Marks
    BY <1>1, <2>1, <2>2
  <2> QED
    BY <1>2, <1>9, <2>1, <2>3 DEF Clear
<1>10. ASSUME Sweep PROVE Same /\ Marks /\ thawed' = thawed
  <2>1. Marks
    BY <1>1, <1>10 DEF Sweep
  <2> QED
    BY <1>3, <1>10, <2>1 DEF Sweep, history
<1>11. ASSUME NEW n \in Node, ThawOther(n) PROVE Same /\ Marks /\ thawed \subseteq thawed'
  <2>1. Marks /\ thawed \subseteq thawed'
    BY <1>1, <1>11 DEF ThawOther
  <2> QED
    BY <1>3, <1>11, <2>1 DEF ThawOther
<1>12. ASSUME NEW p \in Process,
              \/ AutoArchive(p) \/ Layer(p) \/ Close(p) \/ Review(p) \/ Fail(p)
              \/ Throws(p) \/ Skip(p) \/ \E v \in Complete : Record(p, v)
       PROVE  Same /\ Marks /\ thawed' = thawed
  <2>1. lab' = lab /\ thawed' = thawed
    BY <1>12 DEF AutoArchive, Layer, Close, Review, Fail, Throws, Skip, Record, EnqueueCritique,
                 CritiqueError, Decide, Retest, Orphaned, DecideThrows, history
  <2>2. Moves(p)
    BY <1>12, StepMoves
  <2>3. Same
    BY <1>2, <2>2
  <2> QED
    BY <1>4, <2>1, <2>3
<1>13. ASSUME \/ \E n \in Tested : Enqueue(n)
              \/ \E n \in Node : ArchiveNode(n)
              \/ \E e \in queue : CancelEntry(e)
              \/ UNCHANGED vars
       PROVE  Same /\ Marks /\ thawed' = thawed
  <2>1. proc' = proc /\ lab' = lab /\ thawed' = thawed
    BY <1>13 DEF Enqueue, ArchiveNode, CancelEntry, vars, history
  <2> QED
    BY <1>3, <1>4, <2>1
<1>14. ASSUME Same, Marks, thawed \subseteq thawed'
       PROVE  \A q \in Process : Held(proc'[q], lab', thawed')
  BY <1>14, MarksKept
<1> HIDE DEF Same, Marks
<1> QED
  BY <1>5, <1>6, <1>7, <1>8, <1>9, <1>10, <1>11, <1>12, <1>13, <1>14
  DEF Next, Consequence

\* A node under experiment stays frozen until its experiment is over, whatever taint is
\* spread, cleared or swept in the meantime: only another pipeline of the same node, the
\* watchdog or the recovery of orphans takes the mark away.
THEOREM FreezeOutlivesTaint == Spec => []FreezeHolds
<1> DEFINE Inv == TypeOK /\ Shapes /\ \A p \in Process : Held(proc[p], lab, thawed)
<1>1. Init => Inv
  <2>1. Init => \A p \in Process : Held(proc[p], lab, thawed)
    BY DEF Init, Off, Held
  <2> QED
    BY <2>1, TypeInit
<1>2. Inv /\ [Next]_vars => Inv'
  BY TypeNext, FreezeNext
<1>3. Inv => FreezeHolds
  BY HeldIsFreezeHolds
<1> QED
  BY <1>1, <1>2, <1>3, PTL DEF Spec
-----------------------------------------------------------------------------
(* Reviews *)

(* Somebody will review the node n, or the review is lost. *)
Waits(n, lost, jobs, procs) ==
  \/ n \in lost
  \/ \E e \in jobs : e.node = n /\ e.kind = "critique"
  \/ \E p \in Process : procs[p].node = n /\ Reviews(procs[p])

ReviewInv ==
  \A n \in Node : vstatus[n] = "pending_review" => Waits(n, unreviewed, queue, proc)

\* Who reviews is queued or under way.
LEMMA ReviewInvImplies ==
  ReviewInv => PendingHasReview
  BY DEF ReviewInv, PendingHasReview, Waits, Reviews, On, At

\* What a node waits for stays, when a step of one process leaves it there.
LEMMA WaitsOn ==
  ASSUME NEW n \in Node, NEW p \in Process, Waits(n, unreviewed, queue, proc),
         \A q \in Process \ {p} : proc'[q] = proc[q],
         n \in unreviewed => n \in unreviewed',
         \A e \in queue : e.node = n /\ e.kind = "critique" => e \in queue',
         proc[p].node = n /\ Reviews(proc[p]) => proc'[p].node = n /\ Reviews(proc'[p])
  PROVE  Waits(n, unreviewed', queue', proc')
<1>1. CASE n \in unreviewed
  BY <1>1 DEF Waits
<1>2. CASE \E e \in queue : e.node = n /\ e.kind = "critique"
  BY <1>2 DEF Waits
<1>3. ASSUME NEW q \in Process, proc[q].node = n, Reviews(proc[q])
      PROVE  proc'[q].node = n /\ Reviews(proc'[q])
  BY <1>3
<1> QED
  BY <1>1, <1>2, <1>3 DEF Waits

\* A chain job has been queued, or refused: nobody waits in vain for it.
LEMMA ChainedWaits ==
  ASSUME TypeOK, ReviewInv, NEW p \in Process, Moves(p), proc[p].node \in Node,
         NEW kind, NEW depth, Chained(proc[p].node, kind, depth)
  PROVE  ReviewInv'
<1> DEFINE t == proc[p].node
<1>1. vstatus \in [Node -> VStatus]
  BY DEF TypeOK
<1>2. CASE t \in archived /\ unreviewed' = unreviewed \cup {t} /\ vstatus' = vstatus /\ queue' = queue
  <2>1. ASSUME NEW n \in Node \ {t}, vstatus'[n] = "pending_review"
        PROVE  Waits(n, unreviewed', queue', proc')
    BY <1>2, <2>1, WaitsOn DEF ReviewInv, Moves
  <2>2. Waits(t, unreviewed', queue', proc')
    BY <1>2 DEF Waits
  <2> QED
    BY <2>1, <2>2 DEF ReviewInv
<1>3. CASE /\ queue' = queue \cup {[node |-> t, kind |-> kind, depth |-> depth]}
           /\ vstatus' = [vstatus EXCEPT ![t] = IF kind = "critique" THEN "pending_review"
                                               ELSE "in_queue"]
           /\ unreviewed' = unreviewed \ {t}
  <2>1. ASSUME NEW n \in Node \ {t}, vstatus'[n] = "pending_review"
        PROVE  Waits(n, unreviewed', queue', proc')
    <3>1. vstatus[n] = "pending_review"
      BY <1>1, <1>3, <2>1
    <3>2. n \in unreviewed => n \in unreviewed'
      BY <1>3, <2>1
    <3> QED
      BY <1>3, <2>1, <3>1, <3>2, WaitsOn DEF ReviewInv, Moves
  <2>2. ASSUME vstatus'[t] = "pending_review" PROVE Waits(t, unreviewed', queue', proc')
    <3>1. kind = "critique"
      BY <1>1, <1>3, <2>2
    <3> DEFINE e == [node |-> t, kind |-> kind, depth |-> depth]
    <3>2. e \in queue' /\ e.node = t /\ e.kind = "critique"
      BY <1>3, <3>1
    <3> HIDE DEF e
    <3> QED
      BY <3>2 DEF Waits
  <2> QED
    BY <2>1, <2>2 DEF ReviewInv
<1> QED
  BY <1>2, <1>3 DEF Chained, Insert

\* A process moves, and no node begins to wait for what it may have ended.
LEMMA MovesWait ==
  ASSUME ReviewInv, NEW p \in Process, \A q \in Process \ {p} : proc'[q] = proc[q],
         unreviewed \subseteq unreviewed', queue \subseteq queue',
         Reviews(proc[p]) => proc'[p].node = proc[p].node /\ Reviews(proc'[p]),
         \A n \in Node : vstatus'[n] = "pending_review" => vstatus[n] = "pending_review"
  PROVE  ReviewInv'
<1>1. ASSUME NEW n \in Node, vstatus'[n] = "pending_review"
      PROVE  Waits(n, unreviewed', queue', proc')
  <2>1. Waits(n, unreviewed, queue, proc)
    BY <1>1 DEF ReviewInv
  <2> QED
    BY <2>1, WaitsOn
<1> QED
  BY <1>1 DEF ReviewInv

\* The same where only the node of the process may have lost its review.
LEMMA MovesWaitBut ==
  ASSUME ReviewInv, NEW p \in Process, Moves(p),
         unreviewed \subseteq unreviewed', queue \subseteq queue',
         \A n \in Node \ {proc[p].node} :
           vstatus'[n] = "pending_review" => vstatus[n] = "pending_review",
         vstatus'[proc[p].node] = "pending_review"
           => Waits(proc[p].node, unreviewed', queue', proc')
  PROVE  ReviewInv'
<1>1. ASSUME NEW n \in Node \ {proc[p].node}, vstatus'[n] = "pending_review"
      PROVE  Waits(n, unreviewed', queue', proc')
  <2>1. Waits(n, unreviewed, queue, proc)
    BY <1>1 DEF ReviewInv
  <2> QED
    BY <1>1, <2>1, WaitsOn DEF Moves
<1> QED
  BY <1>1 DEF ReviewInv

\* No step makes a node wait for nothing.
LEMMA ReviewNext ==
  ASSUME TypeOK, Shapes, ReviewInv, [Next]_vars
  PROVE  ReviewInv'
<1>1. /\ proc \in [Process -> Proc] /\ vstatus \in [Node -> VStatus] /\ queue \subseteq Entry
      /\ \A p \in Process : Shape(proc[p])
  BY DEF TypeOK, Shapes
<1>2. ASSUME \/ \E n \in Node : ArchiveNode(n) \/ ThawOther(n)
             \/ Sweep \/ UNCHANGED vars
      PROVE  ReviewInv'
  <2>1. /\ vstatus' = vstatus /\ unreviewed' = unreviewed /\ queue' = queue /\ proc' = proc
    BY <1>2 DEF ArchiveNode, ThawOther, Sweep, vars, history
  <2> QED
    BY <2>1 DEF ReviewInv
<1>3. ASSUME NEW n \in Tested, Enqueue(n) PROVE ReviewInv'
  <2>1. /\ vstatus' = [vstatus EXCEPT ![n] = "in_queue"] /\ proc' = proc
        /\ unreviewed' = unreviewed /\ queue \subseteq queue'
    BY <1>3 DEF Enqueue, Insert, history
  <2>2. ASSUME NEW m \in Node, vstatus'[m] = "pending_review"
        PROVE  Waits(m, unreviewed', queue', proc')
    <3>1. vstatus[m] = "pending_review"
      BY <1>1, <2>1, <2>2
    <3> QED
      BY <2>1, <3>1 DEF ReviewInv, Waits
  <2> QED
    BY <2>2 DEF ReviewInv
<1>4. ASSUME NEW e \in queue, CancelEntry(e) PROVE ReviewInv'
  <2>1. /\ vstatus' = [vstatus EXCEPT ![e.node] =
                         IF @ = "in_queue" /\ ~Active(e.node)' THEN "none" ELSE @]
        /\ proc' = proc /\ queue' = queue \ {e}
        /\ unreviewed' = IF e.kind = "critique" THEN unreviewed \cup {e.node} ELSE unreviewed
    BY <1>4 DEF CancelEntry
  <2>2. ASSUME NEW m \in Node, vstatus'[m] = "pending_review"
        PROVE  Waits(m, unreviewed', queue', proc')
    <3>1. vstatus[m] = "pending_review"
      BY <1>1, <2>1, <2>2
    <3> QED
      BY <2>1, <3>1 DEF ReviewInv, Waits
  <2> QED
    BY <2>2 DEF ReviewInv
<1>5. ASSUME NEW p \in Process, NEW e \in queue, Claim(p, e) PROVE ReviewInv'
  <2>1. /\ proc[p].pc = "off" /\ queue' = queue \ {e}
        /\ vstatus' = vstatus /\ unreviewed' = unreviewed
    BY <1>5 DEF Claim, At
  <2>2. /\ \A q \in Process \ {p} : proc'[q] = proc[q]
        /\ proc'[p].node = e.node /\ (e.kind = "critique" => Reviews(proc'[p]))
    BY <1>5, ClaimMoves
  <2>3. ~Reviews(proc[p])
    BY <2>1 DEF Reviews
  <2>4. ASSUME NEW n \in Node, vstatus'[n] = "pending_review"
        PROVE  Waits(n, unreviewed', queue', proc')
    <3>1. Waits(n, unreviewed, queue, proc)
      BY <2>1, <2>4 DEF ReviewInv
    <3>2. CASE e.node = n /\ e.kind = "critique"
      BY <2>2, <3>2 DEF Waits
    <3>3. CASE ~(e.node = n /\ e.kind = "critique")
      BY <2>1, <2>2, <2>3, <3>1, <3>3, WaitsOn
    <3> QED
      BY <3>2, <3>3
  <2> QED
    BY <2>4 DEF ReviewInv
<1>6. ASSUME NEW p \in Process, NEW v \in Complete, NEW n \in Scanned, Scan(p, n, v)
      PROVE  ReviewInv'
  <2>1. /\ proc[p].pc = "off" /\ queue' = queue /\ unreviewed' = unreviewed
        /\ vstatus' = vstatus \/ vstatus' = [vstatus EXCEPT ![n] = "completed"]
    BY <1>6 DEF Scan, At
  <2>2. \A q \in Process \ {p} : proc'[q] = proc[q]
    BY <1>6, ScanMoves
  <2>3. ~Reviews(proc[p])
    BY <2>1 DEF Reviews
  <2>4. \A m \in Node : vstatus'[m] = "pending_review" => vstatus[m] = "pending_review"
    BY <1>1, <2>1
  <2> QED
    BY <2>1, <2>2, <2>3, <2>4, MovesWait
<1>7. ASSUME NEW p \in Process, Thaw(p) PROVE ReviewInv'
  <2>1. /\ proc[p].pc = "thaw" /\ queue' = queue /\ unreviewed' = unreviewed
        /\ \A q \in Process \ {p} : proc'[q] = proc[q]
        /\ vstatus' = [vstatus EXCEPT ![proc[p].node] =
                         IF @ = "in_queue" /\ proc[p].kind /= "recovery" /\ ~Active(proc[p].node)
                         THEN "none" ELSE @]
    BY <1>1, <1>7 DEF Thaw, At, Target
  <2>2. ~Reviews(proc[p])
    BY <2>1 DEF Reviews
  <2>3. \A m \in Node : vstatus'[m] = "pending_review" => vstatus[m] = "pending_review"
    BY <1>1, <2>1
  <2> QED
    BY <2>1, <2>2, <2>3, MovesWait
<1>8. ASSUME NEW p \in Process, AutoArchive(p) \/ Layer(p) \/ Mark(p) \/ Clear(p) \/ CritiqueError(p)
      PROVE  ReviewInv'
  <2>1. vstatus' = vstatus /\ queue' = queue /\ unreviewed' = unreviewed
    BY <1>8 DEF AutoArchive, Layer, Mark, Clear, CritiqueError, history
  <2>2. Moves(p) /\ (Reviews(proc[p]) => Reviews(proc'[p]))
    BY <1>8, AutoArchiveMoves, LayerMoves, MarkMoves, AfterMoves, CritiqueErrorMoves DEF Clear, At
  <2> QED
    BY <2>1, <2>2, MovesWait DEF Moves, Kin
<1>9. ASSUME NEW p \in Process, NEW v \in Complete, Record(p, v) PROVE ReviewInv'
  <2>1. queue' = queue /\ unreviewed' = unreviewed
    BY <1>9 DEF Record, history
  <2>2. /\ Moves(p) /\ proc[p].node \in Node
        /\ \/ /\ vstatus' = [vstatus EXCEPT ![proc[p].node] = "pending_review"]
              /\ Reviews(proc'[p])
           \/ vstatus' = [vstatus EXCEPT ![proc[p].node] = "completed"]
    BY <1>9, RecordMoves
  <2>3. \A n \in Node \ {proc[p].node} :
          vstatus'[n] = "pending_review" => vstatus[n] = "pending_review"
    BY <1>1, <2>2
  <2>4. vstatus'[proc[p].node] = "pending_review"
          => Waits(proc[p].node, unreviewed', queue', proc')
    BY <1>1, <2>2 DEF Waits, Moves, Kin
  <2> QED
    BY <2>1, <2>2, <2>3, <2>4, MovesWaitBut
<1>10. ASSUME NEW p \in Process, Close(p) PROVE ReviewInv'
  <2>1. /\ queue' = queue /\ unreviewed' = unreviewed /\ proc[p].pc = "close"
        /\ vstatus' = vstatus \/ vstatus' = [vstatus EXCEPT ![proc[p].node] = "completed"]
    BY <1>10 DEF Close, At, Target, history
  <2>2. Moves(p)
    BY <1>10, StepMoves
  <2>3. \A n \in Node : vstatus'[n] = "pending_review" => vstatus[n] = "pending_review"
    BY <1>1, <2>1
  <2>4. ~Reviews(proc[p])
    BY <1>1, <2>1 DEF Reviews, Shape
  <2> QED
    BY <2>1, <2>2, <2>3, <2>4, MovesWait DEF Moves
<1>11. ASSUME NEW p \in Process, EnqueueCritique(p) PROVE ReviewInv'
  <2>1. /\ Moves(p) /\ proc[p].node \in Node /\ proc[p].pc = "enqueue" /\ "none" \in Decision
        /\ proc[p].verdict \in Complete
    <3>1. proc[p].pc = "enqueue" /\ proc[p] \in Proc /\ Shape(proc[p])
      BY <1>1, <1>11 DEF EnqueueCritique, At, TypeOK
    <3> QED
      BY <1>11, <3>1, StepMoves DEF Review, Shape, Decision, Proc
  <2>2. CASE Chained(proc[p].node, "critique", proc[p].depth + 1)
    BY <2>1, <2>2, ChainedWaits
  <2>3. CASE /\ ApplyNow(p, proc[p].verdict, Judged(proc[p].verdict), "none")
             /\ UNCHANGED <<queue, entries, unreviewed>>
    <3>1. vstatus' = [vstatus EXCEPT ![proc[p].node] = "completed"]
      BY <2>1, <2>3, ApplyMoves
    <3>2. \A n \in Node : vstatus'[n] = "pending_review"
                           => vstatus[n] = "pending_review" /\ n /= proc[p].node
      BY <1>1, <3>1
    <3> QED
      BY <2>1, <2>3, <3>2, MovesWaitBut
  <2>4. CASE unreviewed' = unreviewed \cup {proc[p].node} /\ UNCHANGED <<queue, vstatus, entries>>
    <3>1. Waits(proc[p].node, unreviewed', queue', proc')
      BY <2>4 DEF Waits
    <3> QED
      BY <2>1, <2>4, <3>1, MovesWaitBut
  <2> QED
    BY <1>11, <2>2, <2>3, <2>4 DEF EnqueueCritique, Target
<1>12. ASSUME NEW p \in Process, Decide(p) PROVE ReviewInv'
  <2>1. /\ proc[p].pc = "decide" /\ "confirm" \in Decision /\ "correct" \in Decision
        /\ "confirm" /= "none" /\ "correct" /= "none"
        /\ queue' = queue /\ unreviewed' = unreviewed
        /\ \/ ApplyNow(p, proc[p].parent, Judged(proc[p].parent), "confirm")
           \/ \E v \in Complete : ApplyNow(p, v, v, "correct")
    BY <1>12 DEF Decide, At, Decision, history
  <2>2. /\ Moves(p) /\ proc[p].node \in Node
        /\ vstatus' = [vstatus EXCEPT ![proc[p].node] = "completed"]
    <3>1. proc[p].parent \in Complete
      BY <1>1, <2>1 DEF TypeOK, Proc, Shape
    <3> QED
      BY <2>1, <3>1, ApplyMoves
  <2>3. \A n \in Node : vstatus'[n] = "pending_review"
                         => vstatus[n] = "pending_review" /\ n /= proc[p].node
    BY <1>1, <2>2
  <2> QED
    BY <2>1, <2>2, <2>3, MovesWaitBut
<1>13. ASSUME NEW p \in Process, Retest(p) PROVE ReviewInv'
  <2>1. Moves(p) /\ proc[p].node \in Node
    BY <1>1, <1>13, StepMoves DEF Review, Retest, At, Shape
  <2>2. Chained(proc[p].node, "retest", proc[p].depth + 1)
    BY <1>13 DEF Retest, Target
  <2> QED
    BY <2>1, <2>2, ChainedWaits
<1>14. ASSUME NEW p \in Process, Orphaned(p) PROVE ReviewInv'
  <2>1. Moves(p) /\ proc[p].node \in Node
    BY <1>1, <1>14, StepMoves DEF Review, Orphaned, At, Shape
  <2>2. /\ queue' = queue /\ unreviewed' = unreviewed
        /\ vstatus' = [vstatus EXCEPT ![proc[p].node] = IF @ = "pending_review" THEN "none" ELSE @]
    BY <1>14 DEF Orphaned, Target, history
  <2>3. \A n \in Node : vstatus'[n] = "pending_review"
                         => vstatus[n] = "pending_review" /\ n /= proc[p].node
    BY <1>1, <2>2
  <2> QED
    BY <2>1, <2>2, <2>3, MovesWaitBut
<1>15. ASSUME NEW p \in Process, DecideThrows(p) PROVE ReviewInv'
  <2>1. Moves(p) /\ proc[p].node \in Node
    BY <1>1, <1>15, StepMoves DEF Review, DecideThrows, At, Shape
  <2>2. queue' = queue /\ unreviewed' = unreviewed \cup {proc[p].node} /\ vstatus' = vstatus
    BY <1>15 DEF DecideThrows, Target
  <2>3. Waits(proc[p].node, unreviewed', queue', proc')
    BY <2>2 DEF Waits
  <2> QED
    BY <2>1, <2>2, <2>3, MovesWaitBut
<1>16. ASSUME NEW p \in Process, Fail(p) PROVE ReviewInv'
  <2>1. /\ Moves(p) /\ proc[p].node \in Node
        /\ Reviews(proc[p]) => proc[p].kind = "critique" /\ proc[p].pc /= "retry"
    BY <1>16, FailMoves
  <2>2. /\ vstatus' = vstatus /\ queue \subseteq queue' /\ unreviewed \subseteq unreviewed'
        /\ \/ [node |-> proc[p].node, kind |-> proc[p].kind, depth |-> proc[p].depth] \in queue'
           \/ proc[p].kind = "critique" /\ proc[p].pc /= "retry" => proc[p].node \in unreviewed'
    BY <1>16 DEF Fail, Insert, Target, At
  <2>3. CASE ~Reviews(proc[p])
    BY <2>1, <2>2, <2>3, MovesWait DEF Moves
  <2>4. CASE proc[p].kind = "critique" /\ proc[p].pc /= "retry"
    <3>1. CASE proc[p].node \in unreviewed'
      BY <2>1, <2>2, <3>1, MovesWaitBut DEF Waits
    <3>2. CASE [node |-> proc[p].node, kind |-> proc[p].kind, depth |-> proc[p].depth] \in queue'
      <4> DEFINE e == [node |-> proc[p].node, kind |-> proc[p].kind, depth |-> proc[p].depth]
      <4>1. e \in queue' /\ e.node = proc[p].node /\ e.kind = "critique"
        BY <2>4, <3>2
      <4> HIDE DEF e
      <4>2. Waits(proc[p].node, unreviewed', queue', proc')
        BY <4>1 DEF Waits
      <4> QED
        BY <2>1, <2>2, <4>2, MovesWaitBut
    <3> QED
      BY <2>2, <2>4, <3>1, <3>2
  <2> QED
    BY <2>1, <2>3, <2>4
<1>17. ASSUME NEW p \in Process, Throws(p) PROVE ReviewInv'
  <2>1. vstatus' = vstatus /\ queue' = queue /\ unreviewed' = unreviewed
    BY <1>17 DEF Throws, history
  <2>2. Moves(p) /\ (Reviews(proc[p]) => Reviews(proc'[p]))
    BY <1>17, ThrowsMoves
  <2> QED
    BY <2>1, <2>2, MovesWait DEF Moves, Kin
<1>18. ASSUME NEW p \in Process, Skip(p) PROVE ReviewInv'
  <2>1. /\ Moves(p) /\ proc[p].node \in Node
        /\ Reviews(proc[p]) => proc[p].kind = "critique"
    BY <1>18, SkipMoves
  <2>2. /\ vstatus' = vstatus /\ queue' = queue /\ unreviewed \subseteq unreviewed'
        /\ proc[p].kind = "critique" => proc[p].node \in unreviewed'
    BY <1>18 DEF Skip, Target
  <2>3. CASE ~Reviews(proc[p])
    BY <2>1, <2>2, <2>3, MovesWait DEF Moves
  <2>4. CASE proc[p].kind = "critique"
    BY <2>1, <2>2, <2>4, MovesWaitBut DEF Waits
  <2> QED
    BY <2>1, <2>3, <2>4
<1> QED
  BY <1>2, <1>3, <1>4, <1>5, <1>6, <1>7, <1>8, <1>9, <1>10, <1>11, <1>12, <1>13, <1>14,
     <1>15, <1>16, <1>17, <1>18
  DEF Next, Consequence, Review

\* A node that shows 'pending_review' is never forgotten: its critique is queued or under
\* way, or it is known how the review was lost. The status is a promise that one component
\* writes and three others keep: the chain, the queue and the retry of a failed critique.
THEOREM ReviewsAreNotForgotten == Spec => []PendingHasReview
<1> DEFINE Inv == TypeOK /\ Shapes /\ ReviewInv
<1>1. Init => Inv
  <2>1. Init => ReviewInv
    BY DEF Init, ReviewInv
  <2> QED
    BY <2>1, TypeInit
<1>2. Inv /\ [Next]_vars => Inv'
  BY TypeNext, ReviewNext
<1>3. Inv => PendingHasReview
  BY ReviewInvImplies
<1> QED
  BY <1>1, <1>2, <1>3, PTL DEF Spec
-----------------------------------------------------------------------------
(* The reach of the taint *)

\* A nonempty set of numbers has a least one.
LEMMA LeastMember ==
  ASSUME NEW S, S \subseteq Nat, S /= {}
  PROVE  \E m \in S : \A k \in S : m <= k
<1>1. PICK m \in S : \A k \in S : ~ (<<k, m>> \in OpToRel(<, Nat))
  BY NatLessThanWellFounded, WFMin
<1>2. ASSUME NEW k \in S PROVE m <= k
  <2>1. ~ (<<k, m>> \in OpToRel(<, Nat)) /\ <<k, m>> \in Nat \X Nat
    BY <1>1
  <2>2. ~ (k < m)
    BY <2>1 DEF OpToRel
  <2> QED
    BY <2>2
<1> QED
  BY <1>2

\* Induction up to a bound, over a set.
LEMMA Upward ==
  ASSUME NEW last \in Nat, NEW S, 0 \in S, \A k \in 0..(last - 1) : k \in S => k + 1 \in S
  PROVE  0..last \subseteq S
<1> DEFINE T == {k \in 0..last : k \notin S}
<1>1. SUFFICES ASSUME T /= {} PROVE FALSE
  OBVIOUS
<1>2. PICK m \in T : \A k \in T : m <= k
  <2>1. T \subseteq Nat
    OBVIOUS
  <2> HIDE DEF T
  <2> QED
    BY <1>1, <2>1, LeastMember
<1>3. m - 1 \in 0..(last - 1) /\ m - 1 \notin T
  BY <1>2
<1> QED
  BY <1>2, <1>3

(* One more edge. *)
Further(f, k) ==
  IF k = 0 THEN [s \in Node |-> {}]
  ELSE [s \in Node |-> Child[s] \cup UNION {f[k - 1][c] : c \in Child[s]}]

\* A function that satisfies the recursion exists, so that Below does.
LEMMA BelowDefined == Below = [k \in 0..TaintMaxDepth |-> Further(Below, k)]
<1> DEFINE Is(f, m) == f = [k \in 0..m |-> Further(f, k)]
           S == {m \in 0..TaintMaxDepth : \E f : Is(f, m)}
<1>1. 0 \in S
  <2> DEFINE f == [k \in 0..0 |-> [s \in Node |-> {}]]
  <2>1. f = [k \in 0..0 |-> Further(f, k)]
    <3>1. \A k \in 0..0 : f[k] = Further(f, k)
      BY DEF Further
    <3>2. f = [k \in 0..0 |-> f[k]]
      OBVIOUS
    <3> HIDE DEF f
    <3> QED
      BY <3>1, <3>2
  <2>2. \E g : Is(g, 0)
    <3>1. Is(f, 0)
      BY <2>1
    <3> HIDE DEF Is, f
    <3> QED
      BY <3>1
  <2> QED
    BY <2>2
<1>2. ASSUME NEW m \in 0..(TaintMaxDepth - 1), m \in S PROVE m + 1 \in S
  <2>1. PICK g : Is(g, m)
    BY <1>2
  <2> DEFINE f == [k \in 0..(m + 1) |-> IF k = m + 1 THEN Further(g, k) ELSE g[k]]
  <2>2. ASSUME NEW k \in 0..(m + 1) PROVE f[k] = Further(f, k)
    <3>1. f[k] = Further(g, k)
      BY <2>1
    <3>2. CASE k = 0
      BY <3>1, <3>2 DEF Further
    <3>3. CASE k /= 0
      <4>1. k - 1 \in 0..(m + 1) /\ k - 1 /= m + 1
        BY <3>3
      <4>2. f[k - 1] = g[k - 1]
        BY <4>1
      <4> HIDE DEF f
      <4> QED
        BY <3>1, <3>3, <4>2 DEF Further
    <3> QED
      BY <3>2, <3>3
  <2>3. Is(f, m + 1)
    <3>1. f = [k \in 0..(m + 1) |-> f[k]]
      OBVIOUS
    <3> HIDE DEF f
    <3> QED
      BY <2>2, <3>1
  <2>4. \E h : Is(h, m + 1)
    <3> HIDE DEF f, Is
    <3> QED
      BY <2>3
  <2> QED
    BY <2>4
<1>3. TaintMaxDepth \in S
  <2> HIDE DEF S
  <2> QED
    BY <1>1, <1>2, Upward
<1>4. \E f : Is(f, TaintMaxDepth)
  BY <1>3
<1>5. Below = CHOOSE f : Is(f, TaintMaxDepth)
  BY DEF Below, Further
<1> QED
  <2>1. Is(Below, TaintMaxDepth)
    <3> HIDE DEF Is
    <3> QED
      BY <1>4, <1>5
  <2> QED
    BY <2>1

\* What Below is, edge by edge.
LEMMA BelowIs ==
  /\ \A s \in Node : Below[0][s] = {}
  /\ \A k \in 1..TaintMaxDepth, s \in Node :
       Below[k][s] = Child[s] \cup UNION {Below[k - 1][c] : c \in Child[s]}
<1>1. \A k \in 0..TaintMaxDepth : Below[k] = Further(Below, k)
  <2> HIDE DEF Below
  <2> QED
    BY BelowDefined
<1>2. 0 \in 0..TaintMaxDepth /\ \A k \in 1..TaintMaxDepth : k \in 0..TaintMaxDepth /\ k /= 0
  OBVIOUS
<1>3. ASSUME NEW s \in Node PROVE Below[0][s] = {}
  <2>1. Below[0] = [n \in Node |-> {}]
    BY <1>1, <1>2 DEF Further
  <2> QED
    BY <2>1
<1>4. ASSUME NEW k \in 1..TaintMaxDepth, NEW s \in Node
      PROVE  Below[k][s] = Child[s] \cup UNION {Below[k - 1][c] : c \in Child[s]}
  <2>1. Below[k] = [n \in Node |-> Child[n] \cup UNION {Below[k - 1][c] : c \in Child[n]}]
    BY <1>1, <1>2 DEF Further
  <2> QED
    BY <2>1
<1> QED
  BY <1>3, <1>4

\* What is below a node within some edges is below it within one more.
LEMMA BelowGrows ==
  ASSUME NEW k \in 0..(TaintMaxDepth - 1), NEW s \in Node
  PROVE  Below[k][s] \subseteq Below[k + 1][s]
<1> DEFINE S == {j \in 0..TaintMaxDepth :
                   j < TaintMaxDepth => \A n \in Node : Below[j][n] \subseteq Below[j + 1][n]}
<1>1. 0 \in S
  BY BelowIs
<1>2. ASSUME NEW j \in 0..(TaintMaxDepth - 1), j \in S PROVE j + 1 \in S
  <2> SUFFICES ASSUME j + 1 < TaintMaxDepth, NEW n \in Node
               PROVE  Below[j + 1][n] \subseteq Below[j + 1 + 1][n]
    OBVIOUS
  <2>1. \A c \in Child[n] : c \in Node /\ Below[j][c] \subseteq Below[j + 1][c]
    BY <1>2
  <2>2. j + 1 \in 1..TaintMaxDepth /\ j + 1 + 1 \in 1..TaintMaxDepth /\ j + 1 - 1 = j
        /\ j + 1 + 1 - 1 = j + 1
    OBVIOUS
  <2>3. Below[j + 1][n] = Child[n] \cup UNION {Below[j][c] : c \in Child[n]}
    BY <2>2, BelowIs
  <2>4. Below[j + 1 + 1][n] = Child[n] \cup UNION {Below[j + 1][c] : c \in Child[n]}
    BY <2>2, BelowIs
  <2> QED
    BY <2>1, <2>3, <2>4
<1>3. 0..TaintMaxDepth \subseteq S
  <2> HIDE DEF S
  <2> QED
    BY <1>1, <1>2, Upward
<1>4. k \in S /\ k < TaintMaxDepth
  BY <1>3
<1> QED
  BY <1>4

\* So it is below the node within the greatest depth.
LEMMA BelowAtLast ==
  ASSUME NEW k \in 0..TaintMaxDepth, NEW s \in Node
  PROVE  Below[k][s] \subseteq Below[TaintMaxDepth][s]
<1> DEFINE S == {j \in 0..TaintMaxDepth : k <= j => Below[k][s] \subseteq Below[j][s]}
<1>1. 0 \in S
  <2>1. k <= 0 => k = 0
    OBVIOUS
  <2> QED
    BY <2>1
<1>2. ASSUME NEW j \in 0..(TaintMaxDepth - 1), j \in S PROVE j + 1 \in S
  <2>1. k <= j + 1 => k <= j \/ k = j + 1
    OBVIOUS
  <2>2. Below[j][s] \subseteq Below[j + 1][s] /\ j + 1 \in 0..TaintMaxDepth
    BY BelowGrows
  <2> QED
    BY <1>2, <2>1, <2>2
<1>3. 0..TaintMaxDepth \subseteq S
  <2> HIDE DEF S
  <2> QED
    BY <1>1, <1>2, Upward
<1>4. TaintMaxDepth \in S /\ k <= TaintMaxDepth
  BY <1>3
<1> QED
  BY <1>4

\* Below is built from the source on, the walk goes from the last layer on: an edge may be
\* put at the end as well.
LEMMA BelowChild ==
  ASSUME NEW k \in 0..(TaintMaxDepth - 1), NEW s \in Node, NEW m \in Below[k][s], NEW c \in Child[m]
  PROVE  c \in Below[k + 1][s]
<1> DEFINE S == {j \in 0..TaintMaxDepth : j < TaintMaxDepth =>
                   \A n \in Node : \A x \in Below[j][n] : Child[x] \subseteq Below[j + 1][n]}
<1>1. 0 \in S
  BY BelowIs
<1>2. ASSUME NEW j \in 0..(TaintMaxDepth - 1), j \in S PROVE j + 1 \in S
  <2> SUFFICES ASSUME j + 1 < TaintMaxDepth, NEW n \in Node, NEW x \in Below[j + 1][n]
               PROVE  Child[x] \subseteq Below[j + 1 + 1][n]
    OBVIOUS
  <2>1. j + 1 \in 1..TaintMaxDepth /\ j + 1 + 1 \in 1..TaintMaxDepth /\ j + 1 - 1 = j
        /\ j + 1 + 1 - 1 = j + 1
    OBVIOUS
  <2>2. Below[j + 1][n] = Child[n] \cup UNION {Below[j][y] : y \in Child[n]}
    BY <2>1, BelowIs
  <2>3. Below[j + 1 + 1][n] = Child[n] \cup UNION {Below[j + 1][y] : y \in Child[n]}
    BY <2>1, BelowIs
  <2>4. CASE x \in Child[n]
    <3>1. x \in Node
      BY <2>4
    <3>2. Below[j + 1][x] = Child[x] \cup UNION {Below[j][y] : y \in Child[x]}
      BY <2>1, <3>1, BelowIs
    <3>3. Child[x] \subseteq Below[j + 1][x]
      BY <3>2
    <3> QED
      BY <2>3, <2>4, <3>3
  <2>5. ASSUME NEW y \in Child[n], x \in Below[j][y] PROVE Child[x] \subseteq Below[j + 1 + 1][n]
    <3>1. y \in Node
      OBVIOUS
    <3>2. Child[x] \subseteq Below[j + 1][y]
      BY <1>2, <2>5, <3>1
    <3> QED
      BY <2>3, <3>2
  <2> QED
    BY <2>2, <2>4, <2>5
<1>3. 0..TaintMaxDepth \subseteq S
  <2> HIDE DEF S
  <2> QED
    BY <1>1, <1>2, Upward
<1>4. k \in S /\ k < TaintMaxDepth
  BY <1>3
<1> QED
  BY <1>4
-----------------------------------------------------------------------------
(* The walks *)

(* The node itself, or what is below it within k edges. *)
Within(s, k) == IF k = 0 THEN {s} ELSE Below[k][s]

(* A walk has its source among X from its first layer on, and goes one edge a layer. *)
Walk(r, X) ==
  /\ r.pc = "archive" => r.layer = {r.node} /\ r.left = TaintMaxDepth
  /\ r.pc \in {"layer", "mark"} => r.node \in X
  /\ r.pc = "layer" => r.layer \subseteq Within(r.node, TaintMaxDepth - r.left)
  /\ r.pc = "mark" => r.layer \subseteq Within(r.node, TaintMaxDepth - r.left + 1)

(* TaintExplained of the marks l, with the sources X. *)
Explained(l, X) ==
  \A m \in Node : l[m] \in Node => m \in Below[TaintMaxDepth][l[m]] /\ l[m] \in X

\* One edge further.
LEMMA WithinChild ==
  ASSUME NEW k \in 0..(TaintMaxDepth - 1), NEW s \in Node, NEW m \in Within(s, k), NEW c \in Child[m]
  PROVE  c \in Within(s, k + 1)
<1>1. k + 1 /= 0
  OBVIOUS
<1>2. CASE k = 0
  <2>1. 1 \in 1..TaintMaxDepth /\ m = s /\ k + 1 = 1
    BY <1>2 DEF Within
  <2>2. Child[s] \subseteq Below[1][s]
    BY <2>1, BelowIs
  <2> QED
    BY <1>1, <2>1, <2>2 DEF Within
<1>3. CASE k /= 0
  BY <1>1, <1>3, BelowChild DEF Within
<1> QED
  BY <1>2, <1>3

\* A verdict that begins a walk begins it at its node, with all its depth.
LEMMA SpreadWalks ==
  ASSUME NEW r \in Proc, NEW v, NEW ref \in {"archive", "layer"}, NEW X,
         v = "refuted" /\ ref = "layer" => r.node \in X
  PROVE  Walk(Spread(r, v, ref), X)
<1>1. CASE v = "refuted"
  <2> DEFINE s == [r EXCEPT !.pc = ref, !.layer = {r.node}, !.left = TaintMaxDepth]
  <2>1. Spread(r, v, ref) = s
    BY <1>1 DEF Spread
  <2>2. s.pc = ref /\ s.layer = {r.node} /\ s.left = TaintMaxDepth /\ s.node = r.node
    BY DEF Proc
  <2>3. Within(r.node, TaintMaxDepth - TaintMaxDepth) = {r.node}
    BY DEF Within
  <2> HIDE DEF s
  <2> QED
    BY <1>1, <2>1, <2>2, <2>3 DEF Walk
<1>2. CASE v /= "refuted"
  <2>1. Spread(r, v, ref).pc = "clear"
    BY <1>2 DEF Spread, Proc
  <2> QED
    BY <2>1 DEF Walk
<1> QED
  BY <1>1, <1>2

\* Other fields do not matter.
LEMMA WalkFields ==
  ASSUME NEW r, NEW s, NEW X, Walk(r, X), s.pc = r.pc, s.node = r.node, s.layer = r.layer,
         s.left = r.left
  PROVE  Walk(s, X)
  BY DEF Walk

\* The consequences of a verdict, at once or by a critique.
LEMMA CountedWalks ==
  ASSUME NEW r \in Proc, r.node \in Node, NEW v, NEW b \in BOOLEAN, NEW X
  PROVE  Walk(Counted(Spread(r, v, "archive"), b), X)
<1> DEFINE s == Spread(r, v, "archive")
<1>1. Walk(s, X)
  BY SpreadWalks
<1>2. s \in Proc
  BY SpreadKeeps
<1> HIDE DEF s
<1> DEFINE c == Counted(s, b)
<1>3. c.pc = s.pc /\ c.node = s.node /\ c.layer = s.layer /\ c.left = s.left
  BY <1>2 DEF Counted, Proc
<1> HIDE DEF c
<1>4. Walk(c, X)
  BY <1>1, <1>3, WalkFields
<1> QED
  BY <1>4 DEF c, s

\* The decision of a critique is followed by such a walk.
LEMMA ApplyWalks ==
  ASSUME TypeOK, Shapes, NEW p \in Process, NEW v, NEW w, NEW d, ApplyNow(p, v, w, d),
         proc[p].node \in Node, NEW X
  PROVE  Walk(proc'[p], X)
<1> DEFINE c == Counted(Spread(proc[p], w, "archive"), TRUE)
           e == [c EXCEPT !.verdict = IF v = w THEN None ELSE v, !.decision = d]
<1>1. proc[p] \in Proc /\ proc \in [Process -> Proc]
  BY DEF TypeOK
<1>2. Walk(c, X)
  BY <1>1, CountedWalks
<1>3. proc'[p] = e
  BY <1>1 DEF ApplyNow
<1>4. DOMAIN c = DOMAIN Off
  BY <1>1 DEF Counted, Spread, Proc, Off
<1> HIDE DEF c
<1>5. e.pc = c.pc /\ e.node = c.node /\ e.layer = c.layer /\ e.left = c.left
  BY <1>4 DEF Off
<1> HIDE DEF e
<1> QED
  BY <1>2, <1>3, <1>5, WalkFields

\* Elsewhere there is no walk.
LEMMA NoWalk ==
  ASSUME NEW r, NEW X, r.pc \notin {"archive", "layer", "mark"}
  PROVE  Walk(r, X)
  BY DEF Walk

\* What comes after a walk.
LEMMA AfterWalks ==
  ASSUME TypeOK, NEW p \in Process, After(p)
  PROVE  proc'[p].pc \in {"thaw", "decide", "close"}
<1>1. proc[p] \in Proc /\ proc \in [Process -> Proc]
  BY DEF TypeOK
<1> QED
  BY <1>1 DEF After, Proc

\* The walk goes to the children of its layer.
LEMMA LayerWalks ==
  ASSUME TypeOK, Shapes, NEW p \in Process, Layer(p), NEW X, Walk(proc[p], X)
  PROVE  Walk(proc'[p], X)
<1>1. proc[p] \in Proc /\ proc \in [Process -> Proc] /\ proc[p].pc = "layer" /\ proc[p].node \in Node
  BY DEF TypeOK, Shapes, Shape, Layer, At
<1>2. CASE After(p)
  BY <1>2, AfterWalks, NoWalk
<1>3. CASE proc[p].left > 0 /\ proc' = [proc EXCEPT ![p].pc = "mark", ![p].layer = NextLayer(p)]
  <2> DEFINE k == TaintMaxDepth - proc[p].left
  <2>1. proc'[p].pc = "mark" /\ proc'[p].layer = NextLayer(p) /\ proc'[p].node = proc[p].node
        /\ proc'[p].left = proc[p].left
    BY <1>1, <1>3 DEF Proc
  <2>2. proc[p].left \in 0..TaintMaxDepth /\ k \in 0..(TaintMaxDepth - 1)
    BY <1>1, <1>3 DEF Proc
  <2>3. proc[p].layer \subseteq Within(proc[p].node, k) /\ proc[p].node \in X
    BY <1>1 DEF Walk
  <2> HIDE DEF k
  <2>4. ASSUME NEW c \in NextLayer(p) PROVE c \in Within(proc[p].node, k + 1)
    <3>1. PICK m \in proc[p].layer : c \in Child[m]
      BY DEF NextLayer
    <3> QED
      BY <1>1, <2>2, <2>3, <3>1, WithinChild
  <2> QED
    BY <2>1, <2>3, <2>4 DEF Walk, k
<1> QED
  BY <1>2, <1>3 DEF Layer

\* What a walk has marked was in reach, and the walk has one layer less to go.
LEMMA MarkWalks ==
  ASSUME TypeOK, Shapes, NEW p \in Process, Mark(p), NEW X, Walk(proc[p], X), Explained(lab, X)
  PROVE  Walk(proc'[p], X) /\ Explained(lab', X)
<1> DEFINE k == TaintMaxDepth - proc[p].left + 1
           s == proc[p].node
<1>1. proc[p] \in Proc /\ proc \in [Process -> Proc] /\ proc[p].pc = "mark" /\ s \in Node
      /\ proc[p].left > 0
  BY DEF TypeOK, Shapes, Shape, Mark, At
<1>2. proc[p].left \in 0..TaintMaxDepth /\ k \in 1..TaintMaxDepth
  BY <1>1 DEF Proc
<1>3. proc[p].layer \subseteq Within(s, k) /\ s \in X
  BY <1>1 DEF Walk
<1>4. /\ proc'[p].pc = "layer" /\ proc'[p].layer = proc[p].layer
      /\ proc'[p].node = s /\ proc'[p].left = proc[p].left - 1
  BY <1>1 DEF Mark, Proc
<1>5. TaintMaxDepth - proc'[p].left = k
  BY <1>2, <1>4
<1>6. k \in 0..TaintMaxDepth /\ k /= 0
  BY <1>2
<1> HIDE DEF k
<1>7. Walk(proc'[p], X)
  BY <1>3, <1>4, <1>5 DEF Walk
<1>8. proc[p].layer \subseteq Below[TaintMaxDepth][s]
  BY <1>1, <1>3, <1>6, BelowAtLast DEF Within
<1>9. PICK marked \in SUBSET proc[p].layer :
        lab' = [n \in Node |-> IF n \in marked /\ lab[n] = Free THEN s ELSE lab[n]]
  BY DEF Mark, Target
<1> HIDE DEF s
<1>10. Explained(lab', X)
  BY <1>3, <1>8, <1>9 DEF Explained
<1> QED
  BY <1>7, <1>10

\* With more sources, or fewer marks, all is explained as before.
LEMMA StillExplained ==
  ASSUME NEW l, NEW k, NEW X, NEW Y, Explained(l, X), X \subseteq Y,
         \A m \in Node : k[m] \in Node => k[m] = l[m]
  PROVE  Explained(k, Y)
  BY DEF Explained

\* With more sources a walk is still one.
LEMMA StillWalks ==
  ASSUME NEW r, NEW X, NEW Y, Walk(r, X), X \subseteq Y
  PROVE  Walk(r, Y)
  BY DEF Walk

(* The nodes that there may be taint by. *)
Caused(c) == {n \in Node : c[n] /= "none"}

(* What is known of the taint. *)
Traced == /\ Explained(lab, Caused(cause))
          /\ \A p \in Process : Walk(proc[p], Caused(cause))

\* A step of one process that adds sources or takes marks away.
LEMMA TracedKept ==
  ASSUME Traced, Caused(cause) \subseteq Caused(cause'),
         \A m \in Node : lab'[m] \in Node => lab'[m] = lab[m],
         NEW p \in Process, \A q \in Process \ {p} : proc'[q] = proc[q],
         Walk(proc'[p], Caused(cause'))
  PROVE  Traced'
<1>1. Explained(lab', Caused(cause'))
  BY StillExplained DEF Traced
<1>2. \A q \in Process \ {p} : Walk(proc'[q], Caused(cause'))
  BY StillWalks DEF Traced
<1> QED
  BY <1>1, <1>2 DEF Traced

\* A clearing takes all marks of its node away, and if the node is walked from, that is known;
\* so it is if the clearing fails.
LEMMA ClearTraced ==
  ASSUME TypeOK, Shapes, Traced, NEW p \in Process, Clear(p)
  PROVE  Traced'
<1> DEFINE s == proc[p].node
           X == Caused(cause)
           Y == Caused(cause')
<1>1. Moves(p) /\ s \in Node /\ proc'[p].pc \in {"thaw", "decide", "close"}
  BY AfterMoves, AfterWalks DEF Clear, At, Shapes, Shape
<1>2. cause \in [Node -> Cause]
  BY DEF TypeOK
<1>3. CASE lab' = lab /\ cause' = [cause EXCEPT ![s] = "uncleared"]
  <2>1. X \subseteq Y
    BY <1>2, <1>3 DEF Caused
  <2>2. Walk(proc'[p], Y)
    BY <1>1, NoWalk
  <2> QED
    BY <1>1, <1>3, <2>1, <2>2, TracedKept DEF Moves
<1>4. CASE /\ lab' = Untainted(s)
           /\ cause' = [cause EXCEPT ![s] = IF \E q \in On(s) : proc[q].pc \in {"layer", "mark"}
                                            THEN "crossed" ELSE "none"]
  <2>1. lab' = [n \in Node |-> IF lab[n] = s THEN Free ELSE lab[n]]
    BY <1>4 DEF Untainted
  <2>2. X \ {s} \subseteq Y
    BY <1>2, <1>4 DEF Caused
  <2>3. Explained(lab', Y)
    BY <2>1, <2>2 DEF Explained, Traced
  <2>4. ASSUME NEW q \in Process \ {p} PROVE Walk(proc'[q], Y)
    <3>1. Walk(proc[q], X) /\ proc'[q] = proc[q]
      BY <1>1 DEF Traced, Moves
    <3>2. ASSUME proc[q].pc \in {"layer", "mark"} PROVE proc[q].node \in Y
      <4>1. CASE proc[q].node = s
        <5>1. q \in On(s)
          BY <4>1 DEF On
        <5>2. cause'[s] = "crossed"
          BY <1>1, <1>2, <1>4, <3>2, <5>1
        <5> QED
          BY <1>1, <4>1, <5>2 DEF Caused
      <4>2. CASE proc[q].node /= s
        BY <2>2, <3>1, <3>2, <4>2 DEF Walk
      <4> QED
        BY <4>1, <4>2
    <3> QED
      BY <3>1, <3>2 DEF Walk
  <2>5. Walk(proc'[p], Y)
    BY <1>1, NoWalk
  <2> QED
    BY <2>3, <2>4, <2>5 DEF Traced
<1> QED
  BY <1>3, <1>4 DEF Clear, Target

\* Every step leaves the taint explained.
LEMMA TracedNext ==
  ASSUME TypeOK, Shapes, [Next]_vars, Traced
  PROVE  Traced'
<1> DEFINE X == Caused(cause)
           Y == Caused(cause')
<1>1. /\ proc \in [Process -> Proc] /\ lab \in [Node -> {Free, Frozen} \cup Node]
      /\ Free \notin Node /\ Frozen \notin Node
      /\ cause \in [Node -> Cause] /\ Scanned \subseteq Node
      /\ \A p \in Process : Walk(proc[p], X)
  BY DEF TypeOK, Traced
<1>2. ASSUME NEW p \in Process, Mark(p) PROVE Traced'
  <2>1. Walk(proc'[p], X) /\ Explained(lab', X)
    BY <1>1, <1>2, MarkWalks DEF Traced
  <2>2. (\A q \in Process \ {p} : proc'[q] = proc[q]) /\ cause' = cause
    BY <1>1, <1>2 DEF Mark, history
  <2> QED
    BY <1>1, <2>1, <2>2 DEF Traced
<1>3. ASSUME NEW p \in Process, Clear(p) PROVE Traced'
  BY <1>3, ClearTraced
<1>4. ASSUME NEW p \in Process, Layer(p) PROVE Traced'
  <2>1. Moves(p) /\ Walk(proc'[p], X)
    BY <1>1, <1>4, LayerMoves, LayerWalks
  <2>2. lab' = lab /\ cause' = cause
    BY <1>4 DEF Layer, history
  <2> QED
    BY <2>1, <2>2, TracedKept DEF Moves
<1>5. ASSUME NEW p \in Process, AutoArchive(p) PROVE Traced'
  <2>1. /\ Moves(p) /\ proc[p].node \in Node /\ proc[p].pc = "archive"
        /\ proc'[p].pc = "layer" /\ proc'[p].node = proc[p].node
        /\ proc'[p].layer = proc[p].layer /\ proc'[p].left = proc[p].left
    BY <1>5, AutoArchiveMoves DEF AutoArchive, At, Moves, Kin
  <2>2. TaintMaxDepth - TaintMaxDepth = 0
    OBVIOUS
  <2>3. proc'[p].layer = {proc[p].node} /\ proc'[p].left = TaintMaxDepth
    BY <1>1, <2>1 DEF Walk
  <2>4. /\ lab' = lab
        /\ \E x \in {"refuted", "misjudged"} : cause' = [cause EXCEPT ![proc[p].node] = x]
    BY <1>5 DEF AutoArchive, Target
  <2>5. X \subseteq Y /\ proc[p].node \in Y
    BY <1>1, <2>1, <2>4 DEF Caused
  <2>6. Walk(proc'[p], Y)
    BY <2>1, <2>2, <2>3, <2>5 DEF Walk, Within
  <2> QED
    BY <2>1, <2>4, <2>5, <2>6, TracedKept DEF Moves
<1>6. ASSUME NEW p \in Process, NEW v \in Complete, NEW n \in Scanned, Scan(p, n, v) PROVE Traced'
  <2> DEFINE r == [Off EXCEPT !.node = n]
  <2>1. r \in Proc /\ r.node = n /\ n \in Node
    BY <1>1, OffIsProc DEF Off, Proc
  <2>2. proc'[p] = Spread(r, v, "layer") /\ \A q \in Process \ {p} : proc'[q] = proc[q]
    BY <1>1, <1>6 DEF Scan
  <2>3. /\ lab' = lab
        /\ cause' = IF v = "refuted" THEN [cause EXCEPT ![n] = "refuted"] ELSE cause
    BY <1>6 DEF Scan
  <2>4. X \subseteq Y /\ (v = "refuted" => n \in Y)
    BY <1>1, <2>1, <2>3 DEF Caused
  <2> HIDE DEF r
  <2>5. Walk(proc'[p], Y)
    BY <2>1, <2>2, <2>4, SpreadWalks
  <2> QED
    BY <2>2, <2>3, <2>4, <2>5, TracedKept
<1>7. ASSUME NEW p \in Process, NEW e \in queue, Claim(p, e) PROVE Traced'
  <2>1. /\ \A q \in Process \ {p} : proc'[q] = proc[q]
        /\ lab' = IF proc'[p].froze THEN [lab EXCEPT ![e.node] = Frozen] ELSE lab
    BY <1>7, ClaimMoves
  <2>2. proc'[p].pc \in {"fail", "run"} /\ cause' = cause
    BY <1>1, <1>7 DEF Claim, Off
  <2>3. Walk(proc'[p], Y)
    BY <2>2, NoWalk
  <2>4. \A m \in Node : lab'[m] \in Node => lab'[m] = lab[m]
    BY <1>1, <2>1
  <2> QED
    BY <2>1, <2>2, <2>3, <2>4, TracedKept
<1>8. ASSUME NEW p \in Process, Thaw(p) PROVE Traced'
  <2>1. proc'[p] = Off /\ \A q \in Process \ {p} : proc'[q] = proc[q]
    BY <1>1, <1>8 DEF Thaw
  <2>2. Walk(proc'[p], Y)
    BY <2>1, NoWalk DEF Off
  <2>3. (\A m \in Node : lab'[m] \in Node => lab'[m] = lab[m]) /\ cause' = cause
    BY <1>1, <1>8 DEF Thaw
  <2> QED
    BY <2>1, <2>2, <2>3, TracedKept
<1>9. ASSUME NEW p \in Process, NEW v \in Complete, Record(p, v) PROVE Walk(proc'[p], Y)
  <2>1. proc[p].node \in Node
    BY <1>9, RecordMoves
  <2>2. CASE proc' = [proc EXCEPT ![p].verdict = v, ![p].pc = "enqueue"]
    <3>1. proc'[p].pc = "enqueue"
      BY <1>1, <2>2 DEF Proc
    <3> QED
      BY <3>1, NoWalk
  <2>3. CASE proc' = [proc EXCEPT ![p] = Counted(Spread(@, v, "archive"), v /= "inconclusive")]
    BY <1>1, <2>1, <2>3, CountedWalks
  <2> QED
    BY <1>9, <2>2, <2>3 DEF Record
<1>10. ASSUME NEW p \in Process, Review(p) PROVE Walk(proc'[p], Y)
  <2>1. proc[p].node \in Node
    BY <1>10, <1>1 DEF Review, EnqueueCritique, CritiqueError, Decide, Retest, Orphaned, DecideThrows,
                      At, Shapes, Shape
  <2>2. \/ \E v, w, d : ApplyNow(p, v, w, d)
        \/ Done(p)
        \/ \E x \in {"thaw", "fail"} : proc' = [proc EXCEPT ![p].pc = x, ![p].verdict = None]
        \/ \E e : proc' = [proc EXCEPT ![p].pc = "decide", ![p].erred = e]
    BY <1>10 DEF Review, EnqueueCritique, CritiqueError, Decide, Retest, Orphaned, DecideThrows
  <2>3. ASSUME Done(p) PROVE proc'[p].pc \in {"retry", "thaw"}
    BY <1>1, <2>3 DEF Done, Proc
  <2>4. ASSUME \/ \E x \in {"thaw", "fail"} :
                    proc' = [proc EXCEPT ![p].pc = x, ![p].verdict = None]
               \/ \E e : proc' = [proc EXCEPT ![p].pc = "decide", ![p].erred = e]
        PROVE  proc'[p].pc \in {"thaw", "fail", "decide"}
    BY <1>1, <2>4 DEF Proc
  <2>5. ASSUME NEW v, NEW w, NEW d, ApplyNow(p, v, w, d) PROVE Walk(proc'[p], Y)
    BY <2>1, <2>5, ApplyWalks
  <2> QED
    BY <2>2, <2>3, <2>4, <2>5, NoWalk
<1>11. ASSUME NEW p \in Process, Close(p) \/ Fail(p) \/ Throws(p) \/ Skip(p)
       PROVE  Walk(proc'[p], Y)
  <2>1. proc'[p].pc \in {"retry", "thaw", "fail"}
    <3>1. ASSUME Close(p) \/ Fail(p) PROVE proc'[p].pc \in {"retry", "thaw"}
      BY <1>1, <3>1 DEF Close, Fail, Done, Goto, Proc
    <3> QED
      BY <1>11, <3>1, ThrowsMoves, SkipMoves
  <2> QED
    BY <2>1, NoWalk
<1>12. ASSUME NEW p \in Process,
              \/ Close(p) \/ Fail(p) \/ Throws(p) \/ Skip(p) \/ Review(p)
              \/ \E v \in Complete : Record(p, v)
       PROVE  Traced'
  <2>1. Moves(p) /\ Walk(proc'[p], Y)
    BY <1>9, <1>10, <1>11, <1>12, StepMoves
  <2>2. lab' = lab /\ cause' = cause
    BY <1>12 DEF Close, Review, Fail, Throws, Skip, Record, EnqueueCritique, CritiqueError, Decide,
                 Retest, Orphaned, DecideThrows, history
  <2> QED
    BY <2>1, <2>2, TracedKept DEF Moves
<1>13. ASSUME \/ \E n \in Tested : Enqueue(n)
              \/ \E n \in Node : ArchiveNode(n) \/ ThawOther(n)
              \/ \E e \in queue : CancelEntry(e)
              \/ Sweep \/ UNCHANGED vars
       PROVE  Traced'
  <2>1. proc' = proc /\ cause' = cause
    BY <1>13 DEF Enqueue, ArchiveNode, ThawOther, CancelEntry, Sweep, vars, history
  <2>2. \A m \in Node : lab'[m] \in Node => lab'[m] = lab[m]
    BY <1>1, <1>13 DEF Enqueue, ArchiveNode, ThawOther, CancelEntry, Sweep, vars
  <2>3. Explained(lab', Y)
    BY <2>1, <2>2, StillExplained DEF Traced
  <2> QED
    BY <2>1, <2>3 DEF Traced
<1> QED
  BY <1>1, <1>2, <1>3, <1>4, <1>5, <1>6, <1>7, <1>8, <1>12, <1>13 DEF Next, Consequence

\* A tainted node rests, within the depth, on the node that tainted it, and the last verdict on
\* that node was a refutation: however walks, clearings, freezes, archiving and the sweep overlap.
\* Three things leave other taint behind, and nothing else does: a clearing that crosses a walk
\* of the same node, a clearing that throws, and an inconclusive verdict taken for a refutation.
THEOREM TaintHasItsCause == Spec => []TaintExplained
<1> DEFINE Inv == TypeOK /\ Shapes /\ Traced
<1>1. Init => Inv
  <2>1. Init => Traced
    <3> SUFFICES ASSUME Init PROVE Traced
      OBVIOUS
    <3>1. Explained(lab, Caused(cause))
      BY DEF Init, Explained
    <3>2. \A p \in Process : Walk(proc[p], Caused(cause))
      BY NoWalk DEF Init, Off
    <3> QED
      BY <3>1, <3>2 DEF Traced
  <2> QED
    BY <2>1, TypeInit
<1>2. Inv /\ [Next]_vars => Inv'
  BY TypeNext, TracedNext
<1>3. Inv => TaintExplained
  BY DEF TypeOK, Cause, Caused, Traced, Explained, TaintExplained
<1> QED
  BY <1>1, <1>2, <1>3, PTL DEF Spec
=============================================================================
