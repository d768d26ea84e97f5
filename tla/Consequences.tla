---------------------------- MODULE Consequences ----------------------------
(***************************************************************************)
(* What a verdict of a lab does to the graph: the recording of a           *)
(* verification (evm/feedback.ts), the deferral of its consequences until  *)
(* a critique of the experiment has decided (evm/chaining.ts), and the two *)
(* marks in nodes.lab_status: the freeze of a node under experiment        *)
(* (lab/freeze.ts) and the taint of what rests on a refuted node           *)
(* (lab/taint.ts).                                                         *)
(*                                                                         *)
(* The queue is reduced to the set of its waiting entries; LabQueue and    *)
(* LabJob are its modules.  Pipelines run concurrently, each of them an    *)
(* asynchronous function: what it does between two awaits is an action.    *)
(* A weight is left out, only that it is changed is counted.  Writes may   *)
(* throw; the process does not crash here (see LabQueue and LabJob), and   *)
(* consequences are deferred where a critique comes first, as by default.  *)
(***************************************************************************)
EXTENDS Naturals

CONSTANTS
  Node,
  Child,          \* the edges of type 'parent': the nodes that rest on a node
  Tested,         \* bound: the nodes that experiments are queued for
  Scanned,        \* bound: the nodes that the recovery scan finds results of
  Process,        \* pipelines and scans under way
  None,           \* no node, no verdict
  Free, Frozen,   \* values of lab_status; 'tainted' is the node that tainted it
  ChainOn,        \* lab.chaining.critiqueOnVerdicts
  MaxChainDepth,  \* lab.chaining.maxChainDepth
  TaintMaxDepth,  \* lab.taintMaxDepth
  FreezeChoices,  \* what freezeOnStart and freezeOnExperiment may say
  MaxEntries,     \* bound: entries put into the queue
  MaxScans,       \* bound: results that the recovery scan finds
  MaxOthers       \* bound: nodes archived, taints expired, nodes thawed by others

Complete == {"supported", "refuted", "inconclusive"}

ASSUME ConsequencesAssumption ==
  /\ Child \in [Node -> SUBSET Node] /\ Tested \cup Scanned \subseteq Node
  /\ None /= Free /\ None /= Frozen /\ Free /= Frozen /\ {None, Free, Frozen} \cap Node = {}
  /\ None \notin Complete
  /\ ChainOn \subseteq Complete /\ FreezeChoices \subseteq BOOLEAN
  /\ {MaxChainDepth, TaintMaxDepth, MaxEntries, MaxScans, MaxOthers} \subseteq Nat

VARIABLES
  lab,        \* lab_status, with lab_taint_source_id
  vstatus,    \* verification_status
  archived,
  queue,      \* the waiting entries
  pending,    \* the verdict of the node's execution with chain_status 'pending_review'
  proc,       \* the pipelines and scans
  entries, scans, others,  \* how often the bounded things happened
  cause,      \* history: why there may be taint by a node
  thawed,     \* history: nodes thawed under the feet of a pipeline
  unreviewed  \* history: nodes whose critique was lost

bounded == <<entries, scans, others>>
history == <<cause, thawed, unreviewed>>
vars == <<lab, vstatus, archived, queue, pending, proc, bounded, history>>
-----------------------------------------------------------------------------
Kind    == {"experiment", "critique", "retest", "recovery"}
PC      == {"off", "run", "archive", "layer", "mark", "clear",
            "enqueue", "decide", "close", "retry", "fail", "thaw"}
\* Why there may be taint by a node: its last verdict was a refutation, or was taken for one;
\* the taint was cleared, but the clearing failed, or a walk of the node was under way
Cause   == {"none", "refuted", "misjudged", "uncleared", "crossed"}
VStatus == {"none", "in_queue", "pending_review", "completed"}
Off     == [pc |-> "off", node |-> None, kind |-> "recovery", depth |-> 0, froze |-> FALSE,
            verdict |-> None, parent |-> None, erred |-> FALSE, decision |-> "none",
            layer |-> {}, left |-> 0, applied |-> 0]

At(p, pc)   == proc[p].pc = pc
Goto(p, pc) == proc' = [proc EXCEPT ![p].pc = pc]
Target(p)   == proc[p].node
On(n)       == {p \in Process : proc[p].node = n}

\* An entry of the node is pending or processing; it is completed before the node is thawed
Active(n) == \/ \E e \in queue : e.node = n
             \/ \E p \in On(n) : proc[p].kind /= "recovery" /\ proc[p].pc /= "thaw"

Init ==
  /\ lab = [n \in Node |-> Free] /\ vstatus = [n \in Node |-> "none"]
  /\ archived = {} /\ queue = {}
  /\ pending = [n \in Node |-> None]
  /\ proc = [p \in Process |-> Off]
  /\ entries = 0 /\ scans = 0 /\ others = 0
  /\ cause = [n \in Node |-> "none"] /\ thawed = {} /\ unreviewed = {}
-----------------------------------------------------------------------------
(* The queue *)

Insert(n, kind, depth) ==
  /\ entries < MaxEntries /\ entries' = entries + 1
  /\ queue' = queue \cup {[node |-> n, kind |-> kind, depth |-> depth]}

\* A node is queued by a user or a cycle, once
Enqueue(n) ==
  /\ n \notin archived /\ ~Active(n) /\ Insert(n, "experiment", 0)
  /\ vstatus' = [vstatus EXCEPT ![n] = "in_queue"]
  /\ UNCHANGED <<lab, archived, pending, proc, scans, others, history>>

\* A chain job is queued whatever else there is for the node; its kind tells the status of
\* the node.  For an archived node it is refused, and nobody looks at that
Chained(n, kind, depth) ==
  \/ /\ n \notin archived /\ Insert(n, kind, depth)
     /\ vstatus' = [vstatus EXCEPT ![n] = IF kind = "critique" THEN "pending_review"
                                           ELSE "in_queue"]
     /\ unreviewed' = unreviewed \ {n}
  \/ /\ n \in archived
     /\ unreviewed' = unreviewed \cup {n}
     /\ UNCHANGED <<queue, vstatus, entries>>

\* An entry is cancelled while it waits
CancelEntry(e) ==
  /\ e \in queue /\ queue' = queue \ {e}
  /\ UNCHANGED <<lab, archived, pending, proc, bounded, cause, thawed>>
  /\ vstatus' = [vstatus EXCEPT ![e.node] =
                   IF @ = "in_queue" /\ ~Active(e.node)' THEN "none" ELSE @]
  /\ unreviewed' = IF e.kind = "critique" THEN unreviewed \cup {e.node} ELSE unreviewed

\* The execution that a critique is about: the one that waits for a review, or else the
\* latest, whose verdict is not kept here.  It has none to decide about when it resumes a
\* job after a restart, or when the lookup throws
Parents(e) == IF e.kind /= "critique" THEN {None}
              ELSE {None} \cup IF pending[e.node] /= None THEN {pending[e.node]} ELSE Complete

\* A pipeline takes an entry and freezes the node, tainted or not; then it finds the node
\* archived or goes to the lab
Claim(p, e) ==
  /\ At(p, "off") /\ e \in queue /\ queue' = queue \ {e}
  /\ \E freeze \in FreezeChoices, parent \in Parents(e) :
       /\ lab' = IF freeze THEN [lab EXCEPT ![e.node] = Frozen] ELSE lab
       /\ thawed' = IF freeze THEN thawed \ {e.node} ELSE thawed
       /\ proc' = [proc EXCEPT ![p] =
            [Off EXCEPT !.pc = IF e.node \in archived THEN "fail" ELSE "run",
                        !.node = e.node, !.kind = e.kind, !.depth = e.depth,
                        !.froze = freeze, !.parent = parent]]
  /\ UNCHANGED <<vstatus, archived, pending, bounded, cause, unreviewed>>
-----------------------------------------------------------------------------
(* A verification and what it records *)

\* shouldChain: a critique of the experiment comes before its consequences, unless the lab
\* reviewed the node instead of testing it, or its job was resumed
WillChain(p, v) == /\ proc[p].kind \in {"experiment", "retest"}
                   /\ v \in ChainOn /\ proc[p].depth < MaxChainDepth

\* No lab takes the experiment or the critique, or its verdict is unknown: the entry is
\* completed without one
Skip(p) ==
  /\ At(p, "run") /\ Goto(p, "thaw")
  /\ unreviewed' = IF proc[p].kind = "critique" THEN unreviewed \cup {Target(p)} ELSE unreviewed
  /\ UNCHANGED <<lab, vstatus, archived, queue, pending, bounded, cause, thawed>>

\* The pipeline fails, and its entry is tried again or not; so is the entry of a critique
\* that has decided without a verdict of its own.  An entry released for the budget waits again
Fail(p) ==
  /\ proc[p].pc \in {"run", "fail", "retry"} /\ Goto(p, "thaw")
  /\ \/ Insert(Target(p), proc[p].kind, proc[p].depth) /\ UNCHANGED unreviewed
     \/ /\ unreviewed' = IF proc[p].kind = "critique" /\ ~At(p, "retry")
                         THEN unreviewed \cup {Target(p)} ELSE unreviewed
        /\ UNCHANGED <<queue, entries>>
  /\ UNCHANGED <<lab, vstatus, archived, pending, scans, others, cause, thawed>>

\* What the pipeline p goes on with when the weight is written: a refutation archives the
\* node and spreads from it, any other verdict releases what the node has tainted
Spread(p, v, refutation) ==
  IF v = "refuted"
  THEN [p EXCEPT !.pc = refutation, !.layer = {p.node}, !.left = TaintMaxDepth]
  ELSE [p EXCEPT !.pc = "clear"]

\* The changes that a critique makes to its node are counted
Counted(p, changes) == [p EXCEPT !.applied = IF p.kind = "critique" /\ changes THEN @ + 1 ELSE @]

\* The verdict of the lab is written to the execution and the columns of the node.  While
\* a review is awaited nothing else happens; otherwise, the verdict of a review included, it
\* has its consequences: the weight goes up or down unless the lab could not tell, and so on
Record(p, v) ==
  LET n == Target(p) IN
    /\ At(p, "run")
    /\ \/ /\ WillChain(p, v)
          /\ pending' = [pending EXCEPT ![n] = v]
          /\ vstatus' = [vstatus EXCEPT ![n] = "pending_review"]
          /\ proc' = [proc EXCEPT ![p].verdict = v, ![p].pc = "enqueue"]
       \/ /\ UNCHANGED pending
          /\ vstatus' = [vstatus EXCEPT ![n] = "completed"]
          /\ proc' = [proc EXCEPT ![p] =
                        Counted(Spread(@, v, "archive"), v /= "inconclusive")]
    /\ UNCHANGED <<lab, archived, queue, bounded, history>>

\* Any error counts as an answer
AnyError(p) ==
  /\ At(p, "run")
  /\ \E e \in BOOLEAN : proc' = [proc EXCEPT ![p].pc = "decide", ![p].erred = e]
  /\ UNCHANGED <<lab, vstatus, archived, queue, pending, bounded, history>>
\* The lab answers a critique with an error or an unknown verdict: both count as an answer,
\* though after an error the entry has failed
CritiqueError(p) ==
  /\ At(p, "run") /\ proc[p].kind = "critique" /\ proc[p].parent /= None
  /\ \E e \in BOOLEAN : proc' = [proc EXCEPT ![p].pc = "decide", ![p].erred = e]
  /\ UNCHANGED <<lab, vstatus, archived, queue, pending, bounded, history>>

\* The recovery scan records the result of a job that nobody waited for.  It leaves the
\* columns of an archived node alone, and the weight of every node
Scan(p, n, v) ==
  /\ At(p, "off") /\ scans < MaxScans /\ scans' = scans + 1
  /\ vstatus' = IF n \in archived THEN vstatus ELSE [vstatus EXCEPT ![n] = "completed"]
  /\ proc' = [proc EXCEPT ![p] = Spread([Off EXCEPT !.node = n], v, "layer")]
  /\ cause' = IF v = "refuted" THEN [cause EXCEPT ![n] = "refuted"] ELSE cause
  /\ UNCHANGED <<lab, archived, queue, pending, entries, others, thawed, unreviewed>>

\* What is disproved with confidence is archived, seeds and the like excepted; then the
\* taint begins to spread
AutoArchive(p) ==
  /\ At(p, "archive")
  /\ proc' = [proc EXCEPT ![p].pc = "layer", ![p].verdict = None]
  /\ archived' \in {archived, archived \cup {Target(p)}}
  /\ cause' = [cause EXCEPT ![Target(p)] = IF proc[p].verdict = None THEN "refuted"
                                           ELSE "misjudged"]
  /\ UNCHANGED <<lab, vstatus, queue, pending, bounded, thawed, unreviewed>>
-----------------------------------------------------------------------------
(* Taint *)

\* What comes after the consequences: the critique decides, its decision is closed
After(p) ==
  proc' = [proc EXCEPT ![p].layer = {}, ![p].left = 0,
                       ![p].pc = IF proc[p].parent = None THEN "thaw"
                                 ELSE IF proc[p].decision = "none" THEN "decide" ELSE "close"]

\* The next layer: children that are neither archived nor under experiment
NextLayer(p) == {c \in UNION {Child[m] : m \in proc[p].layer} :
                   c \notin archived /\ lab[c] /= Frozen}

\* The walk goes on, or it ends: at the last layer, because taint is switched off, or
\* because it throws, which is swallowed
Layer(p) ==
  /\ At(p, "layer")
  /\ \/ /\ proc[p].left > 0 /\ NextLayer(p) /= {}
        /\ proc' = [proc EXCEPT ![p].pc = "mark", ![p].layer = NextLayer(p)]
     \/ After(p)
  /\ UNCHANGED <<lab, vstatus, archived, queue, pending, bounded, history>>

\* A layer is tainted whatever has become of it since it was read
MarkAnyway(p) ==
  /\ At(p, "mark")
  /\ \E marked \in SUBSET proc[p].layer :
       lab' = [n \in Node |-> IF n \in marked THEN Target(p) ELSE lab[n]]
  /\ proc' = [proc EXCEPT ![p].pc = "layer", ![p].left = @ - 1]
  /\ UNCHANGED <<vstatus, archived, queue, pending, bounded, history>>
\* Children that do not resemble the refuted node are spared, but walked through; of the
\* others those are tainted that have no mark now
Mark(p) ==
  /\ At(p, "mark")
  /\ \E marked \in SUBSET proc[p].layer :
       lab' = [n \in Node |-> IF n \in marked /\ lab[n] = Free THEN Target(p) ELSE lab[n]]
  /\ proc' = [proc EXCEPT ![p].pc = "layer", ![p].left = @ - 1]
  /\ UNCHANGED <<vstatus, archived, queue, pending, bounded, history>>

\* Only what rests on the node directly is released
UntaintedChildren(s) == [n \in Node |-> IF lab[n] = s /\ n \in Child[s] THEN Free ELSE lab[n]]
\* What the node has tainted is released, unless it was frozen since
Untainted(s) == [n \in Node |-> IF lab[n] = s THEN Free ELSE lab[n]]

\* A clearing that throws is swallowed
Clear(p) ==
  LET s == Target(p) IN
    /\ At(p, "clear") /\ After(p)
    /\ \/ /\ lab' = Untainted(s)
          /\ cause' = [cause EXCEPT ![s] = IF \E q \in On(s) : proc[q].pc \in {"layer", "mark"}
                                           THEN "crossed" ELSE "none"]
       \/ lab' = lab /\ cause' = [cause EXCEPT ![s] = "uncleared"]
    /\ UNCHANGED <<vstatus, archived, queue, pending, bounded, thawed, unreviewed>>
-----------------------------------------------------------------------------
(* Critique *)

\* A claim that is not supported counts as refuted here, also where the lab could not tell
Judged(v) == IF v = "supported" THEN v ELSE "refuted"

\* The verdict v gets the consequences of w now, and the review is over: the weight is
\* changed also when it cannot be told how.  A verdict taken for another is remembered
ApplyNow(p, v, w, decision) ==
  /\ vstatus' = [vstatus EXCEPT ![Target(p)] = "completed"]
  /\ proc' = [proc EXCEPT ![p] =
                [Counted(Spread(@, w, "archive"), TRUE) EXCEPT
                   !.verdict = IF v = w THEN None ELSE v, !.decision = decision]]

\* Whatever throws is swallowed, and nothing is made up for
EnqueueSwallowed(p) ==
  /\ At(p, "enqueue") /\ proc' = [proc EXCEPT ![p].pc = "thaw", ![p].verdict = None]
  /\ \/ Chained(Target(p), "critique", proc[p].depth + 1)
     \/ UNCHANGED <<queue, vstatus, entries, unreviewed>>
  /\ UNCHANGED <<lab, archived, pending, scans, others, cause, thawed>>
\* The critique is queued; when that throws, the consequences come without it; when they
\* throw, the pipeline fails, and the node waits for nothing
EnqueueCritique(p) ==
  /\ At(p, "enqueue")
  /\ \/ /\ Chained(Target(p), "critique", proc[p].depth + 1)
        /\ proc' = [proc EXCEPT ![p].pc = "thaw", ![p].verdict = None]
     \/ /\ ApplyNow(p, proc[p].verdict, Judged(proc[p].verdict), "none")
        /\ UNCHANGED <<queue, entries, unreviewed>>
     \/ /\ proc' = [proc EXCEPT ![p].pc = "fail", ![p].verdict = None]
        /\ unreviewed' = unreviewed \cup {Target(p)}
        /\ UNCHANGED <<queue, vstatus, entries>>
  /\ UNCHANGED <<lab, archived, pending, scans, others, cause, thawed>>

\* A critique that answered with an error has failed, whatever it decided
Done(p) ==
  proc' = [proc EXCEPT ![p].pc = IF proc[p].erred THEN "retry" ELSE "thaw",
                       ![p].verdict = None, ![p].parent = None,
                       ![p].erred = FALSE, ![p].decision = "none"]

LastInChain(p) == proc[p].depth + 1 >= MaxChainDepth

\* The verdict stands, also when a retest would make the chain too long; or it is corrected
Decide(p) ==
  /\ At(p, "decide")
  /\ \/ ApplyNow(p, proc[p].parent, Judged(proc[p].parent), "confirm")
     \/ \E v \in Complete : ApplyNow(p, v, v, "correct")
  /\ UNCHANGED <<lab, archived, queue, pending, bounded, history>>

\* The experiment is to be repeated, and its verdict is superseded
Retest(p) ==
  /\ At(p, "decide") /\ ~LastInChain(p) /\ Done(p)
  /\ pending' = [pending EXCEPT ![Target(p)] = None]
  /\ Chained(Target(p), "retest", proc[p].depth + 1)
  /\ UNCHANGED <<lab, archived, scans, others, cause, thawed>>

\* The execution under review is gone: the node does not wait any longer
Orphaned(p) ==
  /\ At(p, "decide") /\ Done(p)
  /\ pending' = [pending EXCEPT ![Target(p)] = None]
  /\ vstatus' = [vstatus EXCEPT ![Target(p)] = IF @ = "pending_review" THEN "none" ELSE @]
  /\ UNCHANGED <<lab, archived, queue, bounded, history>>

\* The decision throws, which is swallowed
DecideThrows(p) ==
  /\ At(p, "decide") /\ Done(p)
  /\ unreviewed' = unreviewed \cup {Target(p)}
  /\ UNCHANGED <<lab, vstatus, archived, queue, pending, bounded, cause, thawed>>

\* A write after the first one throws: the pipeline fails, but what throws in a decision is
\* swallowed
Throws(p) ==
  /\ proc[p].pc \in {"archive", "clear", "close"} /\ proc[p].kind /= "recovery"
  /\ \/ /\ proc[p].decision = "none"
        /\ proc' = [proc EXCEPT ![p].pc = "fail", ![p].verdict = None]
     \/ proc[p].decision /= "none" /\ Done(p)
  /\ UNCHANGED <<lab, vstatus, archived, queue, pending, bounded, history>>

\* The execution is confirmed or corrected; a correction may come with a better claim, which
\* replaces the node
Close(p) ==
  LET n == Target(p) IN
    /\ At(p, "close") /\ Done(p)
    /\ pending' = [pending EXCEPT ![n] = None]
    /\ \/ proc[p].decision = "confirm" /\ UNCHANGED <<vstatus, archived>>
       \/ /\ proc[p].decision = "correct"
          /\ vstatus' = [vstatus EXCEPT ![n] = "completed"]
          /\ archived' \in {archived, archived \cup {n}}
    /\ UNCHANGED <<lab, queue, bounded, history>>

\* The pipeline is over: the entry is completed, the status of the queue cleared, and the
\* node thawed whoever else has it under experiment
Thaw(p) ==
  LET n == Target(p) IN
    /\ At(p, "thaw") /\ proc' = [proc EXCEPT ![p] = Off]
    /\ vstatus' = [vstatus EXCEPT ![n] = IF @ = "in_queue" /\ proc[p].kind /= "recovery"
                                            /\ ~Active(n) THEN "none" ELSE @]
    /\ lab' = IF proc[p].froze /\ lab[n] = Frozen THEN [lab EXCEPT ![n] = Free] ELSE lab
    /\ thawed' = IF proc[p].froze /\ \E q \in On(n) \ {p} : proc[q].froze
                 THEN thawed \cup {n} ELSE thawed
    /\ UNCHANGED <<archived, queue, pending, bounded, cause, unreviewed>>
-----------------------------------------------------------------------------
(* What others do to a node *)

Other == others < MaxOthers /\ others' = others + 1

\* A user or the lifecycle archives a node
ArchiveNode(n) ==
  /\ Other /\ n \notin archived /\ archived' = archived \cup {n}
  /\ UNCHANGED <<lab, vstatus, queue, pending, proc, entries, scans, history>>

\* The lifecycle releases what was tainted long ago
Sweep ==
  /\ Other
  /\ \E expired \in SUBSET {n \in Node : lab[n] \in Node} :
       expired /= {} /\ lab' = [n \in Node |-> IF n \in expired THEN Free ELSE lab[n]]
  /\ UNCHANGED <<vstatus, archived, queue, pending, proc, entries, scans, history>>

\* The watchdog or the recovery of orphans thaws the node of a pipeline that goes on
ThawOther(n) ==
  /\ Other /\ lab[n] = Frozen
  /\ lab' = [lab EXCEPT ![n] = Free] /\ thawed' = thawed \cup {n}
  /\ UNCHANGED <<vstatus, archived, queue, pending, proc, entries, scans, cause,
                 unreviewed>>

Consequence(p) == \/ AutoArchive(p) \/ Layer(p) \/ Mark(p) \/ Clear(p)
                  \/ Throws(p) \/ Close(p) \/ Thaw(p)
Review(p)      == \/ EnqueueCritique(p) \/ CritiqueError(p) \/ Decide(p) \/ Retest(p)
                  \/ Orphaned(p) \/ DecideThrows(p)

Next ==
  \/ \E n \in Tested : Enqueue(n)
  \/ \E n \in Node : ArchiveNode(n) \/ ThawOther(n)
  \/ \E e \in queue : CancelEntry(e) \/ \E p \in Process : Claim(p, e)
  \/ \E p \in Process : Consequence(p) \/ Review(p) \/ Skip(p) \/ Fail(p)
  \/ \E p \in Process, v \in Complete : Record(p, v) \/ \E n \in Scanned : Scan(p, n, v)
  \/ Sweep

Spec == Init /\ [][Next]_vars
-----------------------------------------------------------------------------
(* Properties *)

Entry == [node : Node, kind : Kind \ {"recovery"}, depth : 0..MaxChainDepth]
Proc  == [pc : PC, node : Node \cup {None}, kind : Kind, depth : 0..MaxChainDepth,
          froze : BOOLEAN, verdict : Complete \cup {None}, parent : Complete \cup {None},
          erred : BOOLEAN, decision : {"none", "confirm", "correct"},
          layer : SUBSET Node, left : 0..TaintMaxDepth, applied : 0..2]

\* The variables keep their types; a verdict waits for its critique, a decision is about an
\* execution, and chains and walks keep to their depth (shouldChain, handleCritiqueResult,
\* propagateTaint)
TypeOK ==
  /\ lab \in [Node -> {Free, Frozen} \cup Node] /\ vstatus \in [Node -> VStatus]
  /\ archived \subseteq Node /\ queue \subseteq Entry
  /\ pending \in [Node -> Complete \cup {None}]
  /\ proc \in [Process -> Proc]
  /\ \A p \in Process : /\ At(p, "enqueue") => proc[p].verdict /= None
                        /\ proc[p].pc \in {"decide", "close"} => proc[p].parent /= None
  /\ entries \in 0..MaxEntries /\ scans \in 0..MaxScans /\ others \in 0..MaxOthers
  /\ {thawed, unreviewed} \subseteq SUBSET Node /\ cause \in [Node -> Cause]

\* The nodes up to k edges below a node
Below[k \in 0..TaintMaxDepth] ==
  IF k = 0 THEN [s \in Node |-> {}]
  ELSE [s \in Node |-> Child[s] \cup UNION {Below[k - 1][c] : c \in Child[s]}]

\* A node is tainted by a node that it rests on, within the depth, and whose last verdict
\* was a refutation.  The exceptions are a verdict that clears the taint while a second one on
\* the same node is still spreading it, so that what is marked after the clearing stays; a
\* clearing that throws, which is swallowed; and an inconclusive verdict that is confirmed, or
\* whose critique cannot be queued, and is taken for a refutation (propagateTaint, clearTaint)
TaintExplained ==
  \A m \in Node : lab[m] \in Node =>
    /\ m \in Below[TaintMaxDepth][lab[m]]
    /\ cause[lab[m]] \in {"refuted", "crossed", "uncleared", "misjudged"}

\* A node that shows 'pending_review' has a review to come: its critique is queued or under
\* way, or will be queued.  It has none only where the review was lost: cancelled, failed for
\* good or skipped, refused because the node is archived, thrown out of the decision, or thrown
\* when the critique was to be queued and again when its consequences were to be had without it
PendingHasReview ==
  \A n \in Node : vstatus[n] = "pending_review" =>
    \/ n \in unreviewed
    \/ \E e \in queue : e.node = n /\ e.kind = "critique"
    \/ \E p \in On(n) : \/ At(p, "enqueue")
                        \/ /\ proc[p].kind = "critique" /\ proc[p].decision = "none"
                           /\ \/ proc[p].pc \in {"run", "fail"}
                              \/ proc[p].parent /= None /\ proc[p].pc \notin {"retry", "thaw"}

\* A node under experiment stays frozen, so that nothing is built on it: neither taint nor
\* its clearing touches the mark.  Only another pipeline of the same node, the watchdog or
\* the recovery of orphans thaws it early (freezeNode, unfreezeNode)
FreezeHolds ==
  \A p \in Process : proc[p].froze => lab[Target(p)] = Frozen \/ Target(p) \in thawed

\* A critique changes the node once, by what it decides (feedback.ts:237-238: the
\* consequences are skipped, and "the chaining module will apply them after the critique lab
\* confirms or corrects")
CritiqueAppliesOnce == \A p \in Process : proc[p].kind = "critique" => proc[p].applied <= 1
=============================================================================
