------------------------------ MODULE Journal ------------------------------
(***************************************************************************)
(* The undo journal of the graph (core/journal.ts, db/migrations/          *)
(* journal.ts): triggers that record every change of the core tables,      *)
(* pruning, pins, and the rollback of the project to the end of an earlier *)
(* second while the API goes on writing.                                   *)
(*                                                                         *)
(* Time is the clock of datetime('now'), in seconds: several writes share  *)
(* a second.  A statement and the triggers it fires are one action; so is  *)
(* the transaction of a rollback.  Three kinds of journaled rows differ in *)
(* what the replay can do with them: nodes (one primary key, cascading),   *)
(* links (the edges: bound to two nodes, journaled by id but looked up by  *)
(* rowid) and bridges of partitions (looked up by rowid, bound to nothing  *)
(* that changes here).  The queue of the lab is not journaled.             *)
(***************************************************************************)
EXTENDS Naturals, Sequences, FiniteSets, Functions, SequencesExt

CONSTANTS
  Node,       \* ids of nodes; an id is used once
  Link,       \* parent edges that may be written: pairs <<parent, child>>
  Bridge,     \* bridges between partitions
  Queued,     \* nodes that may get an entry in lab_queue
  Pinnable,   \* nodes of a pinnable type
  Version,    \* values of a node's structural columns
  MaxTime,    \* bound: seconds
  MaxOps      \* bound: writes and changes of pins

ASSUME JournalAssumption ==
  /\ Link \subseteq Node \X Node
  /\ IsFiniteSet(Node)
  /\ Queued \subseteq Node /\ Pinnable \subseteq Node
  /\ Version # {}
  /\ MaxTime \in Nat \ {0, 1} /\ MaxOps \in Nat

VARIABLES
  graph,    \* the journaled tables
  queue,    \* lab_queue: when an entry was queued and claimed (0: not claimed)
  journal,  \* graph_journal: its rows by id
  lastId,   \* the last id given (AUTOINCREMENT: an id is used once)
  pins,     \* journal_pins of the one group
  leaving,  \* nodes whose hard removal has removed the edges and not yet the node
  rb,       \* executeRollback: its step, target and pinned package
  clock,
  born,     \* history: ids of nodes ever given, and the second of it
  ops,      \* writes so far (bounded)
  past,     \* history: the graph at the end of each second
  undone,   \* history: seconds that a later rollback has rewritten
  horizon,  \* history: the second from which on the journal is complete
  fragile   \* history: when a link or bridge was last re-created or cascaded away

log      == <<journal, lastId>>
database == <<graph, queue, log, pins>>
history  == <<born, past, undone, horizon, fragile>>
vars     == <<database, leaving, rb, clock, ops, history>>
-----------------------------------------------------------------------------
Time == 1..MaxTime
Row  == [version : Version, at : Time]
Ends(l) == {l[1], l[2]}

\* The tables with rows of T by keys of S
Tables(S, T) == UNION {[D -> T] : D \in SUBSET S}
NoRows == [x \in {} |-> 0]

\* The journaled tables; a link has both its nodes
Graphs ==
  {g \in [node : Tables(Node, Row), link : Tables(Link, Time), bridge : Tables(Bridge, Time)] :
     \A l \in DOMAIN g.link : Ends(l) \subseteq DOMAIN g.node}

Without(f, S) == Restrict(f, DOMAIN f \ S)

\* INSERT OR IGNORE of rows g into a table f
Ignoring(f, g) ==
  [x \in DOMAIN f \cup DOMAIN g |-> IF x \in DOMAIN f THEN f[x] ELSE g[x]]
Single(x, v) == [y \in {x} |-> v]

\* The graph without the nodes of S; foreign keys cascade to the links
Touching(f, S) == {l \in DOMAIN f : Ends(l) \cap S # {}}
DeleteNodes(g, S) ==
  [node |-> Without(g.node, S), link |-> Without(g.link, Touching(g.link, S)),
   bridge |-> g.bridge]

\* What the triggers write
Entry(table, row, op, before) ==
  [table |-> table, row |-> row, op |-> op, before |-> before, at |-> clock]

\* They insert the entries of a sequence
Log(entries) ==
  /\ journal' = Ignoring(journal, [k \in (lastId + 1)..(lastId + Len(entries)) |->
                                     entries[k - lastId]])
  /\ lastId' = lastId + Len(entries)

\* lab_queue, and executeRollback at its steps
Queues == Tables(Queued, [queued : Time, started : 0..MaxTime])
Rollbacks ==
  [pc : {"idle", "walk", "nodes", "links", "replay"}, target : Time,
   ids : SUBSET Node, frontier : SUBSET Node,
   node : Tables(Node, Row), link : Tables(Link, Time), ops : 0..MaxOps]
IdleRollback == [pc |-> "idle", target |-> 1, ids |-> {}, frontier |-> {},
                 node |-> NoRows, link |-> NoRows, ops |-> 0]

\* A project of two seconds: nodes that were there before the journal was installed,
\* at 1, nodes written at 2, and the links between them; nodes are made from parents that
\* are there
Init ==
  /\ \E old, new \in SUBSET Node :
         LET v == CHOOSE v \in Version : TRUE
             L == {l \in Link : Ends(l) \subseteq old \cup new}
             linkAt(l) == IF Ends(l) \subseteq old THEN 1 ELSE 2
             first  == [node   |-> [n \in old |-> [version |-> v, at |-> 1]],
                        link   |-> [l \in {k \in L : linkAt(k) = 1} |-> 1],
                        bridge |-> NoRows]
             insert(table, row) == [table |-> table, row |-> row, op |-> "INSERT",
                                    before |-> 0, at |-> 2]
         IN /\ old # {} /\ old \cap new = {}
            /\ \A l \in Link : /\ l[2] \in old => l[1] \in old
                              /\ l[2] \in new => l[1] \in old \cup new
            /\ graph = [first EXCEPT !.node = Ignoring(@, [n \in new |-> [version |-> v, at |-> 2]]),
                                     !.link = Ignoring(@, [l \in L |-> linkAt(l)])]
            /\ journal = SetToSeq({insert("node", n) : n \in new})
                         \o SetToSeq({insert("link", l) : l \in {k \in L : linkAt(k) = 2}})
            /\ lastId = Len(journal)
            /\ past = <<first>>
            /\ born = [n \in old \cup new |-> graph.node[n].at]
  /\ queue = NoRows
  /\ pins = {}
  /\ leaving = {}
  /\ rb = IdleRollback
  /\ clock = 2
  /\ ops = 0
  /\ undone = {}
  /\ horizon = 2
  /\ fragile = [x \in Link \cup Bridge |-> 0]
-----------------------------------------------------------------------------
(* Time and the writers *)

Tick ==
  /\ clock < MaxTime
  /\ clock' = clock + 1
  /\ past' = Append(past, graph)
  /\ UNCHANGED <<database, leaving, rb, ops, born, undone, horizon, fragile>>

\* Every write counts against the bound
Write ==
  /\ ops < MaxOps
  /\ ops' = ops + 1
  /\ UNCHANGED <<rb, clock, past, undone>>

\* createNode
CreateNode(n, v) ==
  /\ Write
  /\ n \notin DOMAIN born
  /\ born' = Ignoring(born, Single(n, clock))
  /\ graph' = [graph EXCEPT !.node = Ignoring(@, Single(n, [version |-> v, at |-> clock]))]
  /\ Log(<<Entry("node", n, "INSERT", 0)>>)
  /\ UNCHANGED <<queue, pins, leaving, horizon, fragile>>

\* Any update of a structural column (the trigger looks at no other)
UpdateNode(n, v) ==
  /\ Write
  /\ n \in DOMAIN graph.node /\ graph.node[n].version # v
  /\ graph' = [graph EXCEPT !.node[n].version = v]
  /\ Log(<<Entry("node", n, "UPDATE", graph.node[n])>>)
  /\ UNCHANGED <<queue, pins, leaving, born, horizon, fragile>>

\* createEdge: an upsert; an existing edge only changes its strength, and the replay does
\* not restore that
CreateEdge(l) ==
  /\ Write
  /\ Ends(l) \subseteq DOMAIN graph.node
  /\ l \notin DOMAIN graph.link
  /\ graph' = [graph EXCEPT !.link = Ignoring(@, Single(l, clock))]
  /\ Log(<<Entry("link", l, "INSERT", 0)>>)
  /\ fragile' = [fragile EXCEPT ![l] = clock]
  /\ UNCHANGED <<queue, pins, leaving, born, horizon>>

CreateBridge(b) ==
  /\ Write
  /\ b \notin DOMAIN graph.bridge
  /\ graph' = [graph EXCEPT !.bridge = Ignoring(@, Single(b, clock))]
  /\ Log(<<Entry("bridge", b, "INSERT", 0)>>)
  /\ fragile' = [fragile EXCEPT ![b] = clock]
  /\ UNCHANGED <<queue, pins, leaving, born, horizon>>

DeleteBridge(b) ==
  /\ Write
  /\ b \in DOMAIN graph.bridge
  /\ graph' = [graph EXCEPT !.bridge = Without(@, {b})]
  /\ Log(<<Entry("bridge", b, "DELETE", graph.bridge[b])>>)
  /\ UNCHANGED <<queue, pins, leaving, born, horizon, fragile>>

\* The entries of a DELETE of links, in some order
Deletions(L) == SetToSeq({Entry("link", l, "DELETE", graph.link[l]) : l \in L})

\* handleRemove, mode 'hard': first the edges of the node ...
RemoveEdges(n) ==
  LET L == Touching(graph.link, {n}) IN
  /\ Write
  /\ n \in DOMAIN graph.node \ leaving
  /\ leaving' = leaving \cup {n}
  /\ graph' = [graph EXCEPT !.link = Without(@, L)]
  /\ Log(Deletions(L))
  /\ UNCHANGED <<queue, pins, born, horizon, fragile>>

\* ... then the node: an edge written in between goes with it, and is journaled
\* after the node
RemoveNode(n) ==
  LET L == Touching(graph.link, {n}) IN
  /\ n \in leaving
  /\ leaving' = leaving \ {n}
  /\ graph' = DeleteNodes(graph, {n})
  /\ Log(IF n \in DOMAIN graph.node
         THEN <<Entry("node", n, "DELETE", graph.node[n])>> \o Deletions(L)
         ELSE <<>>)
  /\ fragile' = [x \in DOMAIN fragile |-> IF x \in L THEN clock ELSE fragile[x]]
  /\ Write
  /\ UNCHANGED <<queue, pins, born, horizon>>

\* The removal ends early (a crash, an error of the second DELETE)
RemovalFails(n) ==
  /\ n \in leaving
  /\ leaving' = leaving \ {n}
  /\ UNCHANGED <<database, rb, clock, ops, history>>

\* enqueue, claim and release of an entry of lab_queue
Enqueue(n) ==
  /\ Write
  /\ n \in Queued \cap DOMAIN graph.node /\ n \notin DOMAIN queue
  /\ queue' = Ignoring(queue, Single(n, [queued |-> clock, started |-> 0]))
  /\ UNCHANGED <<graph, log, pins, leaving, born, horizon, fragile>>

ClaimOrRelease(n) ==
  /\ Write
  /\ n \in DOMAIN queue
  /\ queue' = [queue EXCEPT ![n].started = IF @ = 0 THEN clock ELSE 0]
  /\ UNCHANGED <<graph, log, pins, leaving, born, horizon, fragile>>

Pin(n) ==
  /\ Write
  /\ n \in Pinnable \cap DOMAIN graph.node
  /\ pins' = pins \cup {n}
  /\ UNCHANGED <<graph, queue, log, leaving, born, horizon, fragile>>

Unpin(n) ==
  /\ Write
  /\ n \in pins
  /\ pins' = pins \ {n}
  /\ UNCHANGED <<graph, queue, log, leaving, born, horizon, fragile>>

\* pruneJournal; pruning once more up to an earlier second changes nothing and is left out
Prune(t) ==
  /\ Write
  /\ journal' = Without(journal, {k \in DOMAIN journal : journal[k].at < t})
  /\ horizon' = t
  /\ UNCHANGED <<graph, queue, lastId, pins, leaving, born, fragile>>
-----------------------------------------------------------------------------
(* The rollback *)

\* executeRollback stops the services and reads the pins of the group
\* (The target is in the format of the database, as the markers have it.)
BeginRollback(t) ==
  /\ rb.pc = "idle"
  /\ rb' = [IdleRollback EXCEPT !.pc = IF pins = {} THEN "replay" ELSE "walk",
                                !.target = t, !.ids = pins, !.frontier = pins,
                                !.ops = ops]
  /\ UNCHANGED <<database, leaving, clock, ops, history>>

\* The parents of the frontier
NextLevel(S) == {l[1] : l \in {k \in DOMAIN graph.link : k[2] \in S}}

\* exportPinnedPackage: one level of the walk to the ancestors ...
WalkUp ==
  LET new == NextLevel(rb.frontier) \ rb.ids IN
  /\ rb.pc = "walk"
  /\ rb' = [rb EXCEPT !.pc = IF new = {} THEN "nodes" ELSE "walk",
                      !.ids = @ \cup new, !.frontier = new]
  /\ UNCHANGED <<database, leaving, clock, ops, history>>

\* The rows of the ids found; a node that is gone by now has none (the mutant makes one)
RowsOfIds(S) == [n \in S |-> IF n \in DOMAIN graph.node THEN graph.node[n]
                                                        ELSE [version |-> CHOOSE v \in Version : TRUE, at |-> 0]]
RowsOf(S) == Restrict(graph.node, S \cap DOMAIN graph.node)

\* ... the nodes ...
ExportNodes ==
  /\ rb.pc = "nodes"
  /\ rb' = [rb EXCEPT !.pc = "links", !.node = RowsOf(rb.ids)]
  /\ UNCHANGED <<database, leaving, clock, ops, history>>

\* ... and the edges between them
ExportLinks ==
  /\ rb.pc = "links"
  /\ rb' = [rb EXCEPT !.pc = "replay",
                      !.link = Restrict(graph.link, {l \in DOMAIN graph.link : Ends(l) \subseteq rb.ids})]
  /\ UNCHANGED <<database, leaving, clock, ops, history>>

\* The effect of one entry: rows of links and bridges are not found by their rowid, so
\* that their INSERT is not undone here; a row that violates a foreign key is skipped
Undo(e, g) ==
  CASE e.table = "node" /\ e.op = "INSERT" -> DeleteNodes(g, {e.row})
    [] e.table = "node" /\ e.op = "UPDATE" /\ e.row \in DOMAIN g.node ->
         [g EXCEPT !.node[e.row] = e.before]
    [] e.table = "node" /\ e.op = "DELETE" -> [g EXCEPT !.node = Ignoring(@, Single(e.row, e.before))]
    [] e.table = "link" /\ e.op = "DELETE" /\ Ends(e.row) \subseteq DOMAIN g.node ->
         [g EXCEPT !.link = Ignoring(@, Single(e.row, e.before))]
    [] e.table = "bridge" /\ e.op = "DELETE" ->
         [g EXCEPT !.bridge = Ignoring(@, Single(e.row, e.before))]
    [] OTHER -> g

\* The ids of the entries of a journal after t
Later(jr, t) == {k \in DOMAIN jr : jr[k].at > t}

\* Those up to id last undone in graph g, latest first: stage[k] is the graph when those
\* beyond k have been (the mutant: earliest first)
ReplayForward(jr, last, g, t) ==
  LET stage[k \in 0..last] ==
        IF k = 0 THEN g
        ELSE IF k \in Later(jr, t) THEN Undo(jr[k], stage[k - 1]) ELSE stage[k - 1]
  IN stage[last]
Replay(jr, last, g, t) ==
  LET later == Later(jr, t)
      stage[k \in 0..last] ==
        IF k = last THEN g
        ELSE IF k + 1 \in later THEN Undo(jr[k + 1], stage[k + 1]) ELSE stage[k + 1]
  IN stage[0]

Newer(f, t)      == {x \in DOMAIN f : f[x] > t}
NewerNodes(f, t) == {n \in DOMAIN f : f[n].at > t}

\* Rows created after t go, journaled or not (the mutant trusts the replay)
CleanupNothing(g, t) == g
Cleanup(g, t) ==
  LET h == DeleteNodes(g, NewerNodes(g.node, t))
  IN [node |-> h.node, link |-> Without(h.link, Newer(h.link, t)),
      bridge |-> Without(h.bridge, Newer(h.bridge, t))]

\* The pinned package comes back where the rollback left no row
Reimport(g) ==
  [node |-> Ignoring(g.node, rb.node), link |-> Ignoring(g.link, rb.link), bridge |-> g.bridge]

Replayed(t) == Replay(journal, lastId, graph, t)

\* The graph after the transaction (the mutant cleans up last)
RolledBackCleanedLast(t) == Cleanup(Reimport(Replayed(t)), t)
RolledBack(t) == Reimport(Cleanup(Replayed(t), t))

\* The cleanup of lab_queue goes by the first timestamp column of a list that the
\* table has: started_at, which is null until the entry is claimed
QueueAfter(t) == Restrict(queue, {n \in DOMAIN queue : queue[n].started <= t})

Commit ==
  LET t == rb.target IN
  /\ rb.pc = "replay"
  /\ rb' = IdleRollback
  /\ pins' = {}
  /\ undone' = undone \cup {s \in Time : t < s /\ s < clock}
  /\ journal' = Without(journal, Later(journal, t))
  /\ queue' = QueueAfter(t)
  /\ graph' = RolledBack(t)
  /\ UNCHANGED <<lastId, leaving, clock, ops, born, past, horizon, fragile>>

\* The server dies, or the transaction is rolled back: nothing has been written
RollbackFails ==
  /\ rb.pc # "idle"
  /\ rb' = IdleRollback
  /\ UNCHANGED <<database, leaving, clock, ops, history>>
-----------------------------------------------------------------------------
WriteNode(n) ==
  \/ \E v \in Version : CreateNode(n, v) \/ UpdateNode(n, v)
  \/ RemoveEdges(n) \/ RemoveNode(n) \/ RemovalFails(n)
  \/ Enqueue(n) \/ ClaimOrRelease(n)
  \/ Pin(n) \/ Unpin(n)

Rollback ==
  \/ \E t \in 1..(clock - 1) : BeginRollback(t)
  \/ WalkUp \/ ExportNodes \/ ExportLinks
  \/ Commit \/ RollbackFails

Next ==
  \/ Tick
  \/ \E n \in Node : WriteNode(n)
  \/ \E l \in Link : CreateEdge(l)
  \/ \E b \in Bridge : CreateBridge(b) \/ DeleteBridge(b)
  \/ \E t \in (horizon + 1)..(clock + 1) : Prune(t)
  \/ Rollback

Spec == Init /\ [][Next]_vars
-----------------------------------------------------------------------------
\* Every variable holds values of its type: exported rows are rows that existed, and
\* a link always has both its nodes.
TypeOK ==
  /\ graph \in Graphs
  /\ queue \in Queues
  /\ lastId \in Nat /\ DOMAIN journal \subseteq 1..lastId
  /\ \A k \in DOMAIN journal : journal[k].at \in 1..clock
  /\ pins \subseteq Pinnable
  /\ leaving \subseteq Node
  /\ rb \in Rollbacks
  /\ clock \in Time
  /\ ops \in 0..MaxOps
  /\ born \in Tables(Node, 1..clock)
  /\ past \in [1..(clock - 1) -> Graphs]
  /\ undone \subseteq Time
  /\ horizon \in 2..(clock + 1)
  /\ fragile \in [Link \cup Bridge -> 0..clock]

\* The journal reaches back to the end of second t, and no rollback has rewritten it
Restorable(t) == t \notin undone /\ horizon <= t + 1

\* A rollback brings back exactly the nodes of the end of the target second, with what
\* they held, and beyond them the exported ones: whatever order nodes were written and
\* removed in, before and during the export, and after earlier rollbacks and pruning.
RestoresNodes ==
  [][Restorable(rb.target) /\ Commit
       => graph'.node = Ignoring(past[rb.target].node, rb.node)]_vars

\* Links and bridges are as they were at the target, but for the exported links and for
\* those re-created or cascaded away since (which can be lost, never made up).
RestoresLinks ==
  [][Restorable(rb.target) /\ Commit =>
       LET was == past[rb.target]
           stable(x) == fragile[x] <= rb.target
       IN /\ \A l \in Link :
               /\ l \in DOMAIN graph'.link => l \in DOMAIN was.link \cup DOMAIN rb.link
               /\ l \in DOMAIN was.link /\ stable(l) => l \in DOMAIN graph'.link
          /\ \A b \in Bridge :
               /\ b \in DOMAIN graph'.bridge => b \in DOMAIN was.bridge
               /\ b \in DOMAIN was.bridge /\ stable(b) => b \in DOMAIN graph'.bridge]_vars

\* The pinned nodes of a graph with all their ancestors
Ancestry(g) ==
  LET closed(S) == \A l \in DOMAIN g.link : l[2] \in S => l[1] \in S IN
  {n \in DOMAIN g.node : \A S \in SUBSET Node : pins \subseteq S /\ closed(S) => n \in S}

\* When nobody writes during the export, a rollback loses no pinned node, no ancestor
\* of one and no link among them, however far back it goes.
PinsSurvive ==
  [][ops = rb.ops /\ Commit =>
       LET A == Ancestry(graph) IN
       /\ A \subseteq DOMAIN graph'.node
       /\ \A l \in DOMAIN graph.link : Ends(l) \subseteq A => l \in DOMAIN graph'.link]_vars
=============================================================================
