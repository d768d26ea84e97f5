--------------------------- MODULE Journal_proofs ---------------------------
(***************************************************************************)
(* Proofs about the journal and the rollback, for any nodes, links and     *)
(* bridges, any number of seconds and of writes.                           *)
(*                                                                         *)
(* A replay is a function on the ids of the journal: its stages are the    *)
(* graphs between one entry undone and the next.  What undoing an entry    *)
(* does to one node, or to one link or bridge, is said without the rest of *)
(* the graph; facts about a whole replay follow by induction downward over *)
(* its stages.  Three invariants rest on that:                             *)
(*   Base    types; rows are as old as their nodes; the journal's ids are  *)
(*           in the order of time; the exported rows fit the graph         *)
(*   Memory  a replay to any second the journal covers brings back the     *)
(*           nodes of that second as they were                             *)
(*   Traces  links and bridges: none can be brought back that the second   *)
(*           did not have, and those it had can, with their nodes first    *)
(***************************************************************************)
EXTENDS Journal, SequenceTheorems, FiniteSetTheorems, WellFoundedInduction, TLAPS

\* One entry undone if it is later than t.
Step(jr, k, h, t) == IF k \in Later(jr, t) THEN Undo(jr[k], h) ELSE h

\* The stages of a replay.
Stages(s, jr, last, g, t) ==
  /\ DOMAIN s = 0..last /\ s[last] = g
  /\ \A k \in 0..(last - 1) : s[k] = Step(jr, k + 1, s[k + 1], t)

\* A nonempty set of numbers has a least one.
LEMMA LeastMember ==
  ASSUME NEW S, S \subseteq Nat, S # {}
  PROVE  \E m \in S : \A k \in S : m <= k
<1>1. PICK m \in S : \A k \in S : ~ (<<k, m>> \in OpToRel(<, Nat))
  BY NatLessThanWellFounded, WFMin
<1>2. ASSUME NEW k \in S PROVE m <= k
  <2>1. ~ (<<k, m>> \in OpToRel(<, Nat))
    BY <1>1
  <2>2. <<k, m>> \in Nat \X Nat
    OBVIOUS
  <2>3. ~ (k < m)
    BY <2>1, <2>2 DEF OpToRel
  <2> QED
    BY <2>3
<1> QED
  BY <1>2

\* Induction downward, over a set.
LEMMA Downward ==
  ASSUME NEW last \in Nat, NEW S, last \in S,
         \A k \in 0..(last - 1) : k + 1 \in S => k \in S
  PROVE  0..last \subseteq S
<1> DEFINE T == {k \in 0..last : last - k \notin S}
<1>1. SUFFICES ASSUME T # {} PROVE FALSE
  <2> SUFFICES ASSUME NEW k \in 0..last, k \notin S PROVE FALSE
    OBVIOUS
  <2>1. last - k \in T
    OBVIOUS
  <2> QED
    BY <2>1, <1>1
<1>2. PICK m \in T : \A k \in T : m <= k
  <2>1. T \subseteq Nat
    OBVIOUS
  <2> HIDE DEF T
  <2> QED
    BY <1>1, <2>1, LeastMember
<1>3. m # 0
  BY <1>2
<1>4. m - 1 \notin T /\ m - 1 \in 0..last
  BY <1>2, <1>3
<1>5. last - m + 1 \in S
  BY <1>4
<1> QED
  BY <1>5, <1>2, <1>3

\* A function that satisfies the recursion exists, so that Replay has stages.
LEMMA ReplayStages ==
  ASSUME NEW jr, NEW last \in Nat, NEW g, NEW t
  PROVE  \E s : Stages(s, jr, last, g, t) /\ Replay(jr, last, g, t) = s[0]
<1> DEFINE Is(s, m) == s = [k \in m..last |-> IF k = last THEN g ELSE Step(jr, k + 1, s[k + 1], t)]
           S == {m \in 0..last : \E s : Is(s, m)}
<1>1. last \in S
  <2>1. Is([k \in last..last |-> g], last)
    OBVIOUS
  <2>2. \E s : Is(s, last)
    <3> HIDE DEF Is
    <3> QED
      BY <2>1
  <2> QED
    BY <2>2
<1>2. ASSUME NEW m \in 0..(last - 1), m + 1 \in S PROVE m \in S
  <2>1. PICK s : Is(s, m + 1)
    BY <1>2
  <2> DEFINE f == [k \in m..last |-> IF k = m THEN Step(jr, m + 1, s[m + 1], t) ELSE s[k]]
  <2>2. ASSUME NEW k \in m..last
        PROVE  f[k] = IF k = last THEN g ELSE Step(jr, k + 1, f[k + 1], t)
    <3>1. CASE k = m
      BY <3>1
    <3>2. CASE k # m
      <4>1. f[k] = s[k] /\ k \in (m + 1)..last
        BY <3>2
      <4>2. CASE k = last
        BY <4>1, <4>2, <2>1
      <4>3. CASE k # last
        <5>1. k + 1 \in m..last /\ k + 1 # m
          BY <4>1, <4>3
        <5>2. f[k + 1] = s[k + 1]
          BY <5>1
        <5> HIDE DEF f
        <5> QED
          BY <4>1, <4>3, <5>2, <2>1
      <4> QED
        BY <4>2, <4>3
    <3> QED
      BY <3>1, <3>2
  <2>3. Is(f, m)
    <3>1. f = [k \in m..last |-> f[k]]
      OBVIOUS
    <3> HIDE DEF f
    <3> QED
      BY <2>2, <3>1
  <2>4. \E r : Is(r, m)
    <3> HIDE DEF f, Is
    <3> QED
      BY <2>3
  <2> QED
    BY <2>4
<1>3. 0 \in S
  <2> HIDE DEF S
  <2> QED
    BY <1>1, <1>2, Downward
<1>4. \E s : Is(s, 0)
  BY <1>3
<1> DEFINE q == CHOOSE s : Is(s, 0)
<1>5. Is(q, 0)
  <2> HIDE DEF Is
  <2> QED
    BY <1>4
<1>6. Replay(jr, last, g, t) = q[0]
  BY DEF Replay, Step
<1> HIDE DEF q
<1>7. Stages(q, jr, last, g, t)
  BY <1>5 DEF Stages
<1> QED
  BY <1>6, <1>7

-----------------------------------------------------------------------------
\* Tables with rows left out, added and changed: what their keys and rows are.
LEMMA WithoutKeys ==
  ASSUME NEW f, NEW R
  PROVE  DOMAIN Without(f, R) = DOMAIN f \ R
BY DEF Without, Restrict

\* The rows left are as they were, and of the type they were of.
LEMMA WithoutRow ==
  ASSUME NEW f, NEW R, NEW x \in DOMAIN f \ R
  PROVE  Without(f, R)[x] = f[x]
BY DEF Without, Restrict

LEMMA WithoutTable ==
  ASSUME NEW S, NEW T, NEW f \in Tables(S, T), NEW R
  PROVE  Without(f, R) \in Tables(S, T)
<1>1. PICK D \in SUBSET S : f \in [D -> T]
  BY DEF Tables
<1>2. Without(f, R) = [x \in D \ R |-> f[x]]
  BY <1>1 DEF Without, Restrict
<1>3. Without(f, R) \in [D \ R -> T] /\ D \ R \in SUBSET S
  BY <1>1, <1>2
<1> QED
  BY <1>3 DEF Tables

\* INSERT OR IGNORE adds the keys that are missing, with the rows given, and changes no other.
LEMMA IgnoringKeys ==
  ASSUME NEW f, NEW g
  PROVE  DOMAIN Ignoring(f, g) = DOMAIN f \cup DOMAIN g
BY DEF Ignoring

LEMMA IgnoringRow ==
  ASSUME NEW f, NEW g, NEW x \in DOMAIN f \cup DOMAIN g
  PROVE  Ignoring(f, g)[x] = IF x \in DOMAIN f THEN f[x] ELSE g[x]
BY DEF Ignoring

LEMMA IgnoringTable ==
  ASSUME NEW S, NEW T, NEW f \in Tables(S, T), NEW g \in Tables(S, T)
  PROVE  Ignoring(f, g) \in Tables(S, T)
<1>1. PICK D \in SUBSET S : f \in [D -> T]
  BY DEF Tables
<1>2. PICK E \in SUBSET S : g \in [E -> T]
  BY DEF Tables
<1>3. Ignoring(f, g) = [x \in D \cup E |-> IF x \in D THEN f[x] ELSE g[x]]
  BY <1>1, <1>2 DEF Ignoring
<1>4. Ignoring(f, g) \in [D \cup E -> T] /\ D \cup E \in SUBSET S
  BY <1>1, <1>2, <1>3
<1> QED
  BY <1>4 DEF Tables

\* A table of one row.
LEMMA SingleKey ==
  ASSUME NEW x, NEW v
  PROVE  DOMAIN Single(x, v) = {x} /\ Single(x, v)[x] = v
BY DEF Single

LEMMA SingleTable ==
  ASSUME NEW S, NEW T, NEW x \in S, NEW v \in T
  PROVE  Single(x, v) \in Tables(S, T)
<1>1. Single(x, v) \in [{x} -> T] /\ {x} \in SUBSET S
  BY DEF Single
<1> QED
  BY <1>1 DEF Tables

\* What a table is, and a table with a row changed.
LEMMA TableRows ==
  ASSUME NEW S, NEW T, NEW f \in Tables(S, T)
  PROVE  /\ DOMAIN f \subseteq S
         /\ \A x \in DOMAIN f : f[x] \in T
         /\ f = [x \in DOMAIN f |-> f[x]]
BY DEF Tables

LEMMA ChangedTable ==
  ASSUME NEW S, NEW T, NEW f \in Tables(S, T), NEW x \in DOMAIN f, NEW v \in T
  PROVE  [f EXCEPT ![x] = v] \in Tables(S, T)
BY DEF Tables

\* What a graph is.
LEMMA GraphParts ==
  ASSUME NEW g \in Graphs
  PROVE  /\ g = [node |-> g.node, link |-> g.link, bridge |-> g.bridge]
         /\ g.node \in Tables(Node, Row)
         /\ g.link \in Tables(Link, Time)
         /\ g.bridge \in Tables(Bridge, Time)
         /\ \A l \in DOMAIN g.link : Ends(l) \subseteq DOMAIN g.node
BY DEF Graphs

\* Removing nodes keeps the rest of the graph, and no link without its nodes.
LEMMA NodesDeleted ==
  ASSUME NEW g \in Graphs, NEW S
  PROVE  /\ DeleteNodes(g, S) \in Graphs
         /\ DeleteNodes(g, S).node = Without(g.node, S)
         /\ DeleteNodes(g, S).link = Without(g.link, Touching(g.link, S))
         /\ DeleteNodes(g, S).bridge = g.bridge
<1> DEFINE h == DeleteNodes(g, S)
           C == Touching(g.link, S)
<1>0. /\ g = [node |-> g.node, link |-> g.link, bridge |-> g.bridge]
      /\ g.node \in Tables(Node, Row) /\ g.link \in Tables(Link, Time)
      /\ g.bridge \in Tables(Bridge, Time)
      /\ \A l \in DOMAIN g.link : Ends(l) \subseteq DOMAIN g.node
  BY GraphParts
<1>1. h = [node |-> Without(g.node, S), link |-> Without(g.link, C), bridge |-> g.bridge]
  BY <1>0 DEF DeleteNodes
<1>2. Without(g.node, S) \in Tables(Node, Row) /\ Without(g.link, C) \in Tables(Link, Time)
  BY <1>0, WithoutTable
<1>3. /\ DOMAIN Without(g.node, S) = DOMAIN g.node \ S
      /\ DOMAIN Without(g.link, C) = DOMAIN g.link \ C
  BY WithoutKeys
<1>4. \A l \in DOMAIN Without(g.link, C) : Ends(l) \subseteq DOMAIN Without(g.node, S)
  BY <1>0, <1>3 DEF Touching
<1>5. h \in Graphs
  <2> HIDE DEF C, h
  <2> QED
    BY <1>0, <1>1, <1>2, <1>4 DEF Graphs
<1> QED
  BY <1>1, <1>5
-----------------------------------------------------------------------------
\* An entry as the triggers write it; b is the second in which each node was born.
Fits(e, b) ==
  /\ e.table = "node" =>
       /\ e.row \in DOMAIN b
       /\ e.op = "INSERT" => e.at = b[e.row]
       /\ e.op # "INSERT" => e.before \in Row /\ e.before.at = b[e.row]
  /\ e.table = "link" /\ e.op = "DELETE" => e.row \in Link /\ e.before \in Time
  /\ e.table = "bridge" /\ e.op = "DELETE" => e.row \in Bridge /\ e.before \in Time

\* What undoing an entry makes of the nodes.
UndoneNodes(e, f) ==
  CASE e.table = "node" /\ e.op = "INSERT" -> Without(f, {e.row})
    [] e.table = "node" /\ e.op = "UPDATE" /\ e.row \in DOMAIN f -> [f EXCEPT ![e.row] = e.before]
    [] e.table = "node" /\ e.op = "DELETE" -> Ignoring(f, Single(e.row, e.before))
    [] OTHER -> f

\* Undoing an entry makes a graph of a graph.
LEMMA UndoGraph ==
  ASSUME NEW e, NEW b \in Tables(Node, Nat), Fits(e, b), NEW g \in Graphs
  PROVE  /\ Undo(e, g) \in Graphs
         /\ Undo(e, g).node = UndoneNodes(e, g.node)
<1> DEFINE F == /\ g = [node |-> g.node, link |-> g.link, bridge |-> g.bridge]
                /\ g.node \in Tables(Node, Row) /\ g.link \in Tables(Link, Time)
                /\ g.bridge \in Tables(Bridge, Time)
                /\ \A l \in DOMAIN g.link : Ends(l) \subseteq DOMAIN g.node
<1>f. F
  BY GraphParts
<1> USE <1>f
<1>0. e.table = "node" => e.row \in Node
  BY TableRows DEF Fits
<1>1. CASE e.table = "node" /\ e.op = "INSERT"
  BY <1>1, NodesDeleted DEF Undo, UndoneNodes
<1>2. CASE e.table = "node" /\ e.op = "UPDATE"
  <2>1. CASE e.row \in DOMAIN g.node
    <3> DEFINE f == [g.node EXCEPT ![e.row] = e.before]
    <3>1. f \in Tables(Node, Row) /\ DOMAIN f = DOMAIN g.node
      BY <1>2, <2>1, ChangedTable DEF Fits
    <3>2. Undo(e, g) = [node |-> f, link |-> g.link, bridge |-> g.bridge]
      BY <1>2, <2>1 DEF Undo
    <3>3. UndoneNodes(e, g.node) = f
      BY <1>2, <2>1 DEF UndoneNodes
    <3> HIDE DEF f
    <3> QED
      BY <3>1, <3>2, <3>3 DEF Graphs
  <2>2. CASE e.row \notin DOMAIN g.node
    BY <1>2, <2>2 DEF Undo, UndoneNodes
  <2> QED
    BY <2>1, <2>2
<1>3. CASE e.table = "node" /\ e.op = "DELETE"
  <2> DEFINE f == Ignoring(g.node, Single(e.row, e.before))
  <2>1. Single(e.row, e.before) \in Tables(Node, Row)
    BY <1>0, <1>3, SingleTable DEF Fits
  <2>2. f \in Tables(Node, Row) /\ DOMAIN g.node \subseteq DOMAIN f
    BY <2>1, IgnoringTable, IgnoringKeys
  <2>3. Undo(e, g) = [node |-> f, link |-> g.link, bridge |-> g.bridge]
    BY <1>3 DEF Undo
  <2>4. UndoneNodes(e, g.node) = f
    BY <1>3 DEF UndoneNodes
  <2> HIDE DEF f
  <2> QED
    BY <2>2, <2>3, <2>4 DEF Graphs
<1>4. CASE e.table = "link" /\ e.op = "DELETE" /\ Ends(e.row) \subseteq DOMAIN g.node
  <2> DEFINE f == Ignoring(g.link, Single(e.row, e.before))
  <2>1. Single(e.row, e.before) \in Tables(Link, Time) /\ DOMAIN Single(e.row, e.before) = {e.row}
    BY <1>4, SingleTable, SingleKey DEF Fits
  <2>2. f \in Tables(Link, Time) /\ DOMAIN f = DOMAIN g.link \cup {e.row}
    BY <2>1, IgnoringTable, IgnoringKeys
  <2>3. Undo(e, g) = [node |-> g.node, link |-> f, bridge |-> g.bridge]
    BY <1>4 DEF Undo
  <2>4. UndoneNodes(e, g.node) = g.node
    BY <1>4 DEF UndoneNodes
  <2> HIDE DEF f
  <2> QED
    BY <1>4, <2>2, <2>3, <2>4 DEF Graphs
<1>5. CASE e.table = "bridge" /\ e.op = "DELETE"
  <2> DEFINE f == Ignoring(g.bridge, Single(e.row, e.before))
  <2>1. Single(e.row, e.before) \in Tables(Bridge, Time)
    BY <1>5, SingleTable DEF Fits
  <2>2. f \in Tables(Bridge, Time)
    BY <2>1, IgnoringTable, IgnoringKeys
  <2>3. Undo(e, g) = [node |-> g.node, link |-> g.link, bridge |-> f]
    BY <1>5 DEF Undo
  <2>4. UndoneNodes(e, g.node) = g.node
    BY <1>5 DEF UndoneNodes
  <2> HIDE DEF f
  <2> QED
    BY <2>2, <2>3, <2>4 DEF Graphs
<1>6. CASE /\ ~ (e.table = "node" /\ e.op \in {"INSERT", "UPDATE", "DELETE"})
           /\ ~ (e.table = "link" /\ e.op = "DELETE" /\ Ends(e.row) \subseteq DOMAIN g.node)
           /\ ~ (e.table = "bridge" /\ e.op = "DELETE")
  <2>1. Undo(e, g) = g
    BY <1>6 DEF Undo
  <2>2. UndoneNodes(e, g.node) = g.node
    BY <1>6 DEF UndoneNodes
  <2> QED
    BY <2>1, <2>2
<1> QED
  BY <1>1, <1>2, <1>3, <1>4, <1>5, <1>6

-----------------------------------------------------------------------------
(* What undoing does to the nodes *)

\* The rows of a table of nodes are as old as the nodes.
Dated(f, b) == \A n \in DOMAIN f : n \in DOMAIN b /\ f[n].at = b[n]

\* Two tables hold the same of node n.
Alike(f, h, n) == /\ n \in DOMAIN f <=> n \in DOMAIN h
                  /\ n \in DOMAIN f => f[n] = h[n]

\* An entry is about node n.
About(e, n) == e.table = "node" /\ e.row = n

\* Undoing an entry changes nothing but the node it is about.
LEMMA UndoneElsewhere ==
  ASSUME NEW e, NEW n, ~ About(e, n), NEW f
  PROVE  Alike(UndoneNodes(e, f), f, n)
<1>1. CASE e.table = "node" /\ e.op = "INSERT"
  <2>1. UndoneNodes(e, f) = Without(f, {e.row})
    BY <1>1 DEF UndoneNodes
  <2>2. n # e.row
    BY <1>1 DEF About
  <2>3. DOMAIN Without(f, {e.row}) = DOMAIN f \ {e.row}
    BY WithoutKeys
  <2>4. n \in DOMAIN f => Without(f, {e.row})[n] = f[n]
    BY <2>2, WithoutRow
  <2> QED
    BY <2>1, <2>2, <2>3, <2>4 DEF Alike
<1>2. CASE e.table = "node" /\ e.op = "UPDATE" /\ e.row \in DOMAIN f
  <2>1. UndoneNodes(e, f) = [f EXCEPT ![e.row] = e.before]
    BY <1>2 DEF UndoneNodes
  <2> QED
    BY <1>2, <2>1 DEF Alike, About
<1>3. CASE e.table = "node" /\ e.op = "DELETE"
  <2> DEFINE h == Single(e.row, e.before)
  <2>1. UndoneNodes(e, f) = Ignoring(f, h)
    BY <1>3 DEF UndoneNodes
  <2>2. DOMAIN h = {e.row}
    BY SingleKey
  <2> HIDE DEF h
  <2>3. DOMAIN Ignoring(f, h) = DOMAIN f \cup {e.row}
    BY <2>2, IgnoringKeys
  <2>4. n \in DOMAIN f => Ignoring(f, h)[n] = f[n]
    BY IgnoringRow
  <2> QED
    BY <1>3, <2>1, <2>3, <2>4 DEF Alike, About
<1>4. CASE ~ (e.table = "node" /\ e.op = "INSERT") /\ ~ (e.table = "node" /\ e.op = "DELETE")
           /\ ~ (e.table = "node" /\ e.op = "UPDATE" /\ e.row \in DOMAIN f)
  BY <1>4 DEF UndoneNodes, Alike
<1> QED
  BY <1>1, <1>2, <1>3, <1>4

\* Of the node it is about, undoing an INSERT removes the row, an UPDATE puts the row
\* before in place of one that is there, a DELETE puts it where there is none.
LEMMA UndoneInsert ==
  ASSUME NEW e, NEW n, About(e, n), e.op = "INSERT", NEW f
  PROVE  n \notin DOMAIN UndoneNodes(e, f)
<1>1. UndoneNodes(e, f) = Without(f, {n})
  BY DEF UndoneNodes, About
<1>2. DOMAIN Without(f, {n}) = DOMAIN f \ {n}
  BY WithoutKeys
<1> QED
  BY <1>1, <1>2

LEMMA UndoneUpdate ==
  ASSUME NEW e, NEW n, About(e, n), e.op = "UPDATE",
         NEW f \in Tables(Node, Row)
  PROVE  /\ n \in DOMAIN UndoneNodes(e, f) <=> n \in DOMAIN f
         /\ n \in DOMAIN f => UndoneNodes(e, f)[n] = e.before
<1>1. CASE n \in DOMAIN f
  <2>1. UndoneNodes(e, f) = [f EXCEPT ![n] = e.before]
    BY <1>1 DEF UndoneNodes, About
  <2> QED
    BY <1>1, <2>1
<1>2. CASE n \notin DOMAIN f
  BY <1>2 DEF UndoneNodes, About
<1> QED
  BY <1>1, <1>2

LEMMA UndoneDelete ==
  ASSUME NEW e, NEW n, About(e, n), e.op = "DELETE", NEW f
  PROVE  /\ n \in DOMAIN UndoneNodes(e, f)
         /\ UndoneNodes(e, f)[n] = IF n \in DOMAIN f THEN f[n] ELSE e.before
<1> DEFINE h == Single(n, e.before)
<1>1. UndoneNodes(e, f) = Ignoring(f, h)
  BY DEF UndoneNodes, About
<1>2. DOMAIN h = {n} /\ h[n] = e.before
  BY SingleKey
<1> HIDE DEF h
<1>3. n \in DOMAIN f \cup DOMAIN h
  BY <1>2
<1>4. DOMAIN Ignoring(f, h) = DOMAIN f \cup DOMAIN h
  BY IgnoringKeys
<1>5. Ignoring(f, h)[n] = IF n \in DOMAIN f THEN f[n] ELSE h[n]
  BY <1>3, IgnoringRow
<1> QED
  BY <1>1, <1>2, <1>3, <1>4, <1>5

\* Any other entry about a node leaves the table.
LEMMA UndoneOther ==
  ASSUME NEW e, e.op \notin {"INSERT", "UPDATE", "DELETE"}, NEW f
  PROVE  UndoneNodes(e, f) = f
BY DEF UndoneNodes

\* What undoing does to a node depends on what the table holds of it, and on nothing else.
LEMMA UndoneAlike ==
  ASSUME NEW e, NEW n, NEW f \in Tables(Node, Row), NEW h \in Tables(Node, Row), Alike(f, h, n)
  PROVE  Alike(UndoneNodes(e, f), UndoneNodes(e, h), n)
<1>1. CASE ~ About(e, n)
  <2>1. Alike(UndoneNodes(e, f), f, n) /\ Alike(UndoneNodes(e, h), h, n)
    BY <1>1, UndoneElsewhere
  <2> QED
    BY <2>1 DEF Alike
<1>2. CASE About(e, n) /\ e.op = "INSERT"
  <2>1. n \notin DOMAIN UndoneNodes(e, f) /\ n \notin DOMAIN UndoneNodes(e, h)
    BY <1>2, UndoneInsert
  <2> QED
    BY <2>1 DEF Alike
<1>3. CASE About(e, n) /\ e.op = "UPDATE"
  <2>1. /\ n \in DOMAIN UndoneNodes(e, f) <=> n \in DOMAIN f
        /\ n \in DOMAIN f => UndoneNodes(e, f)[n] = e.before
    BY <1>3, UndoneUpdate
  <2>2. /\ n \in DOMAIN UndoneNodes(e, h) <=> n \in DOMAIN h
        /\ n \in DOMAIN h => UndoneNodes(e, h)[n] = e.before
    BY <1>3, UndoneUpdate
  <2> QED
    BY <2>1, <2>2 DEF Alike
<1>4. CASE About(e, n) /\ e.op = "DELETE"
  <2>1. /\ n \in DOMAIN UndoneNodes(e, f)
        /\ UndoneNodes(e, f)[n] = IF n \in DOMAIN f THEN f[n] ELSE e.before
    BY <1>4, UndoneDelete
  <2>2. /\ n \in DOMAIN UndoneNodes(e, h)
        /\ UndoneNodes(e, h)[n] = IF n \in DOMAIN h THEN h[n] ELSE e.before
    BY <1>4, UndoneDelete
  <2> QED
    BY <2>1, <2>2 DEF Alike
<1>5. CASE e.op \notin {"INSERT", "UPDATE", "DELETE"}
  BY <1>5, UndoneOther
<1> QED
  BY <1>1, <1>2, <1>3, <1>4, <1>5

\* Undoing keeps rows as old as their nodes.
LEMMA UndoneDated ==
  ASSUME NEW e, NEW b, Fits(e, b), NEW f \in Tables(Node, Row), Dated(f, b)
  PROVE  Dated(UndoneNodes(e, f), b)
<1> SUFFICES ASSUME NEW n \in DOMAIN UndoneNodes(e, f)
             PROVE  n \in DOMAIN b /\ UndoneNodes(e, f)[n].at = b[n]
  BY DEF Dated
<1>1. CASE ~ About(e, n)
  <2>1. Alike(UndoneNodes(e, f), f, n)
    BY <1>1, UndoneElsewhere
  <2> QED
    BY <2>1 DEF Alike, Dated
<1>2. CASE About(e, n) /\ e.op = "INSERT"
  BY <1>2, UndoneInsert
<1>3. CASE About(e, n) /\ e.op = "UPDATE"
  <2>1. UndoneNodes(e, f)[n] = e.before
    BY <1>3, UndoneUpdate
  <2> QED
    BY <1>3, <2>1 DEF Fits, About
<1>4. CASE About(e, n) /\ e.op = "DELETE"
  <2>1. UndoneNodes(e, f)[n] = IF n \in DOMAIN f THEN f[n] ELSE e.before
    BY <1>4, UndoneDelete
  <2> QED
    BY <1>4, <2>1 DEF Fits, About, Dated
<1>5. CASE e.op \notin {"INSERT", "UPDATE", "DELETE"}
  <2>1. UndoneNodes(e, f) = f
    BY <1>5, UndoneOther
  <2> QED
    BY <2>1 DEF Dated
<1> QED
  BY <1>1, <1>2, <1>3, <1>4, <1>5
-----------------------------------------------------------------------------
\* The entries of a journal fit.
Fitting(jr, b) == \A k \in DOMAIN jr : Fits(jr[k], b)

\* One stage is a graph of rows as old as their nodes when the next one is.
LEMMA StepGraph ==
  ASSUME NEW b \in Tables(Node, Nat), NEW jr, Fitting(jr, b), NEW k, NEW t,
         NEW g \in Graphs, Dated(g.node, b)
  PROVE  /\ Step(jr, k, g, t) \in Graphs
         /\ Dated(Step(jr, k, g, t).node, b)
         /\ Step(jr, k, g, t).node = IF k \in Later(jr, t) THEN UndoneNodes(jr[k], g.node)
                                                         ELSE g.node
<1>1. CASE k \in Later(jr, t)
  <2>1. Fits(jr[k], b)
    BY <1>1 DEF Fitting, Later
  <2>2. Step(jr, k, g, t) = Undo(jr[k], g)
    BY <1>1 DEF Step
  <2>3. Undo(jr[k], g) \in Graphs /\ Undo(jr[k], g).node = UndoneNodes(jr[k], g.node)
    BY <2>1, UndoGraph
  <2>4. g.node \in Tables(Node, Row)
    BY GraphParts
  <2>5. Dated(UndoneNodes(jr[k], g.node), b)
    BY <2>1, <2>4, UndoneDated
  <2> QED
    BY <1>1, <2>2, <2>3, <2>5
<1>2. CASE k \notin Later(jr, t)
  BY <1>2 DEF Step
<1> QED
  BY <1>1, <1>2

\* All stages are.
LEMMA StagesGraph ==
  ASSUME NEW b \in Tables(Node, Nat), NEW jr, Fitting(jr, b), NEW last \in Nat, NEW t,
         NEW g \in Graphs, Dated(g.node, b), NEW s, Stages(s, jr, last, g, t)
  PROVE  \A k \in 0..last : s[k] \in Graphs /\ Dated(s[k].node, b)
<1> DEFINE S == {k \in 0..last : s[k] \in Graphs /\ Dated(s[k].node, b)}
<1>1. last \in S
  BY DEF Stages
<1>2. ASSUME NEW k \in 0..(last - 1), k + 1 \in S PROVE k \in S
  <2>1. s[k] = Step(jr, k + 1, s[k + 1], t)
    BY DEF Stages
  <2>2. s[k + 1] \in Graphs /\ Dated(s[k + 1].node, b)
    BY <1>2
  <2> QED
    BY <2>1, <2>2, StepGraph
<1>3. 0..last \subseteq S
  <2> HIDE DEF S
  <2> QED
    BY <1>1, <1>2, Downward
<1> QED
  BY <1>3

\* Two journals have the same entries to undo up to id m.
Agree(jr1, t1, jr2, t2, m) ==
  \A k \in 1..m : /\ k \in Later(jr1, t1) <=> k \in Later(jr2, t2)
                  /\ k \in Later(jr1, t1) => jr1[k] = jr2[k]

\* Two replays that meet, with the same entries still to undo, end alike.
LEMMA StagesMeet ==
  ASSUME NEW jr1, NEW last1 \in Nat, NEW g1, NEW t1, NEW s1, Stages(s1, jr1, last1, g1, t1),
         NEW jr2, NEW last2 \in Nat, NEW g2, NEW t2, NEW s2, Stages(s2, jr2, last2, g2, t2),
         NEW m \in Nat, m <= last1, m <= last2, s1[m] = s2[m], Agree(jr1, t1, jr2, t2, m)
  PROVE  \A k \in 0..m : s1[k] = s2[k]
<1> DEFINE S == {k \in 0..m : s1[k] = s2[k]}
<1>1. m \in S
  OBVIOUS
<1>2. ASSUME NEW k \in 0..(m - 1), k + 1 \in S PROVE k \in S
  <2>1. k \in 0..(last1 - 1) /\ k \in 0..(last2 - 1) /\ k + 1 \in 1..m /\ k \in 0..m
    OBVIOUS
  <2>2. s1[k] = Step(jr1, k + 1, s1[k + 1], t1) /\ s2[k] = Step(jr2, k + 1, s2[k + 1], t2)
    BY <2>1 DEF Stages
  <2>3. s1[k + 1] = s2[k + 1]
    BY <1>2
  <2> DEFINE h == s1[k + 1]
             i == k + 1
  <2>4. Step(jr1, i, h, t1) = Step(jr2, i, h, t2)
    <3>1. i \in 1..m
      BY <2>1
    <3>2. /\ i \in Later(jr1, t1) <=> i \in Later(jr2, t2)
          /\ i \in Later(jr1, t1) => jr1[i] = jr2[i]
      BY <3>1 DEF Agree
    <3> HIDE DEF i, h
    <3> QED
      BY <3>2 DEF Step
  <2> QED
    BY <2>1, <2>2, <2>3, <2>4
<1>3. 0..m \subseteq S
  <2> HIDE DEF S
  <2> QED
    BY <1>1, <1>2, Downward
<1> QED
  BY <1>3

\* A replay from a stage of another, with the same entries still to undo.
LEMMA ReplayFrom ==
  ASSUME NEW jr1, NEW m \in Nat, NEW t1,
         NEW jr2, NEW last \in Nat, NEW g, NEW t2, NEW s, Stages(s, jr2, last, g, t2),
         m <= last, Agree(jr1, t1, jr2, t2, m)
  PROVE  Replay(jr1, m, s[m], t1) = s[0]
<1>1. PICK r : Stages(r, jr1, m, s[m], t1) /\ Replay(jr1, m, s[m], t1) = r[0]
  BY ReplayStages
<1>2. r[m] = s[m]
  BY <1>1 DEF Stages
<1>3. \A k \in 0..m : r[k] = s[k]
  BY <1>1, <1>2, StagesMeet
<1> QED
  BY <1>1, <1>3

\* Nothing is to be undone between two ids.
Quiet(jr, t, m, high) == \A k \in (m + 1)..high : k \notin Later(jr, t)

\* Where nothing is to be undone, the stages stay as they are.
LEMMA StagesStill ==
  ASSUME NEW jr, NEW last \in Nat, NEW g, NEW t, NEW s, Stages(s, jr, last, g, t),
         NEW m \in Nat, NEW high \in 0..last, m <= high, Quiet(jr, t, m, high)
  PROVE  \A k \in m..high : s[k] = s[high]
<1> DEFINE S == {k \in 0..high : k >= m => s[k] = s[high]}
<1>1. high \in S
  OBVIOUS
<1>2. ASSUME NEW k \in 0..(high - 1), k + 1 \in S PROVE k \in S
  <2>1. SUFFICES ASSUME k >= m PROVE s[k] = s[high]
    OBVIOUS
  <2>2. s[k] = Step(jr, k + 1, s[k + 1], t)
    BY DEF Stages
  <2>3. s[k + 1] = s[high]
    BY <1>2, <2>1
  <2>4. k + 1 \notin Later(jr, t)
    BY <2>1 DEF Quiet
  <2> QED
    BY <2>2, <2>3, <2>4 DEF Step
<1>3. 0..high \subseteq S
  <2> HIDE DEF S
  <2> QED
    BY <1>1, <1>2, Downward
<1> QED
  BY <1>3

\* What a replay brings back of a node depends only on what the graph holds of it.
LEMMA ReplayAlike ==
  ASSUME NEW b \in Tables(Node, Nat), NEW jr, Fitting(jr, b), NEW last \in Nat, NEW t, NEW n,
         NEW g \in Graphs, Dated(g.node, b), NEW h \in Graphs, Dated(h.node, b),
         Alike(g.node, h.node, n)
  PROVE  Alike(Replay(jr, last, g, t).node, Replay(jr, last, h, t).node, n)
<1>1. PICK s : Stages(s, jr, last, g, t) /\ Replay(jr, last, g, t) = s[0]
  BY ReplayStages
<1>2. PICK r : Stages(r, jr, last, h, t) /\ Replay(jr, last, h, t) = r[0]
  BY ReplayStages
<1>3. \A k \in 0..last : s[k] \in Graphs /\ Dated(s[k].node, b)
  BY <1>1, StagesGraph
<1>4. \A k \in 0..last : r[k] \in Graphs /\ Dated(r[k].node, b)
  BY <1>2, StagesGraph
<1> DEFINE S == {k \in 0..last : Alike(s[k].node, r[k].node, n)}
<1>5. last \in S
  BY <1>1, <1>2 DEF Stages
<1>6. ASSUME NEW k \in 0..(last - 1), k + 1 \in S PROVE k \in S
  <2> DEFINE i == k + 1
             p == s[i]
             q == r[i]
  <2>1. s[k] = Step(jr, i, p, t) /\ r[k] = Step(jr, i, q, t)
    BY <1>1, <1>2 DEF Stages
  <2>2. /\ p \in Graphs /\ Dated(p.node, b) /\ q \in Graphs /\ Dated(q.node, b)
        /\ Alike(p.node, q.node, n)
    BY <1>3, <1>4, <1>6
  <2>3. p.node \in Tables(Node, Row) /\ q.node \in Tables(Node, Row)
    BY <2>2, GraphParts
  <2> HIDE DEF i, p, q
  <2>4. Alike(UndoneNodes(jr[i], p.node), UndoneNodes(jr[i], q.node), n)
    BY <2>2, <2>3, UndoneAlike
  <2>5. Step(jr, i, p, t).node = IF i \in Later(jr, t) THEN UndoneNodes(jr[i], p.node) ELSE p.node
    BY <2>2, StepGraph
  <2>6. Step(jr, i, q, t).node = IF i \in Later(jr, t) THEN UndoneNodes(jr[i], q.node) ELSE q.node
    BY <2>2, StepGraph
  <2>7. Alike(s[k].node, r[k].node, n)
    BY <2>1, <2>2, <2>4, <2>5, <2>6
  <2> QED
    BY <2>7
<1>7. 0..last \subseteq S
  <2> HIDE DEF S
  <2> QED
    BY <1>5, <1>6, Downward
<1> QED
  BY <1>1, <1>2, <1>7

\* Stages at which no entry about a node is undone leave the node alone.
LEMMA StagesElsewhere ==
  ASSUME NEW b \in Tables(Node, Nat), NEW jr, Fitting(jr, b), NEW last \in Nat, NEW t, NEW n,
         NEW g \in Graphs, Dated(g.node, b), NEW s, Stages(s, jr, last, g, t), NEW m \in Nat,
         \A k \in (m + 1)..last : k \in Later(jr, t) => ~ About(jr[k], n)
  PROVE  \A k \in m..last : Alike(s[k].node, g.node, n)
<1>1. \A k \in 0..last : s[k] \in Graphs /\ Dated(s[k].node, b)
  BY StagesGraph
<1> DEFINE S == {k \in 0..last : k >= m => Alike(s[k].node, g.node, n)}
<1>2. last \in S
  BY DEF Stages, Alike
<1>3. ASSUME NEW k \in 0..(last - 1), k + 1 \in S PROVE k \in S
  <2> SUFFICES ASSUME k >= m PROVE Alike(s[k].node, g.node, n)
    OBVIOUS
  <2> DEFINE i == k + 1
             p == s[i]
  <2>1. s[k] = Step(jr, i, p, t)
    BY DEF Stages
  <2>2. p \in Graphs /\ Dated(p.node, b) /\ Alike(p.node, g.node, n)
    BY <1>1, <1>3
  <2>3. i \in Later(jr, t) => ~ About(jr[i], n)
    OBVIOUS
  <2> HIDE DEF i, p
  <2>4. Step(jr, i, p, t).node = IF i \in Later(jr, t) THEN UndoneNodes(jr[i], p.node) ELSE p.node
    BY <2>2, StepGraph
  <2>5. ~ About(jr[i], n) => Alike(UndoneNodes(jr[i], p.node), p.node, n)
    BY UndoneElsewhere
  <2> QED
    BY <2>1, <2>2, <2>3, <2>4, <2>5 DEF Alike
<1>4. 0..last \subseteq S
  <2> HIDE DEF S
  <2> QED
    BY <1>2, <1>3, Downward
<1> QED
  BY <1>4

\* No INSERT of node n is undone: it was born by t.
NoInsert(jr, t, n) == \A k \in Later(jr, t) : ~ (About(jr[k], n) /\ jr[k].op = "INSERT")

\* A node is there, or there is a DELETE to bring it back, beyond id k.
Recoverable(jr, t, g, n, k) ==
  \/ n \in DOMAIN g.node
  \/ \E i \in Later(jr, t) : i > k /\ About(jr[i], n) /\ jr[i].op = "DELETE"

\* Such a node comes back, and stays, unless its INSERT is undone.
LEMMA StagesRecover ==
  ASSUME NEW b \in Tables(Node, Nat), NEW jr, Fitting(jr, b), NEW last \in Nat, NEW t, NEW n,
         DOMAIN jr \subseteq 1..last,
         NEW g \in Graphs, Dated(g.node, b), NEW s, Stages(s, jr, last, g, t),
         NoInsert(jr, t, n)
  PROVE  \A k \in 0..last : Recoverable(jr, t, g, n, k) => n \in DOMAIN s[k].node
<1>1. \A k \in 0..last : s[k] \in Graphs /\ Dated(s[k].node, b)
  BY StagesGraph
<1> DEFINE S == {k \in 0..last : Recoverable(jr, t, g, n, k) => n \in DOMAIN s[k].node}
<1>2. last \in S
  <2>1. s[last] = g
    BY DEF Stages
  <2> QED
    BY <2>1 DEF Recoverable, Later
<1>3. ASSUME NEW k \in 0..(last - 1), k + 1 \in S PROVE k \in S
  <2> SUFFICES ASSUME Recoverable(jr, t, g, n, k) PROVE n \in DOMAIN s[k].node
    OBVIOUS
  <2> DEFINE i == k + 1
             p == s[i]
  <2>0. DOMAIN jr \subseteq Nat
    OBVIOUS
  <2>1. s[k] = Step(jr, i, p, t)
    BY DEF Stages
  <2>2. p \in Graphs /\ Dated(p.node, b)
    BY <1>1
  <2>3. Recoverable(jr, t, g, n, i) => n \in DOMAIN p.node
    BY <1>3
  <2>4. Recoverable(jr, t, g, n, i) \/ (i \in Later(jr, t) /\ About(jr[i], n) /\ jr[i].op = "DELETE")
    BY <2>0 DEF Recoverable, Later
  <2> HIDE DEF i, p
  <2>5. Step(jr, i, p, t).node = IF i \in Later(jr, t) THEN UndoneNodes(jr[i], p.node) ELSE p.node
    BY <2>2, StepGraph
  <2>6. p.node \in Tables(Node, Row)
    BY <2>2, GraphParts
  <2>7. CASE i \in Later(jr, t) /\ About(jr[i], n) /\ jr[i].op = "DELETE"
    <3>1. n \in DOMAIN UndoneNodes(jr[i], p.node)
      BY <2>7, UndoneDelete
    <3> QED
      BY <2>1, <2>5, <2>7, <3>1
  <2>8. CASE n \in DOMAIN p.node /\ i \in Later(jr, t)
             /\ ~ (About(jr[i], n) /\ jr[i].op = "DELETE")
    <3>1. CASE ~ About(jr[i], n)
      <4>1. Alike(UndoneNodes(jr[i], p.node), p.node, n)
        BY <3>1, UndoneElsewhere
      <4> QED
        BY <2>1, <2>5, <2>8, <4>1 DEF Alike
    <3>2. CASE About(jr[i], n) /\ jr[i].op = "UPDATE"
      <4>1. n \in DOMAIN UndoneNodes(jr[i], p.node) <=> n \in DOMAIN p.node
        BY <2>6, <3>2, UndoneUpdate
      <4> QED
        BY <2>1, <2>5, <2>8, <4>1
    <3>3. CASE About(jr[i], n) /\ jr[i].op \notin {"INSERT", "UPDATE", "DELETE"}
      <4>1. UndoneNodes(jr[i], p.node) = p.node
        BY <3>3, UndoneOther
      <4> QED
        BY <2>1, <2>5, <2>8, <4>1
    <3>4. ~ (About(jr[i], n) /\ jr[i].op = "INSERT")
      BY <2>8 DEF NoInsert
    <3> QED
      BY <2>8, <3>1, <3>2, <3>3, <3>4
  <2>9. CASE n \in DOMAIN p.node /\ i \notin Later(jr, t)
    BY <2>1, <2>5, <2>9
  <2> QED
    BY <2>3, <2>4, <2>7, <2>8, <2>9
<1>4. 0..last \subseteq S
  <2> HIDE DEF S
  <2> QED
    BY <1>2, <1>3, Downward
<1> QED
  BY <1>4
-----------------------------------------------------------------------------
\* The ids of a journal are in the order of time.
Ordered(jr) == \A i, j \in DOMAIN jr : i <= j => jr[i].at <= jr[j].at
Timed(jr)   == \A k \in DOMAIN jr : jr[k].at \in Nat

\* An ordered journal is cut at a time by an id.
LEMMA Cut ==
  ASSUME NEW jr, NEW last \in Nat, DOMAIN jr \subseteq 1..last, Ordered(jr), Timed(jr), NEW t \in Nat
  PROVE  \E m \in 0..last : \A k \in DOMAIN jr : k > m <=> k \in Later(jr, t)
<1> DEFINE S == {m \in 0..last : \A k \in DOMAIN jr : k > m => k \in Later(jr, t)}
<1>1. last \in S
  OBVIOUS
<1>2. PICK m \in S : \A k \in S : m <= k
  <2>1. S \subseteq Nat /\ S # {}
    BY <1>1
  <2> HIDE DEF S
  <2> QED
    BY <2>1, LeastMember
<1>3. ASSUME NEW k \in DOMAIN jr, k <= m PROVE k \notin Later(jr, t)
  <2>1. m # 0 /\ m \in 1..last /\ k \in Nat
    BY <1>2, <1>3
  <2>2. m - 1 \notin S
    BY <1>2, <2>1
  <2>3. PICK i \in DOMAIN jr : i > m - 1 /\ i \notin Later(jr, t)
    BY <2>1, <2>2
  <2>4. i <= m /\ i \in Nat
    BY <1>2, <2>3
  <2>5. i = m
    BY <2>1, <2>3, <2>4
  <2>6. jr[k].at <= jr[i].at
    BY <1>3, <2>5 DEF Ordered
  <2> QED
    BY <2>3, <2>6 DEF Later, Timed
<1> QED
  BY <1>2, <1>3

\* A replay to t goes by way of any later time u: undoing what is later than u, then the
\* rest of what is later than t.
LEMMA ReplayTwice ==
  ASSUME NEW jr, NEW last \in Nat, DOMAIN jr \subseteq 1..last, Ordered(jr), Timed(jr),
         NEW t \in Nat, NEW u \in Nat, t <= u, NEW g
  PROVE  Replay(jr, last, g, t) =
           Replay(Without(jr, Later(jr, u)), last, Replay(jr, last, g, u), t)
<1> DEFINE kept == Without(jr, Later(jr, u))
           R    == Replay(jr, last, g, u)
<1>1. PICK m \in 0..last : \A k \in DOMAIN jr : k > m <=> k \in Later(jr, u)
  BY Cut
<1>2. PICK s : Stages(s, jr, last, g, t) /\ Replay(jr, last, g, t) = s[0]
  BY ReplayStages
<1>3. PICK r : Stages(r, jr, last, g, u) /\ R = r[0]
  BY ReplayStages
<1>4. PICK q : Stages(q, kept, last, R, t) /\ Replay(kept, last, R, t) = q[0]
  <2> HIDE DEF kept, R
  <2> QED
    BY ReplayStages
<1>5. /\ DOMAIN kept = DOMAIN jr \ Later(jr, u)
      /\ \A k \in DOMAIN jr \ Later(jr, u) : kept[k] = jr[k]
  BY WithoutKeys, WithoutRow
<1>6. r[m] = s[m]
  <2> DEFINE S == {k \in 0..last : k >= m => s[k] = r[k]}
  <2>1. last \in S
    BY <1>2, <1>3 DEF Stages
  <2>2. ASSUME NEW k \in 0..(last - 1), k + 1 \in S PROVE k \in S
    <3> SUFFICES ASSUME k >= m PROVE s[k] = r[k]
      OBVIOUS
    <3> DEFINE i == k + 1
               p == s[i]
    <3>1. s[k] = Step(jr, i, p, t) /\ r[k] = Step(jr, i, r[i], u)
      BY <1>2, <1>3 DEF Stages
    <3>2. r[i] = p
      BY <2>2
    <3>3. i > m
      OBVIOUS
    <3> HIDE DEF i, p
    <3>4. i \in Later(jr, t) <=> i \in Later(jr, u)
      <4>1. i \in DOMAIN jr => i \in Later(jr, u)
        BY <1>1, <3>3
      <4>2. i \in DOMAIN jr /\ jr[i].at > u => jr[i].at > t
        BY DEF Timed
      <4> QED
        BY <4>1, <4>2 DEF Later
    <3> QED
      BY <3>1, <3>2, <3>4 DEF Step
  <2>3. 0..last \subseteq S
    <3> HIDE DEF S
    <3> QED
      BY <2>1, <2>2, Downward
  <2> QED
    BY <2>3
<1>7. r[m] = R
  <2>1. Quiet(jr, u, 0, m)
    BY <1>1 DEF Later, Quiet
  <2>2. \A k \in 0..m : r[k] = r[m]
    <3> HIDE DEF kept, R
    <3>1. 0 \in Nat /\ 0 <= m
      OBVIOUS
    <3> QED
      BY <1>3, <2>1, <3>1, StagesStill
  <2> QED
    BY <1>3, <2>2
<1>8. q[m] = R
  <2>1. Quiet(kept, t, m, last)
    <3> HIDE DEF kept
    <3> QED
      BY <1>1, <1>5 DEF Later, Quiet
  <2>2. \A k \in m..last : q[k] = q[last]
    <3> HIDE DEF kept, R
    <3>1. m \in Nat /\ last \in 0..last /\ m <= last
      OBVIOUS
    <3> QED
      BY <1>4, <2>1, <3>1, StagesStill
  <2>3. q[last] = R
    BY <1>4 DEF Stages
  <2> QED
    BY <2>2, <2>3
<1>9. Agree(jr, t, kept, t, m)
  <2> SUFFICES ASSUME NEW k \in 1..m
               PROVE  /\ k \in Later(jr, t) <=> k \in Later(kept, t)
                      /\ k \in Later(jr, t) => jr[k] = kept[k]
    BY DEF Agree
  <2>1. k \notin Later(jr, u)
    BY <1>1 DEF Later
  <2> HIDE DEF kept
  <2> QED
    BY <1>5, <2>1 DEF Later
<1>10. \A k \in 0..m : s[k] = q[k]
  <2>1. s[m] = q[m] /\ m \in Nat /\ m <= last
    BY <1>6, <1>7, <1>8
  <2> HIDE DEF kept, R
  <2> QED
    BY <1>2, <1>4, <1>9, <2>1, StagesMeet
<1> QED
  BY <1>2, <1>4, <1>10

-----------------------------------------------------------------------------
(* Graphs and journals, changed *)

\* A graph with another table of nodes, links or bridges.
LEMMA WithNodes ==
  ASSUME NEW g \in Graphs, NEW f \in Tables(Node, Row), DOMAIN g.node \subseteq DOMAIN f
  PROVE  /\ [g EXCEPT !.node = f] \in Graphs
         /\ [g EXCEPT !.node = f] = [node |-> f, link |-> g.link, bridge |-> g.bridge]
<1>1. /\ g = [node |-> g.node, link |-> g.link, bridge |-> g.bridge]
      /\ g.node \in Tables(Node, Row) /\ g.link \in Tables(Link, Time)
      /\ g.bridge \in Tables(Bridge, Time)
      /\ \A l \in DOMAIN g.link : Ends(l) \subseteq DOMAIN g.node
  BY GraphParts
<1>2. [g EXCEPT !.node = f] = [node |-> f, link |-> g.link, bridge |-> g.bridge]
  BY <1>1
<1> QED
  BY <1>1, <1>2 DEF Graphs

LEMMA WithLinks ==
  ASSUME NEW g \in Graphs, NEW f \in Tables(Link, Time),
         \A l \in DOMAIN f : Ends(l) \subseteq DOMAIN g.node
  PROVE  /\ [g EXCEPT !.link = f] \in Graphs
         /\ [g EXCEPT !.link = f] = [node |-> g.node, link |-> f, bridge |-> g.bridge]
<1>1. /\ g = [node |-> g.node, link |-> g.link, bridge |-> g.bridge]
      /\ g.node \in Tables(Node, Row) /\ g.bridge \in Tables(Bridge, Time)
  BY GraphParts
<1>2. [g EXCEPT !.link = f] = [node |-> g.node, link |-> f, bridge |-> g.bridge]
  BY <1>1
<1> QED
  BY <1>1, <1>2 DEF Graphs

LEMMA WithBridges ==
  ASSUME NEW g \in Graphs, NEW f \in Tables(Bridge, Time)
  PROVE  /\ [g EXCEPT !.bridge = f] \in Graphs
         /\ [g EXCEPT !.bridge = f] = [node |-> g.node, link |-> g.link, bridge |-> f]
<1>1. /\ g = [node |-> g.node, link |-> g.link, bridge |-> g.bridge]
      /\ g.node \in Tables(Node, Row) /\ g.link \in Tables(Link, Time)
      /\ \A l \in DOMAIN g.link : Ends(l) \subseteq DOMAIN g.node
  BY GraphParts
<1>2. [g EXCEPT !.bridge = f] = [node |-> g.node, link |-> g.link, bridge |-> f]
  BY <1>1
<1> QED
  BY <1>1, <1>2 DEF Graphs

\* A node with another version.
LEMMA WithVersion ==
  ASSUME NEW g \in Graphs, NEW n \in DOMAIN g.node, NEW v \in Version
  PROVE  LET f == [g.node EXCEPT ![n] = [version |-> v, at |-> g.node[n].at]] IN
         /\ [g EXCEPT !.node[n].version = v] \in Graphs
         /\ [g EXCEPT !.node[n].version = v] = [node |-> f, link |-> g.link, bridge |-> g.bridge]
         /\ f \in Tables(Node, Row) /\ DOMAIN f = DOMAIN g.node
<1> DEFINE row == [version |-> v, at |-> g.node[n].at]
           f == [g.node EXCEPT ![n] = row]
<1>1. /\ g = [node |-> g.node, link |-> g.link, bridge |-> g.bridge]
      /\ g.node \in Tables(Node, Row)
  BY GraphParts
<1>2. g.node[n] \in Row
  BY <1>1, TableRows
<1>3. row \in Row
  BY <1>2 DEF Row
<1>4. f \in Tables(Node, Row) /\ DOMAIN f = DOMAIN g.node
  <2> HIDE DEF row
  <2> QED
    BY <1>1, <1>3, ChangedTable
<1>5. [g.node[n] EXCEPT !.version = v] = row
  BY <1>2 DEF Row
<1>6. [g EXCEPT !.node[n].version = v] = [g EXCEPT !.node = f]
  BY <1>1, <1>5
<1> HIDE DEF f
<1>7. /\ [g EXCEPT !.node = f] \in Graphs
      /\ [g EXCEPT !.node = f] = [node |-> f, link |-> g.link, bridge |-> g.bridge]
  BY <1>4, WithNodes
<1> QED
  BY <1>4, <1>6, <1>7 DEF f
-----------------------------------------------------------------------------
\* A journal with a sequence of entries behind it.
Longer(jr, last, es) == Ignoring(jr, [k \in (last + 1)..(last + Len(es)) |-> es[k - last]])

\* It keeps the old entries under their ids, and gives the new ones the next ids.
LEMMA LongerIds ==
  ASSUME NEW jr, NEW last \in Nat, DOMAIN jr \subseteq 1..last, NEW es, Len(es) \in Nat
  PROVE  /\ DOMAIN Longer(jr, last, es) = DOMAIN jr \cup (last + 1)..(last + Len(es))
         /\ \A k \in DOMAIN jr : Longer(jr, last, es)[k] = jr[k]
         /\ \A k \in (last + 1)..(last + Len(es)) :
              Longer(jr, last, es)[k] = es[k - last] /\ k - last \in 1..Len(es)
<1> DEFINE f == [k \in (last + 1)..(last + Len(es)) |-> es[k - last]]
<1>1. DOMAIN f = (last + 1)..(last + Len(es))
  OBVIOUS
<1>2. \A k \in (last + 1)..(last + Len(es)) : f[k] = es[k - last]
  OBVIOUS
<1>3. Longer(jr, last, es) = Ignoring(jr, f)
  BY DEF Longer
<1> HIDE DEF f
<1>4. DOMAIN Ignoring(jr, f) = DOMAIN jr \cup DOMAIN f
  BY IgnoringKeys
<1>5. \A k \in DOMAIN jr : Ignoring(jr, f)[k] = jr[k]
  BY IgnoringRow
<1>6. \A k \in DOMAIN f : k \notin DOMAIN jr
  BY <1>1
<1>7. \A k \in DOMAIN f : Ignoring(jr, f)[k] = f[k]
  BY <1>6, IgnoringRow
<1> QED
  BY <1>1, <1>2, <1>3, <1>4, <1>5, <1>7

\* Entries written now.
Written(es, b, now) ==
  Len(es) \in Nat /\ \A i \in 1..Len(es) : Fits(es[i], b) /\ es[i].at = now

\* What a journal is: ids given out, in the order of time, none later than now.
Kept(jr, last, b, now) ==
  /\ last \in Nat /\ DOMAIN jr \subseteq 1..last
  /\ \A k \in DOMAIN jr : jr[k].at \in 1..now
  /\ Fitting(jr, b) /\ Ordered(jr)

\* The triggers' INSERTs keep a journal well kept.
LEMMA LongerKept ==
  ASSUME NEW jr, NEW last, NEW b, NEW now \in Nat \ {0}, Kept(jr, last, b, now),
         NEW es, Written(es, b, now)
  PROVE  Kept(Longer(jr, last, es), last + Len(es), b, now)
<1> DEFINE L == Longer(jr, last, es)
<1>1. last \in Nat /\ DOMAIN jr \subseteq 1..last /\ Len(es) \in Nat
  BY DEF Kept, Written
<1>2. /\ DOMAIN L = DOMAIN jr \cup (last + 1)..(last + Len(es))
      /\ \A k \in DOMAIN jr : L[k] = jr[k]
      /\ \A k \in (last + 1)..(last + Len(es)) : L[k] = es[k - last] /\ k - last \in 1..Len(es)
  BY <1>1, LongerIds
<1> HIDE DEF L
<1>3. \A k \in (last + 1)..(last + Len(es)) : Fits(L[k], b) /\ L[k].at = now
  BY <1>2 DEF Written
<1>4. \A k \in DOMAIN jr : Fits(L[k], b) /\ L[k].at = jr[k].at /\ jr[k].at \in 1..now
  BY <1>2 DEF Kept, Fitting
<1>5. Fitting(L, b)
  BY <1>2, <1>3, <1>4 DEF Fitting
<1>6. \A k \in DOMAIN L : L[k].at \in 1..now
  BY <1>2, <1>3, <1>4
<1>7. Ordered(L)
  <2> SUFFICES ASSUME NEW i \in DOMAIN L, NEW j \in DOMAIN L, i <= j
               PROVE  L[i].at <= L[j].at
    BY DEF Ordered
  <2>1. CASE j \in DOMAIN jr
    <3>1. i \in DOMAIN jr
      BY <1>1, <1>2, <2>1
    <3> QED
      BY <1>4, <2>1, <3>1 DEF Kept, Ordered
  <2>2. CASE j \notin DOMAIN jr
    <3>1. L[j].at = now
      BY <1>2, <1>3, <2>2
    <3> QED
      BY <1>6, <3>1
  <2> QED
    BY <2>1, <2>2
<1>8. last + Len(es) \in Nat /\ DOMAIN L \subseteq 1..(last + Len(es))
  BY <1>1, <1>2
<1> QED
  BY <1>5, <1>6, <1>7, <1>8 DEF Kept, L

\* What is left of a journal.
LEMMA WithoutKept ==
  ASSUME NEW jr, NEW last, NEW b, NEW now, Kept(jr, last, b, now), NEW S
  PROVE  Kept(Without(jr, S), last, b, now)
<1> DEFINE L == Without(jr, S)
<1>1. DOMAIN L = DOMAIN jr \ S
  BY WithoutKeys
<1>2. \A k \in DOMAIN jr \ S : L[k] = jr[k]
  BY WithoutRow
<1> HIDE DEF L
<1>3. Fitting(L, b) /\ Ordered(L)
  BY <1>1, <1>2 DEF Kept, Fitting, Ordered
<1> QED
  BY <1>1, <1>2, <1>3 DEF Kept, L

\* More nodes are born, and time goes on.
LEMMA KeptOn ==
  ASSUME NEW jr, NEW last, NEW b, NEW now \in Nat, Kept(jr, last, b, now), NEW c,
         NEW later \in Nat, now <= later, \A n \in DOMAIN b : n \in DOMAIN c /\ c[n] = b[n]
  PROVE  Kept(jr, last, c, later)
<1>1. \A k \in DOMAIN jr : Fits(jr[k], c)
  <2> SUFFICES ASSUME NEW k \in DOMAIN jr PROVE Fits(jr[k], c)
    OBVIOUS
  <2>1. Fits(jr[k], b)
    BY DEF Kept, Fitting
  <2> QED
    BY <2>1 DEF Fits
<1>2. \A k \in DOMAIN jr : jr[k].at \in 1..later
  BY DEF Kept
<1> QED
  BY <1>1, <1>2 DEF Kept, Fitting
-----------------------------------------------------------------------------
\* A sequence of a finite set has the members of the set, and no others.
LEMMA SequenceOf ==
  ASSUME NEW S, IsFiniteSet(S)
  PROVE  /\ Len(SetToSeq(S)) \in Nat /\ SetToSeq(S) \in Seq(S)
         /\ \A i \in 1..Len(SetToSeq(S)) : SetToSeq(S)[i] \in S
         /\ \A x \in S : \E i \in 1..Len(SetToSeq(S)) : SetToSeq(S)[i] = x
<1> DEFINE n == Cardinality(S)
           f == SetToSeq(S)
<1>1. n \in Nat /\ ExistsBijection(1..n, S)
  BY FS_CardinalityType
<1>2. \E h \in [1..n -> S] : IsInjective(h)
  BY <1>1 DEF ExistsBijection, Bijection, Injection
<1>3. f \in [1..n -> S] /\ IsInjective(f)
  BY <1>2 DEF SetToSeq
<1> HIDE DEF f
<1>4. f \in Seq(S) /\ Len(f) = n
  BY <1>1, <1>3
<1>5. f \in Surjection(1..n, S)
  <2>1. IsFiniteSet(1..n) /\ Cardinality(1..n) = n
    BY <1>1, FS_Interval
  <2>2. f \in Injection(1..n, S)
    BY <1>3 DEF Injection
  <2> QED
    BY <2>1, <2>2, FS_Injection
<1>6. \A x \in S : \E i \in 1..n : f[i] = x
  BY <1>5 DEF Surjection
<1> QED
  BY <1>1, <1>3, <1>4, <1>6 DEF f

-----------------------------------------------------------------------------
(* The invariant of the types *)

\* The rows of nodes are as old as the nodes, and whoever is pinned or found was born.
Births == /\ Dated(graph.node, born) /\ Dated(rb.node, born)
          /\ rb.ids \subseteq DOMAIN born /\ pins \subseteq DOMAIN born

\* The journal is well kept.
Logged == Kept(journal, lastId, born, clock)

\* A rollback is to a second that is over; once the nodes are exported, those found that
\* are in the graph are among them; an exported link has both its nodes exported.
Exported ==
  /\ rb.pc # "idle" => rb.target < clock
  /\ rb.pc # "replay" => DOMAIN rb.link = {}
  /\ rb.pc \in {"links", "replay"} => rb.ids \cap DOMAIN graph.node \subseteq DOMAIN rb.node
  /\ \A l \in DOMAIN rb.link : Ends(l) \subseteq DOMAIN rb.node

Base == TypeOK /\ Births /\ Logged /\ Exported

\* Tables fit wider types.
LEMMA WiderTable ==
  ASSUME NEW S, NEW T, NEW U, T \subseteq U, NEW f \in Tables(S, T)
  PROVE  f \in Tables(S, U)
<1>1. PICK D \in SUBSET S : f \in [D -> T]
  BY DEF Tables
<1>2. f \in [D -> U]
  BY <1>1
<1> QED
  BY <1>2 DEF Tables

\* The empty table, and a part of a table.
LEMMA NoRowsTable ==
  ASSUME NEW S, NEW T
  PROVE  NoRows \in Tables(S, T) /\ DOMAIN NoRows = {}
<1>1. NoRows \in [{} -> T]
  BY DEF NoRows
<1>2. {} \in SUBSET S
  OBVIOUS
<1> QED
  BY <1>1, <1>2 DEF Tables, NoRows

LEMMA RestrictTable ==
  ASSUME NEW S, NEW T, NEW f \in Tables(S, T), NEW R \in SUBSET (DOMAIN f)
  PROVE  /\ Restrict(f, R) \in Tables(S, T)
         /\ DOMAIN Restrict(f, R) = R
         /\ \A x \in R : Restrict(f, R)[x] = f[x]
<1>1. PICK D \in SUBSET S : f \in [D -> T]
  BY DEF Tables
<1>2. Restrict(f, R) \in [R -> T] /\ R \in SUBSET S
  BY <1>1 DEF Restrict
<1> QED
  BY <1>2 DEF Tables, Restrict

\* The facts about the constants and the clock that are used everywhere.
LEMMA Basics ==
  ASSUME TypeOK
  PROVE  /\ clock \in Nat \ {0} /\ clock \in Time /\ Time \subseteq Nat
         /\ born \in Tables(Node, Nat) /\ born \in Tables(Node, 1..clock)
         /\ graph \in Graphs /\ lastId \in Nat
         /\ graph.node \in Tables(Node, Row) /\ graph.link \in Tables(Link, Time)
         /\ graph.bridge \in Tables(Bridge, Time)
         /\ \A l \in DOMAIN graph.link : Ends(l) \subseteq DOMAIN graph.node
         /\ DOMAIN graph.node \subseteq Node /\ DOMAIN graph.link \subseteq Link
         /\ DOMAIN graph.bridge \subseteq Bridge
<1>1. clock \in Time /\ graph \in Graphs /\ lastId \in Nat /\ born \in Tables(Node, 1..clock)
  BY DEF TypeOK
<1>2. clock \in Nat \ {0} /\ Time \subseteq Nat
  BY <1>1, JournalAssumption DEF Time
<1>3. born \in Tables(Node, Nat)
  <2>1. 1..clock \subseteq Nat
    BY <1>2
  <2> QED
    BY <1>1, <2>1, WiderTable
<1>4. /\ graph.node \in Tables(Node, Row) /\ graph.link \in Tables(Link, Time)
      /\ graph.bridge \in Tables(Bridge, Time)
      /\ \A l \in DOMAIN graph.link : Ends(l) \subseteq DOMAIN graph.node
  BY <1>1, GraphParts
<1>5. /\ DOMAIN graph.node \subseteq Node /\ DOMAIN graph.link \subseteq Link
      /\ DOMAIN graph.bridge \subseteq Bridge
  BY <1>4, TableRows
<1> QED
  BY <1>1, <1>2, <1>3, <1>4, <1>5

\* Entries written now keep the journal well kept.
LEMMA LogKeeps ==
  ASSUME TypeOK, Logged, NEW es, Log(es), clock' = clock,
         \A n \in DOMAIN born : n \in DOMAIN born' /\ born'[n] = born[n],
         Written(es, born', clock)
  PROVE  Logged'
<1> DEFINE c == born'
<1>1. Kept(journal, lastId, c, clock)
  <2>1. Kept(journal, lastId, born, clock) /\ clock \in Nat
    BY Basics DEF Logged
  <2>2. \A n \in DOMAIN born : n \in DOMAIN c /\ c[n] = born[n]
    OBVIOUS
  <2> HIDE DEF c
  <2> QED
    BY <2>1, <2>2, KeptOn
<1>2. Kept(Longer(journal, lastId, es), lastId + Len(es), c, clock)
  <2>1. Written(es, c, clock) /\ clock \in Nat \ {0}
    BY Basics
  <2> HIDE DEF c
  <2> QED
    BY <1>1, <2>1, LongerKept
<1>3. journal' = Longer(journal, lastId, es) /\ lastId' = lastId + Len(es)
  BY DEF Log, Longer
<1> QED
  BY <1>2, <1>3 DEF Logged

\* One entry written now.
LEMMA OneWritten ==
  ASSUME NEW e, NEW b, Fits(e, b), e.at = clock
  PROVE  Written(<<e>>, b, clock)
BY DEF Written

\* The deletions of a finite set of links, and what they say.
LEMMA DeletionsWritten ==
  ASSUME TypeOK, NEW L \in SUBSET (DOMAIN graph.link), NEW b
  PROVE  /\ Written(Deletions(L), b, clock)
         /\ Deletions(L) \in Seq({Entry("link", l, "DELETE", graph.link[l]) : l \in L})
         /\ \A i \in 1..Len(Deletions(L)) :
              Deletions(L)[i] \in {Entry("link", l, "DELETE", graph.link[l]) : l \in L}
         /\ \A l \in L : \E i \in 1..Len(Deletions(L)) :
              Deletions(L)[i] = Entry("link", l, "DELETE", graph.link[l])
<1> DEFINE f == [l \in L |-> Entry("link", l, "DELETE", graph.link[l])]
           D == {Entry("link", l, "DELETE", graph.link[l]) : l \in L}
<1>1. IsFiniteSet(L)
  <2>1. L \subseteq Node \X Node
    BY Basics, JournalAssumption
  <2>2. IsFiniteSet(Node \X Node)
    BY JournalAssumption, FS_Product
  <2> QED
    BY <2>1, <2>2, FS_Subset
<1>2. IsFiniteSet(D)
  <2>1. f \in Surjection(L, D)
    BY DEF Surjection
  <2> HIDE DEF f, D
  <2> QED
    BY <1>1, <2>1, FS_Surjection
<1>3. /\ Len(SetToSeq(D)) \in Nat /\ SetToSeq(D) \in Seq(D)
      /\ \A i \in 1..Len(SetToSeq(D)) : SetToSeq(D)[i] \in D
      /\ \A x \in D : \E i \in 1..Len(SetToSeq(D)) : SetToSeq(D)[i] = x
  <2> HIDE DEF D
  <2> QED
    BY <1>2, SequenceOf
<1>4. \A x \in D : Fits(x, b) /\ x.at = clock
  <2> SUFFICES ASSUME NEW l \in L
               PROVE  LET e == Entry("link", l, "DELETE", graph.link[l]) IN Fits(e, b) /\ e.at = clock
    OBVIOUS
  <2>1. l \in Link /\ graph.link[l] \in Time
    BY Basics, TableRows
  <2> QED
    BY <2>1 DEF Entry, Fits
<1>5. Deletions(L) = SetToSeq(D)
  BY DEF Deletions
<1> HIDE DEF D
<1>6. Written(Deletions(L), b, clock)
  BY <1>3, <1>4, <1>5 DEF Written
<1>7. \A l \in L : Entry("link", l, "DELETE", graph.link[l]) \in D
  BY DEF D
<1> QED
  BY <1>3, <1>5, <1>6, <1>7 DEF D

\* Tables of rows as old as their nodes, with a node that is new, or when others are born.
LEMMA DatedOn ==
  ASSUME NEW f, NEW b, Dated(f, b), NEW c, \A n \in DOMAIN b : n \in DOMAIN c /\ c[n] = b[n]
  PROVE  Dated(f, c)
BY DEF Dated

LEMMA DatedIgnoring ==
  ASSUME NEW f, NEW g, NEW b, Dated(f, b), Dated(g, b)
  PROVE  Dated(Ignoring(f, g), b)
<1> SUFFICES ASSUME NEW n \in DOMAIN Ignoring(f, g)
             PROVE  n \in DOMAIN b /\ Ignoring(f, g)[n].at = b[n]
  BY DEF Dated
<1>1. n \in DOMAIN f \cup DOMAIN g
  BY IgnoringKeys
<1>2. Ignoring(f, g)[n] = IF n \in DOMAIN f THEN f[n] ELSE g[n]
  BY <1>1, IgnoringRow
<1> QED
  BY <1>1, <1>2 DEF Dated

LEMMA DatedWithout ==
  ASSUME NEW f, NEW b, Dated(f, b), NEW R
  PROVE  Dated(Without(f, R), b)
<1>1. DOMAIN Without(f, R) = DOMAIN f \ R
  BY WithoutKeys
<1>2. \A n \in DOMAIN f \ R : Without(f, R)[n] = f[n]
  BY WithoutRow
<1> QED
  BY <1>1, <1>2 DEF Dated

\* What the writes have in common.
LEMMA WriteKeeps ==
  ASSUME Base, Write,
         graph' \in Graphs, queue' \in Tables(Queued, [queued : Time, started : 0..MaxTime]),
         pins' \subseteq Pinnable, leaving' \subseteq Node, born' \in Tables(Node, 1..clock),
         horizon' \in 2..(clock + 1), fragile' \in [Link \cup Bridge -> 0..clock], Logged'
  PROVE  TypeOK'
<1>1. /\ lastId' \in Nat /\ DOMAIN journal' \subseteq 1..lastId'
      /\ \A k \in DOMAIN journal' : journal'[k].at \in 1..clock
  BY DEF Logged, Kept, Write
<1>2. ops' \in 0..MaxOps
  BY JournalAssumption DEF Base, TypeOK, Write
<1> QED
  BY <1>1, <1>2 DEF Base, TypeOK, Queues, Rollbacks, Write

\* A write of nodes that are no ids found by the export, or of fewer nodes.
LEMMA ExportedKept ==
  ASSUME Exported, UNCHANGED <<rb, clock>>,
         DOMAIN graph'.node \cap rb.ids \subseteq DOMAIN graph.node
  PROVE  Exported'
BY DEF Exported

\* createNode: the row is as old as the node, which is born now.
LEMMA CreateNodeKeeps ==
  ASSUME Base, NEW n \in Node, NEW v \in Version, CreateNode(n, v)
  PROVE  Base'
<1> DEFINE row == [version |-> v, at |-> clock]
           f == Ignoring(graph.node, Single(n, row))
           c == Ignoring(born, Single(n, clock))
<1>0. TypeOK /\ Births /\ Logged /\ Exported
  BY DEF Base
<1>b. /\ clock \in Nat \ {0} /\ clock \in Time /\ Time \subseteq Nat
      /\ born \in Tables(Node, Nat) /\ born \in Tables(Node, 1..clock)
      /\ graph \in Graphs /\ lastId \in Nat
      /\ graph.node \in Tables(Node, Row) /\ DOMAIN graph.node \subseteq Node
  BY <1>0, Basics
<1>1. row \in Row
  BY <1>b DEF Row
<1>2. f \in Tables(Node, Row)
  <2>1. Single(n, row) \in Tables(Node, Row)
    <3> HIDE DEF row
    <3> QED
      BY <1>1, SingleTable
  <2> QED
    BY <1>b, <2>1, IgnoringTable
<1>3. c \in Tables(Node, 1..clock)
  <2>1. Single(n, clock) \in Tables(Node, 1..clock)
    <3>1. clock \in 1..clock
      BY <1>b
    <3> QED
      BY <3>1, SingleTable
  <2> QED
    BY <1>b, <2>1, IgnoringTable
<1>4. DOMAIN f = DOMAIN graph.node \cup {n}
  <2>1. DOMAIN f = DOMAIN graph.node \cup DOMAIN Single(n, row)
    BY IgnoringKeys
  <2>2. DOMAIN Single(n, row) = {n}
    BY SingleKey
  <2> QED
    BY <2>1, <2>2
<1>5. DOMAIN c = DOMAIN born \cup {n} /\ c[n] = clock /\ \A m \in DOMAIN born : c[m] = born[m]
  <2>1. n \notin DOMAIN born
    BY DEF CreateNode
  <2>2. DOMAIN Single(n, clock) = {n} /\ Single(n, clock)[n] = clock
    BY SingleKey
  <2>3. DOMAIN c = DOMAIN born \cup {n}
    BY <2>2, IgnoringKeys
  <2>4. \A m \in DOMAIN born \cup {n} : c[m] = IF m \in DOMAIN born THEN born[m] ELSE Single(n, clock)[m]
    BY <2>2, IgnoringRow
  <2> HIDE DEF c
  <2> QED
    BY <2>1, <2>2, <2>3, <2>4
<1>6. graph' = [graph EXCEPT !.node = f] /\ born' = c
  BY DEF CreateNode
<1>7. /\ graph' \in Graphs
      /\ graph'.node = f
  <2> HIDE DEF f
  <2>1. [graph EXCEPT !.node = f] \in Graphs
    BY <1>b, <1>2, <1>4, WithNodes
  <2>2. [graph EXCEPT !.node = f] = [node |-> f, link |-> graph.link, bridge |-> graph.bridge]
    BY <1>b, <1>2, <1>4, WithNodes
  <2> QED
    BY <1>6, <2>1, <2>2
<1>8. Dated(f, c)
  <2>1. Dated(graph.node, c)
    <3> HIDE DEF c
    <3> QED
      BY <1>0, <1>5, DatedOn DEF Births
  <2>2. Dated(Single(n, row), c)
    <3>1. DOMAIN Single(n, row) = {n} /\ Single(n, row)[n] = row
      BY SingleKey
    <3> HIDE DEF c
    <3> QED
      BY <1>5, <3>1 DEF Dated
  <2> QED
    BY <2>1, <2>2, DatedIgnoring
<1>9. Logged'
  <2> DEFINE e == Entry("node", n, "INSERT", 0)
  <2>1. Fits(e, c) /\ e.at = clock
    <3> HIDE DEF c
    <3> QED
      BY <1>5 DEF Entry, Fits
  <2>2. Written(<<e>>, c, clock)
    <3> HIDE DEF c, e
    <3> QED
      BY <2>1, OneWritten
  <2>3. Log(<<e>>) /\ clock' = clock
    BY DEF CreateNode, Write
  <2> HIDE DEF c, e
  <2>4. \A m \in DOMAIN born : m \in DOMAIN born' /\ born'[m] = born[m]
    BY <1>5, <1>6
  <2> QED
    BY <1>0, <1>6, <2>2, <2>3, <2>4, LogKeeps
<1>10. TypeOK'
  <2> HIDE DEF f, c
  <2>1. Write /\ UNCHANGED <<queue, pins, leaving, horizon, fragile>>
    BY DEF CreateNode
  <2> QED
    BY <1>0, <1>3, <1>6, <1>7, <1>9, <2>1, WriteKeeps DEF TypeOK, Queues, Rollbacks
<1>11. Births'
  <2> HIDE DEF f, c
  <2>1. rb' = rb /\ pins' = pins
    BY DEF CreateNode, Write
  <2>2. Dated(rb.node, c)
    BY <1>0, <1>5, DatedOn DEF Births
  <2> QED
    BY <1>0, <1>5, <1>6, <1>7, <1>8, <2>1, <2>2 DEF Births
<1>12. Exported'
  <2> HIDE DEF f, c
  <2>1. UNCHANGED <<rb, clock>> /\ n \notin DOMAIN born
    BY DEF CreateNode, Write
  <2>2. DOMAIN graph'.node \cap rb.ids \subseteq DOMAIN graph.node
    BY <1>0, <1>4, <1>7, <2>1 DEF Births
  <2> QED
    BY <1>0, <2>1, <2>2, ExportedKept
<1> QED
  BY <1>9, <1>10, <1>11, <1>12 DEF Base

\* A write that gives birth to no node, to no more nodes than there were, and keeps the rest.
LEMMA OtherWriteKeeps ==
  ASSUME Base, Write, graph' \in Graphs, Logged',
         DOMAIN graph'.node \subseteq DOMAIN graph.node, Dated(graph'.node, born),
         UNCHANGED <<queue, pins, born, horizon>>,
         leaving' \subseteq Node, fragile' \in [Link \cup Bridge -> 0..clock]
  PROVE  Base'
<1>1. TypeOK'
  <2>1. /\ queue' \in Tables(Queued, [queued : Time, started : 0..MaxTime])
        /\ pins' \subseteq Pinnable /\ born' \in Tables(Node, 1..clock)
        /\ horizon' \in 2..(clock + 1)
    BY DEF Base, TypeOK, Queues, Rollbacks
  <2> QED
    BY <2>1, WriteKeeps
<1>2. Births'
  BY DEF Births, Base, Write
<1>3. Exported'
  <2>1. Exported /\ UNCHANGED <<rb, clock>> /\ DOMAIN graph'.node \cap rb.ids \subseteq DOMAIN graph.node
    BY DEF Base, Write
  <2> QED
    BY <2>1, ExportedKept
<1> QED
  BY <1>1, <1>2, <1>3 DEF Base

\* Entries written by such a write.
LEMMA OtherLog ==
  ASSUME Base, Write, UNCHANGED born, NEW es, Log(es), Written(es, born, clock)
  PROVE  Logged'
<1>1. TypeOK /\ Logged
  BY DEF Base
<1>2. clock' = clock /\ born' = born
  BY DEF Write
<1>3. \A n \in DOMAIN born : n \in DOMAIN born' /\ born'[n] = born[n]
  BY <1>2
<1>4. Written(es, born', clock)
  BY <1>2
<1> QED
  BY <1>1, <1>2, <1>3, <1>4, LogKeeps

\* An update of a structural column keeps the node's age.
LEMMA UpdateNodeKeeps ==
  ASSUME Base, NEW n \in Node, NEW v \in Version, UpdateNode(n, v)
  PROVE  Base'
<1> DEFINE row == [version |-> v, at |-> graph.node[n].at]
           f == [graph.node EXCEPT ![n] = row]
           e == Entry("node", n, "UPDATE", graph.node[n])
<1>0. TypeOK /\ Births /\ Logged /\ Exported
  BY DEF Base
<1>1. Write /\ n \in DOMAIN graph.node /\ UNCHANGED <<queue, pins, leaving, born, horizon, fragile>>
  BY DEF UpdateNode
<1>2. graph \in Graphs /\ graph.node \in Tables(Node, Row)
  BY <1>0, Basics
<1>3. graph' = [graph EXCEPT !.node[n].version = v]
  BY DEF UpdateNode
<1>4. /\ [graph EXCEPT !.node[n].version = v] \in Graphs
      /\ [graph EXCEPT !.node[n].version = v] = [node |-> f, link |-> graph.link, bridge |-> graph.bridge]
      /\ f \in Tables(Node, Row) /\ DOMAIN f = DOMAIN graph.node
  BY <1>1, <1>2, WithVersion
<1>5. graph' \in Graphs /\ graph'.node = f
  <2> HIDE DEF f
  <2> QED
    BY <1>3, <1>4
<1>6. Dated(f, born)
  BY <1>0, <1>1, <1>2, <1>4 DEF Dated, Births
<1>7. Logged'
  <2>1. graph.node[n] \in Row
    BY <1>1, <1>2, TableRows
  <2>2. Fits(e, born) /\ e.at = clock
    BY <1>0, <1>1, <2>1 DEF Entry, Fits, Births, Dated
  <2>3. Written(<<e>>, born, clock)
    <3> HIDE DEF e
    <3> QED
      BY <2>2, OneWritten
  <2>4. Log(<<e>>)
    BY DEF UpdateNode
  <2> HIDE DEF e
  <2> QED
    BY <1>1, <2>3, <2>4, OtherLog
<1>8. leaving' \subseteq Node /\ fragile' \in [Link \cup Bridge -> 0..clock]
  BY <1>0, <1>1 DEF TypeOK
<1> HIDE DEF f
<1> QED
  BY <1>1, <1>4, <1>5, <1>6, <1>7, <1>8, OtherWriteKeeps

\* createEdge: both nodes are there.
LEMMA CreateEdgeKeeps ==
  ASSUME Base, NEW l \in Link, CreateEdge(l)
  PROVE  Base'
<1> DEFINE f == Ignoring(graph.link, Single(l, clock))
           e == Entry("link", l, "INSERT", 0)
<1>0. TypeOK /\ Births
  BY DEF Base
<1>1. Write /\ Ends(l) \subseteq DOMAIN graph.node /\ UNCHANGED <<queue, pins, leaving, born, horizon>>
  BY DEF CreateEdge
<1>2. /\ graph \in Graphs /\ graph.link \in Tables(Link, Time) /\ clock \in Time /\ clock \in Nat
      /\ \A k \in DOMAIN graph.link : Ends(k) \subseteq DOMAIN graph.node
  BY <1>0, Basics
<1>3. Single(l, clock) \in Tables(Link, Time)
  BY <1>2, SingleTable
<1>4. f \in Tables(Link, Time)
  BY <1>2, <1>3, IgnoringTable
<1>5. DOMAIN f = DOMAIN graph.link \cup {l}
  <2>1. DOMAIN f = DOMAIN graph.link \cup DOMAIN Single(l, clock)
    BY IgnoringKeys
  <2>2. DOMAIN Single(l, clock) = {l}
    BY SingleKey
  <2> QED
    BY <2>1, <2>2
<1>6. graph' = [graph EXCEPT !.link = f]
  BY DEF CreateEdge
<1>7. graph' \in Graphs /\ graph'.node = graph.node
  <2> HIDE DEF f
  <2>1. \A k \in DOMAIN f : Ends(k) \subseteq DOMAIN graph.node
    BY <1>1, <1>2, <1>5
  <2>2. /\ [graph EXCEPT !.link = f] \in Graphs
        /\ [graph EXCEPT !.link = f] = [node |-> graph.node, link |-> f, bridge |-> graph.bridge]
    BY <1>2, <1>4, <2>1, WithLinks
  <2> QED
    BY <1>6, <2>2
<1>8. Logged'
  <2>1. Fits(e, born) /\ e.at = clock
    BY DEF Entry, Fits
  <2>2. Log(<<e>>)
    BY DEF CreateEdge
  <2> HIDE DEF e
  <2>3. Written(<<e>>, born, clock)
    BY <2>1, OneWritten
  <2> QED
    BY <1>1, <2>2, <2>3, OtherLog
<1>9. leaving' \subseteq Node /\ fragile' \in [Link \cup Bridge -> 0..clock]
  BY <1>0, <1>1, <1>2 DEF TypeOK, CreateEdge
<1>10. DOMAIN graph'.node \subseteq DOMAIN graph.node /\ Dated(graph'.node, born)
  BY <1>0, <1>7 DEF Births
<1> QED
  BY <1>1, <1>7, <1>8, <1>9, <1>10, OtherWriteKeeps

\* The bridges are bound to nothing.
LEMMA CreateBridgeKeeps ==
  ASSUME Base, NEW b \in Bridge, CreateBridge(b)
  PROVE  Base'
<1> DEFINE f == Ignoring(graph.bridge, Single(b, clock))
           e == Entry("bridge", b, "INSERT", 0)
<1>0. TypeOK /\ Births
  BY DEF Base
<1>1. Write /\ UNCHANGED <<queue, pins, leaving, born, horizon>>
  BY DEF CreateBridge
<1>2. graph \in Graphs /\ graph.bridge \in Tables(Bridge, Time) /\ clock \in Time /\ clock \in Nat
  BY <1>0, Basics
<1>3. Single(b, clock) \in Tables(Bridge, Time)
  BY <1>2, SingleTable
<1>4. f \in Tables(Bridge, Time)
  BY <1>2, <1>3, IgnoringTable
<1>5. graph' = [graph EXCEPT !.bridge = f]
  BY DEF CreateBridge
<1>6. graph' \in Graphs /\ graph'.node = graph.node
  <2> HIDE DEF f
  <2>1. /\ [graph EXCEPT !.bridge = f] \in Graphs
        /\ [graph EXCEPT !.bridge = f] = [node |-> graph.node, link |-> graph.link, bridge |-> f]
    BY <1>2, <1>4, WithBridges
  <2> QED
    BY <1>5, <2>1
<1>7. Logged'
  <2>1. Fits(e, born) /\ e.at = clock
    BY DEF Entry, Fits
  <2>2. Log(<<e>>)
    BY DEF CreateBridge
  <2> HIDE DEF e
  <2>3. Written(<<e>>, born, clock)
    BY <2>1, OneWritten
  <2> QED
    BY <1>1, <2>2, <2>3, OtherLog
<1>8. leaving' \subseteq Node /\ fragile' \in [Link \cup Bridge -> 0..clock]
  BY <1>0, <1>1, <1>2 DEF TypeOK, CreateBridge
<1>9. DOMAIN graph'.node \subseteq DOMAIN graph.node /\ Dated(graph'.node, born)
  BY <1>0, <1>6 DEF Births
<1> QED
  BY <1>1, <1>6, <1>7, <1>8, <1>9, OtherWriteKeeps

LEMMA DeleteBridgeKeeps ==
  ASSUME Base, NEW b \in Bridge, DeleteBridge(b)
  PROVE  Base'
<1> DEFINE f == Without(graph.bridge, {b})
           e == Entry("bridge", b, "DELETE", graph.bridge[b])
<1>0. TypeOK /\ Births
  BY DEF Base
<1>1. /\ Write /\ UNCHANGED <<queue, pins, leaving, born, horizon, fragile>>
      /\ b \in DOMAIN graph.bridge
  BY DEF DeleteBridge
<1>2. graph \in Graphs /\ graph.bridge \in Tables(Bridge, Time)
  BY <1>0, Basics
<1>4. f \in Tables(Bridge, Time)
  BY <1>2, WithoutTable
<1>5. graph' = [graph EXCEPT !.bridge = f]
  BY DEF DeleteBridge
<1>6. graph' \in Graphs /\ graph'.node = graph.node
  <2> HIDE DEF f
  <2>1. /\ [graph EXCEPT !.bridge = f] \in Graphs
        /\ [graph EXCEPT !.bridge = f] = [node |-> graph.node, link |-> graph.link, bridge |-> f]
    BY <1>2, <1>4, WithBridges
  <2> QED
    BY <1>5, <2>1
<1>7. Logged'
  <2>0. graph.bridge[b] \in Time
    BY <1>1, <1>2, TableRows
  <2>1. Fits(e, born) /\ e.at = clock
    BY <2>0 DEF Entry, Fits
  <2>2. Log(<<e>>)
    BY DEF DeleteBridge
  <2> HIDE DEF e
  <2>3. Written(<<e>>, born, clock)
    BY <2>1, OneWritten
  <2> QED
    BY <1>1, <2>2, <2>3, OtherLog
<1>8. leaving' \subseteq Node /\ fragile' \in [Link \cup Bridge -> 0..clock]
  BY <1>0, <1>1 DEF TypeOK
<1>9. DOMAIN graph'.node \subseteq DOMAIN graph.node /\ Dated(graph'.node, born)
  BY <1>0, <1>6 DEF Births
<1> QED
  BY <1>1, <1>6, <1>7, <1>8, <1>9, OtherWriteKeeps

\* The first DELETE of a hard removal.
LEMMA RemoveEdgesKeeps ==
  ASSUME Base, NEW n \in Node, RemoveEdges(n)
  PROVE  Base'
<1> DEFINE L == Touching(graph.link, {n})
           f == Without(graph.link, L)
<1>0. TypeOK /\ Births
  BY DEF Base
<1>1. Write /\ UNCHANGED <<queue, pins, born, horizon, fragile>> /\ leaving' = leaving \cup {n}
  BY DEF RemoveEdges
<1>2. /\ graph \in Graphs /\ graph.link \in Tables(Link, Time)
      /\ \A k \in DOMAIN graph.link : Ends(k) \subseteq DOMAIN graph.node
  BY <1>0, Basics
<1>3. L \in SUBSET (DOMAIN graph.link)
  BY DEF Touching
<1>4. f \in Tables(Link, Time)
  BY <1>2, WithoutTable
<1>5. DOMAIN f = DOMAIN graph.link \ L
  BY WithoutKeys
<1>6. graph' = [graph EXCEPT !.link = f]
  BY DEF RemoveEdges
<1>7. graph' \in Graphs /\ graph'.node = graph.node
  <2> HIDE DEF f
  <2>1. \A k \in DOMAIN f : Ends(k) \subseteq DOMAIN graph.node
    BY <1>2, <1>5
  <2>2. /\ [graph EXCEPT !.link = f] \in Graphs
        /\ [graph EXCEPT !.link = f] = [node |-> graph.node, link |-> f, bridge |-> graph.bridge]
    BY <1>2, <1>4, <2>1, WithLinks
  <2> QED
    BY <1>6, <2>2
<1>8. Logged'
  <2>1. Log(Deletions(L))
    BY DEF RemoveEdges
  <2>2. Written(Deletions(L), born, clock)
    <3> HIDE DEF L
    <3> QED
      BY <1>0, <1>3, DeletionsWritten
  <2> HIDE DEF L
  <2> QED
    BY <1>1, <2>1, <2>2, OtherLog
<1>9. leaving' \subseteq Node /\ fragile' \in [Link \cup Bridge -> 0..clock]
  BY <1>0, <1>1 DEF TypeOK
<1>10. DOMAIN graph'.node \subseteq DOMAIN graph.node /\ Dated(graph'.node, born)
  BY <1>0, <1>7 DEF Births
<1> QED
  BY <1>1, <1>7, <1>8, <1>9, <1>10, OtherWriteKeeps

\* An entry written before others.
LEMMA WrittenBefore ==
  ASSUME NEW e, NEW b, NEW now, Fits(e, b), e.at = now,
         NEW S, NEW es \in Seq(S), Written(es, b, now)
  PROVE  /\ Written(<<e>> \o es, b, now)
         /\ Len(<<e>> \o es) = Len(es) + 1 /\ (<<e>> \o es)[1] = e
         /\ \A i \in 2..(Len(es) + 1) : (<<e>> \o es)[i] = es[i - 1]
<1> DEFINE ee == <<e>> \o es
<1>1. Len(ee) = Len(es) + 1 /\ Len(es) \in Nat
  OBVIOUS
<1>2. ee[1] = e
  OBVIOUS
<1>3. \A i \in 2..(Len(es) + 1) : ee[i] = es[i - 1]
  OBVIOUS
<1> HIDE DEF ee
<1>4. \A i \in 1..Len(ee) : Fits(ee[i], b) /\ ee[i].at = now
  <2> SUFFICES ASSUME NEW i \in 1..Len(ee) PROVE Fits(ee[i], b) /\ ee[i].at = now
    OBVIOUS
  <2>1. CASE i = 1
    BY <1>2, <2>1
  <2>2. CASE i # 1
    <3>1. i - 1 \in 1..Len(es) /\ ee[i] = es[i - 1]
      BY <1>1, <1>3, <2>2
    <3> QED
      BY <3>1 DEF Written
  <2> QED
    BY <2>1, <2>2
<1>5. Written(ee, b, now)
  BY <1>1, <1>4 DEF Written
<1> QED
  BY <1>1, <1>2, <1>3, <1>5 DEF ee

\* What RemoveNode writes.
Removal(n) == IF n \in DOMAIN graph.node
              THEN <<Entry("node", n, "DELETE", graph.node[n])>> \o Deletions(Touching(graph.link, {n}))
              ELSE <<>>

\* Its entries fit, whether the node is still there or not.
LEMMA RemovalWritten ==
  ASSUME TypeOK, Births, NEW n \in Node
  PROVE  Written(Removal(n), born, clock)
<1> DEFINE L == Touching(graph.link, {n})
           e == Entry("node", n, "DELETE", graph.node[n])
           D == {Entry("link", l, "DELETE", graph.link[l]) : l \in L}
<1>1. L \in SUBSET (DOMAIN graph.link)
  BY DEF Touching
<1>2. Written(Deletions(L), born, clock) /\ Deletions(L) \in Seq(D)
  <2> HIDE DEF L
  <2> QED
    BY <1>1, DeletionsWritten
<1>3. CASE n \in DOMAIN graph.node
  <2>1. graph.node[n] \in Row
    BY <1>3, Basics, TableRows
  <2>2. Fits(e, born) /\ e.at = clock
    BY <1>3, <2>1 DEF Entry, Fits, Births, Dated
  <2>3. Removal(n) = <<e>> \o Deletions(L)
    BY <1>3 DEF Removal
  <2> HIDE DEF e, L, D
  <2> QED
    BY <1>2, <2>2, <2>3, WrittenBefore
<1>4. CASE n \notin DOMAIN graph.node
  <2>1. Removal(n) = <<>>
    BY <1>4 DEF Removal
  <2>2. Len(<<>>) = 0
    OBVIOUS
  <2> QED
    BY <2>1, <2>2 DEF Written
<1> QED
  BY <1>3, <1>4

\* The second DELETE, with the links that cascade.
LEMMA RemoveNodeKeeps ==
  ASSUME Base, NEW n \in Node, RemoveNode(n)
  PROVE  Base'
<1>0. TypeOK /\ Births
  BY DEF Base
<1>1. Write /\ UNCHANGED <<queue, pins, born, horizon>> /\ leaving' = leaving \ {n}
  BY DEF RemoveNode
<1>2. graph \in Graphs /\ clock \in Nat
  BY <1>0, Basics
<1>3. graph' = DeleteNodes(graph, {n})
  BY DEF RemoveNode
<1>4. graph' \in Graphs /\ graph'.node = Without(graph.node, {n})
  BY <1>2, <1>3, NodesDeleted
<1>5. Logged'
  <2>1. Log(Removal(n))
    BY DEF RemoveNode, Removal
  <2>2. Written(Removal(n), born, clock)
    BY <1>0, RemovalWritten
  <2> QED
    BY <1>1, <2>1, <2>2, OtherLog
<1>6. leaving' \subseteq Node
  BY <1>0, <1>1 DEF TypeOK
<1>7. fragile' \in [Link \cup Bridge -> 0..clock]
  <2> DEFINE L == Touching(graph.link, {n})
  <2>1. fragile' = [x \in DOMAIN fragile |-> IF x \in L THEN clock ELSE fragile[x]]
    BY DEF RemoveNode
  <2>2. fragile \in [Link \cup Bridge -> 0..clock]
    BY <1>0 DEF TypeOK
  <2> HIDE DEF L
  <2> QED
    BY <1>2, <2>1, <2>2
<1>8. DOMAIN graph'.node \subseteq DOMAIN graph.node /\ Dated(graph'.node, born)
  <2>1. DOMAIN Without(graph.node, {n}) = DOMAIN graph.node \ {n}
    BY WithoutKeys
  <2>2. Dated(Without(graph.node, {n}), born)
    BY <1>0, DatedWithout DEF Births
  <2> QED
    BY <1>4, <2>1, <2>2
<1> QED
  BY <1>1, <1>4, <1>5, <1>6, <1>7, <1>8, OtherWriteKeeps

\* Writes that touch neither the graph nor the journal.
LEMMA QueueWriteKeeps ==
  ASSUME Base, Write, UNCHANGED <<graph, log, leaving, born, horizon, fragile>>,
         queue' \in Tables(Queued, [queued : Time, started : 0..MaxTime]),
         pins' \subseteq Pinnable, pins' \subseteq DOMAIN born
  PROVE  Base'
<1>0. TypeOK /\ Births /\ Logged /\ Exported
  BY DEF Base
<1>1. Logged'
  BY <1>0 DEF Logged, Write, log
<1>2. TypeOK'
  <2>1. /\ graph' \in Graphs /\ leaving' \subseteq Node /\ born' \in Tables(Node, 1..clock)
        /\ horizon' \in 2..(clock + 1) /\ fragile' \in [Link \cup Bridge -> 0..clock]
    BY <1>0 DEF TypeOK
  <2> QED
    BY <1>1, <2>1, WriteKeeps
<1>3. Births'
  BY <1>0 DEF Births, Write
<1>4. Exported'
  BY <1>0 DEF Exported, Write
<1> QED
  BY <1>1, <1>2, <1>3, <1>4 DEF Base

\* The queue of the lab.
LEMMA EnqueueKeeps ==
  ASSUME Base, NEW n \in Node, Enqueue(n)
  PROVE  Base'
<1> DEFINE R == [queued : Time, started : 0..MaxTime]
           row == [queued |-> clock, started |-> 0]
<1>0. TypeOK /\ Births
  BY DEF Base
<1>1. /\ Write /\ UNCHANGED <<graph, log, pins, leaving, born, horizon, fragile>>
      /\ n \in Queued /\ queue' = Ignoring(queue, Single(n, row))
  BY DEF Enqueue
<1>2. row \in R
  BY <1>0, JournalAssumption DEF TypeOK
<1>3. queue \in Tables(Queued, R)
  BY <1>0 DEF TypeOK, Queues
<1> HIDE DEF R, row
<1>4. Single(n, row) \in Tables(Queued, R)
  BY <1>1, <1>2, SingleTable
<1>5. queue' \in Tables(Queued, R)
  BY <1>1, <1>3, <1>4, IgnoringTable
<1>6. pins' \subseteq Pinnable /\ pins' \subseteq DOMAIN born
  BY <1>0, <1>1 DEF TypeOK, Births
<1> QED
  BY <1>1, <1>5, <1>6, QueueWriteKeeps DEF R

LEMMA ClaimOrReleaseKeeps ==
  ASSUME Base, NEW n \in Node, ClaimOrRelease(n)
  PROVE  Base'
<1> DEFINE R == [queued : Time, started : 0..MaxTime]
           row == [queue[n] EXCEPT !.started = IF queue[n].started = 0 THEN clock ELSE 0]
<1>0. TypeOK /\ Births
  BY DEF Base
<1>1. /\ Write /\ UNCHANGED <<graph, log, pins, leaving, born, horizon, fragile>>
      /\ n \in DOMAIN queue /\ queue' = [queue EXCEPT ![n] = row]
  BY DEF ClaimOrRelease
<1>3. queue \in Tables(Queued, R)
  BY <1>0 DEF TypeOK, Queues
<1>2. row \in R
  <2>1. queue[n] \in R
    <3> HIDE DEF R
    <3> QED
      BY <1>1, <1>3, TableRows
  <2>2. clock \in 0..MaxTime /\ 0 \in 0..MaxTime
    BY <1>0, JournalAssumption DEF TypeOK, Time
  <2> QED
    BY <2>1, <2>2
<1> HIDE DEF R, row
<1>5. queue' \in Tables(Queued, R)
  BY <1>1, <1>2, <1>3, ChangedTable
<1>6. pins' \subseteq Pinnable /\ pins' \subseteq DOMAIN born
  BY <1>0, <1>1 DEF TypeOK, Births
<1> QED
  BY <1>1, <1>5, <1>6, QueueWriteKeeps DEF R

\* Pins are of nodes that were born.
LEMMA PinKeeps ==
  ASSUME Base, NEW n \in Node, Pin(n) \/ Unpin(n)
  PROVE  Base'
<1>0. TypeOK /\ Births
  BY DEF Base
<1>1. Write /\ UNCHANGED <<graph, queue, log, leaving, born, horizon, fragile>>
  BY DEF Pin, Unpin
<1>2. queue' \in Tables(Queued, [queued : Time, started : 0..MaxTime])
  BY <1>0, <1>1 DEF TypeOK, Queues, Rollbacks
<1>3. pins' \subseteq Pinnable /\ pins' \subseteq DOMAIN born
  BY <1>0 DEF TypeOK, Births, Pin, Unpin, Dated
<1> QED
  BY <1>1, <1>2, <1>3, QueueWriteKeeps

\* What pruneJournal leaves is in order.
LEMMA PruneKeeps ==
  ASSUME Base, NEW t \in (horizon + 1)..(clock + 1), Prune(t)
  PROVE  Base'
<1> DEFINE S == {k \in DOMAIN journal : journal[k].at < t}
<1>0. TypeOK /\ Births /\ Logged /\ Exported
  BY DEF Base
<1>1. /\ Write /\ UNCHANGED <<graph, queue, lastId, pins, leaving, born, fragile>>
      /\ journal' = Without(journal, S) /\ horizon' = t
  BY DEF Prune
<1>2. Logged'
  <2> HIDE DEF S
  <2>1. Kept(Without(journal, S), lastId, born, clock)
    BY <1>0, WithoutKept DEF Logged
  <2> QED
    BY <1>1, <2>1 DEF Logged, Write
<1>3. TypeOK'
  <2>1. horizon' \in 2..(clock + 1)
    BY <1>0, <1>1, Basics DEF TypeOK
  <2> QED
    BY <1>0, <1>1, <1>2, <2>1, WriteKeeps DEF TypeOK, Queues, Rollbacks
<1>4. Births' /\ Exported'
  BY <1>0, <1>1 DEF Births, Exported, Write
<1> QED
  BY <1>2, <1>3, <1>4 DEF Base

\* A second that ends adds its graph to the past.
LEMMA TickKeeps ==
  ASSUME Base, Tick
  PROVE  Base'
<1>0. TypeOK /\ Births /\ Logged /\ Exported
  BY DEF Base
<1>1. /\ clock < MaxTime /\ clock' = clock + 1 /\ past' = Append(past, graph)
      /\ UNCHANGED <<database, leaving, rb, ops, born, undone, horizon, fragile>>
  BY DEF Tick
<1>2. clock \in Nat \ {0} /\ clock' \in Nat /\ clock <= clock' /\ clock' \in Time
  BY <1>0, <1>1, Basics, JournalAssumption DEF Time
<1>3. Logged'
  <2>1. Kept(journal, lastId, born, clock)
    BY <1>0 DEF Logged
  <2>2. Kept(journal, lastId, born, clock + 1)
    BY <1>1, <1>2, <2>1, KeptOn
  <2> QED
    BY <1>1, <2>2 DEF Logged, database, log
<1>4. past' \in [1..(clock' - 1) -> Graphs]
  <2>0. past \in [1..(clock - 1) -> Graphs] /\ graph \in Graphs /\ clock - 1 \in Nat
    BY <1>0, <1>2 DEF TypeOK
  <2>1. past \in Seq(Graphs) /\ Len(past) = clock - 1
    BY <2>0
  <2>2. past' \in Seq(Graphs) /\ Len(past') = clock' - 1
    <3>1. clock' - 1 = Len(past) + 1
      BY <1>1, <1>2, <2>1
    <3>2. Append(past, graph) \in Seq(Graphs) /\ Len(Append(past, graph)) = Len(past) + 1
      BY <2>0, <2>1
    <3> QED
      BY <1>1, <3>1, <3>2
  <2> QED
    BY <2>2
<1>5. born' \in Tables(Node, 1..clock')
  <2>1. 1..clock \subseteq 1..clock' /\ born' = born /\ born \in Tables(Node, 1..clock)
    BY <1>0, <1>1, <1>2 DEF TypeOK
  <2> QED
    BY <2>1, WiderTable
<1>6. fragile' \in [Link \cup Bridge -> 0..clock'] /\ horizon' \in 2..(clock' + 1)
  BY <1>0, <1>1, <1>2 DEF TypeOK
<1>7. /\ lastId' \in Nat /\ DOMAIN journal' \subseteq 1..lastId'
      /\ \A k \in DOMAIN journal' : journal'[k].at \in 1..clock'
  BY <1>3 DEF Logged, Kept
<1>8. TypeOK'
  BY <1>0, <1>1, <1>2, <1>4, <1>5, <1>6, <1>7 DEF TypeOK, database
<1>9. Births' /\ Exported'
  BY <1>0, <1>1, <1>2 DEF Births, Exported, database, TypeOK, Rollbacks, Time
<1> QED
  BY <1>3, <1>8, <1>9 DEF Base

\* The steps of a rollback before its transaction leave all but rb alone.
LEMMA StepKeeps ==
  ASSUME Base, UNCHANGED <<database, leaving, clock, ops, history>>, rb' \in Rollbacks,
         Dated(rb'.node, born), rb'.ids \subseteq DOMAIN born, Exported'
  PROVE  Base'
<1>0. TypeOK /\ Births /\ Logged
  BY DEF Base
<1>1. TypeOK'
  BY <1>0 DEF TypeOK, Rollbacks, database, history, log
<1>2. Births'
  BY <1>0 DEF Births, database, history
<1>3. Logged'
  BY <1>0 DEF Logged, database, history, log
<1> QED
  BY <1>1, <1>2, <1>3 DEF Base

\* The state of no rollback.
LEMMA IdleRow ==
  ASSUME TypeOK
  PROVE  /\ IdleRollback \in Rollbacks
         /\ Dated(IdleRollback.node, born)
         /\ IdleRollback.pc = "idle" /\ IdleRollback.ids = {} /\ DOMAIN IdleRollback.link = {}
<1>1. NoRows \in Tables(Node, Row) /\ NoRows \in Tables(Link, Time) /\ DOMAIN NoRows = {}
  BY NoRowsTable
<1>2. 1 \in Time /\ 0 \in 0..MaxOps
  BY JournalAssumption DEF Time
<1> QED
  BY <1>1, <1>2 DEF IdleRollback, Rollbacks, Dated

\* A rollback begins with the pins, which were born.
LEMMA BeginRollbackKeeps ==
  ASSUME Base, NEW t \in 1..(clock - 1), BeginRollback(t)
  PROVE  Base'
<1>0. TypeOK /\ Births
  BY DEF Base
<1>1. UNCHANGED <<database, leaving, clock, ops, history>>
  BY DEF BeginRollback
<1>2. rb' = [pc |-> IF pins = {} THEN "replay" ELSE "walk", target |-> t, ids |-> pins,
             frontier |-> pins, node |-> NoRows, link |-> NoRows, ops |-> ops]
  BY DEF BeginRollback, IdleRollback
<1>3. NoRows \in Tables(Node, Row) /\ NoRows \in Tables(Link, Time) /\ DOMAIN NoRows = {}
  BY NoRowsTable
<1>4. t \in Time /\ t < clock /\ pins \in SUBSET Node /\ ops \in 0..MaxOps
  BY <1>0, JournalAssumption DEF TypeOK, Time
<1>5. Dated(NoRows, born)
  BY <1>3 DEF Dated
<1>6. Exported'
  BY <1>1, <1>2, <1>3, <1>4 DEF Exported
<1>7. rb' \in Rollbacks
  BY <1>2, <1>3, <1>4 DEF Rollbacks
<1> QED
  BY <1>0, <1>1, <1>2, <1>4, <1>5, <1>6, <1>7, StepKeeps DEF Births

\* The walk finds ends of links, which are nodes of the graph.
LEMMA WalkUpKeeps ==
  ASSUME Base, WalkUp
  PROVE  Base'
<1> DEFINE new == NextLevel(rb.frontier) \ rb.ids
<1>0. TypeOK /\ Births /\ Exported
  BY DEF Base
<1>1. UNCHANGED <<database, leaving, clock, ops, history>> /\ rb.pc = "walk"
  BY DEF WalkUp
<1>2. rb' = [rb EXCEPT !.pc = IF new = {} THEN "nodes" ELSE "walk",
                       !.ids = rb.ids \cup new, !.frontier = new]
  BY DEF WalkUp
<1>3. new \subseteq DOMAIN graph.node /\ DOMAIN graph.node \subseteq Node
  BY <1>0, Basics DEF NextLevel, Ends
<1>4. DOMAIN graph.node \subseteq DOMAIN born
  BY <1>0 DEF Births, Dated
<1> HIDE DEF new
<1>5. rb \in Rollbacks
  BY <1>0 DEF TypeOK
<1>6. rb' \in Rollbacks
      /\ rb'.node = rb.node /\ rb'.link = rb.link /\ rb'.target = rb.target
      /\ rb'.ids = rb.ids \cup new /\ rb'.pc \in {"walk", "nodes"}
  BY <1>2, <1>3, <1>5 DEF Rollbacks
<1>7. Exported'
  BY <1>0, <1>1, <1>6 DEF Exported
<1> QED
  BY <1>0, <1>1, <1>3, <1>4, <1>6, <1>7, StepKeeps DEF Births

\* Once the nodes are exported, those found that are in the graph are among them.
LEMMA ExportNodesKeeps ==
  ASSUME Base, ExportNodes
  PROVE  Base'
<1> DEFINE f == RowsOf(rb.ids)
<1>0. TypeOK /\ Births /\ Exported
  BY DEF Base
<1>1. UNCHANGED <<database, leaving, clock, ops, history>> /\ rb.pc = "nodes"
  BY DEF ExportNodes
<1>2. rb' = [rb EXCEPT !.pc = "links", !.node = f]
  BY DEF ExportNodes
<1>3. /\ f \in Tables(Node, Row) /\ DOMAIN f = rb.ids \cap DOMAIN graph.node
      /\ \A n \in rb.ids \cap DOMAIN graph.node : f[n] = graph.node[n]
  <2>1. graph.node \in Tables(Node, Row)
    BY <1>0, Basics
  <2>2. rb.ids \cap DOMAIN graph.node \in SUBSET (DOMAIN graph.node)
    OBVIOUS
  <2> QED
    BY <2>1, <2>2, RestrictTable DEF RowsOf
<1> HIDE DEF f
<1>4. Dated(f, born)
  BY <1>0, <1>3 DEF Births, Dated
<1>5. rb \in Rollbacks
  BY <1>0 DEF TypeOK
<1>6. rb' \in Rollbacks
      /\ rb'.node = f /\ rb'.link = rb.link /\ rb'.target = rb.target
      /\ rb'.ids = rb.ids /\ rb'.pc = "links"
  BY <1>2, <1>3, <1>5 DEF Rollbacks
<1>7. Exported'
  BY <1>0, <1>1, <1>3, <1>6 DEF Exported, database
<1> QED
  BY <1>0, <1>1, <1>4, <1>6, <1>7, StepKeeps DEF Births

\* An exported link has both its nodes in the graph, hence among the exported ones.
LEMMA ExportLinksKeeps ==
  ASSUME Base, ExportLinks
  PROVE  Base'
<1> DEFINE L == {l \in DOMAIN graph.link : Ends(l) \subseteq rb.ids}
           f == Restrict(graph.link, L)
<1>0. TypeOK /\ Births /\ Exported
  BY DEF Base
<1>1. UNCHANGED <<database, leaving, clock, ops, history>> /\ rb.pc = "links"
  BY DEF ExportLinks
<1>2. rb' = [rb EXCEPT !.pc = "replay", !.link = f]
  BY DEF ExportLinks
<1>3. f \in Tables(Link, Time) /\ DOMAIN f = L
  <2>1. graph.link \in Tables(Link, Time)
    BY <1>0, Basics
  <2>2. L \in SUBSET (DOMAIN graph.link)
    OBVIOUS
  <2> HIDE DEF L
  <2> QED
    BY <2>1, <2>2, RestrictTable
<1> HIDE DEF f
<1>4. \A l \in L : Ends(l) \subseteq DOMAIN rb.node
  BY <1>0, <1>1, Basics DEF Exported
<1>5. rb \in Rollbacks
  BY <1>0 DEF TypeOK
<1>6. rb' \in Rollbacks
      /\ rb'.node = rb.node /\ rb'.link = f /\ rb'.target = rb.target
      /\ rb'.ids = rb.ids /\ rb'.pc = "replay"
  BY <1>2, <1>3, <1>5 DEF Rollbacks
<1> HIDE DEF L
<1>7. Exported'
  BY <1>0, <1>1, <1>3, <1>4, <1>6 DEF Exported, database
<1> QED
  BY <1>0, <1>1, <1>6, <1>7, StepKeeps DEF Births

\* A rollback that fails has written nothing.
LEMMA RollbackFailsKeeps ==
  ASSUME Base, RollbackFails
  PROVE  Base'
<1>0. TypeOK /\ Births /\ Exported
  BY DEF Base
<1>1. UNCHANGED <<database, leaving, clock, ops, history>> /\ rb' = IdleRollback
  BY DEF RollbackFails
<1>2. Exported'
  BY <1>0, <1>1, IdleRow DEF Exported
<1> QED
  BY <1>0, <1>1, <1>2, IdleRow, StepKeeps

\* A removal that ends early changes nothing else.
LEMMA RemovalFailsKeeps ==
  ASSUME Base, NEW n \in Node, RemovalFails(n)
  PROVE  Base'
<1>0. TypeOK /\ Births /\ Logged /\ Exported
  BY DEF Base
<1>1. UNCHANGED <<database, rb, clock, ops, history>> /\ leaving' = leaving \ {n}
  BY DEF RemovalFails
<1>2. TypeOK'
  BY <1>0, <1>1 DEF TypeOK, database, history, log
<1>3. Births' /\ Logged' /\ Exported'
  BY <1>0, <1>1 DEF Births, Logged, Exported, database, history, log
<1> QED
  BY <1>2, <1>3 DEF Base

\* Nor does stuttering.
LEMMA UnchangedKeeps ==
  ASSUME Base, UNCHANGED vars
  PROVE  Base'
<1>0. TypeOK /\ Births /\ Logged /\ Exported
  BY DEF Base
<1>1. TypeOK'
  BY <1>0 DEF TypeOK, vars, database, history, log
<1>2. Births' /\ Logged' /\ Exported'
  BY <1>0 DEF Births, Logged, Exported, vars, database, history, log
<1> QED
  BY <1>1, <1>2 DEF Base

\* Cleaning up a graph makes a graph of it, with the nodes that are not newer.
LEMMA CleanupGraph ==
  ASSUME NEW g \in Graphs, NEW t
  PROVE  /\ Cleanup(g, t) \in Graphs
         /\ Cleanup(g, t).node = Without(g.node, NewerNodes(g.node, t))
         /\ Cleanup(g, t).bridge = Without(g.bridge, Newer(g.bridge, t))
         /\ \A l : l \in DOMAIN Cleanup(g, t).link <=>
                    /\ l \in DOMAIN g.link \ Touching(g.link, NewerNodes(g.node, t))
                    /\ ~ (g.link[l] > t)
<1> DEFINE N == NewerNodes(g.node, t)
           h == DeleteNodes(g, N)
           f == Without(h.link, Newer(h.link, t))
           q == Without(h.bridge, Newer(h.bridge, t))
<1>1. Cleanup(g, t) = [node |-> h.node, link |-> f, bridge |-> q]
  BY DEF Cleanup
<1>2. /\ h \in Graphs /\ h.node = Without(g.node, N)
      /\ h.link = Without(g.link, Touching(g.link, N)) /\ h.bridge = g.bridge
  <2> HIDE DEF N
  <2> QED
    BY NodesDeleted
<1> HIDE DEF h
<1>3. /\ h.node \in Tables(Node, Row) /\ h.link \in Tables(Link, Time)
      /\ h.bridge \in Tables(Bridge, Time)
      /\ \A l \in DOMAIN h.link : Ends(l) \subseteq DOMAIN h.node
  BY <1>2, GraphParts
<1>4. f \in Tables(Link, Time) /\ q \in Tables(Bridge, Time)
  BY <1>3, WithoutTable
<1>5. DOMAIN f = DOMAIN h.link \ Newer(h.link, t)
  BY WithoutKeys
<1>6. [node |-> h.node, link |-> f, bridge |-> q] \in Graphs
  <2> HIDE DEF f, q
  <2> QED
    BY <1>3, <1>4, <1>5 DEF Graphs
<1>7. DOMAIN h.link = DOMAIN g.link \ Touching(g.link, N)
  BY <1>2, WithoutKeys
<1>8. \A l \in DOMAIN g.link \ Touching(g.link, N) : h.link[l] = g.link[l]
  BY <1>2, WithoutRow
<1>9. \A l : l \in DOMAIN f <=> /\ l \in DOMAIN g.link \ Touching(g.link, N)
                               /\ ~ (g.link[l] > t)
  <2> HIDE DEF f, N
  <2> QED
    BY <1>5, <1>7, <1>8 DEF Newer
<1> HIDE DEF f, q, N
<1>10. Cleanup(g, t).node = h.node /\ Cleanup(g, t).bridge = q /\ Cleanup(g, t).link = f
  BY <1>1
<1>11. Cleanup(g, t) \in Graphs
  BY <1>1, <1>6
<1>12. \A l : l \in DOMAIN Cleanup(g, t).link <=> /\ l \in DOMAIN g.link \ Touching(g.link, N)
                                                  /\ ~ (g.link[l] > t)
  BY <1>9, <1>10
<1>13. Cleanup(g, t).node = Without(g.node, N) /\ Cleanup(g, t).bridge = Without(h.bridge, Newer(h.bridge, t))
  BY <1>2, <1>10 DEF q
<1>14. Cleanup(g, t).bridge = Without(g.bridge, Newer(g.bridge, t))
  BY <1>2, <1>13
<1> QED
  BY <1>11, <1>12, <1>13, <1>14 DEF N

\* A replay makes a graph of rows as old as their nodes.
LEMMA ReplayGraph ==
  ASSUME NEW b \in Tables(Node, Nat), NEW jr, Fitting(jr, b), NEW last \in Nat, NEW t,
         NEW g \in Graphs, Dated(g.node, b)
  PROVE  Replay(jr, last, g, t) \in Graphs /\ Dated(Replay(jr, last, g, t).node, b)
<1>1. PICK s : Stages(s, jr, last, g, t) /\ Replay(jr, last, g, t) = s[0]
  BY ReplayStages
<1>2. \A k \in 0..last : s[k] \in Graphs /\ Dated(s[k].node, b)
  BY <1>1, StagesGraph
<1> QED
  BY <1>1, <1>2

\* What is brought back into a graph.
LEMMA ReimportGraph ==
  ASSUME TypeOK, Exported, NEW g \in Graphs
  PROVE  /\ Reimport(g) \in Graphs
         /\ Reimport(g).node = Ignoring(g.node, rb.node)
         /\ Reimport(g).link = Ignoring(g.link, rb.link)
         /\ Reimport(g).bridge = g.bridge
<1> DEFINE f == Ignoring(g.node, rb.node)
           h == Ignoring(g.link, rb.link)
<1>1. /\ g = [node |-> g.node, link |-> g.link, bridge |-> g.bridge]
      /\ g.node \in Tables(Node, Row) /\ g.link \in Tables(Link, Time)
      /\ g.bridge \in Tables(Bridge, Time)
      /\ \A l \in DOMAIN g.link : Ends(l) \subseteq DOMAIN g.node
  BY GraphParts
<1>2. rb.node \in Tables(Node, Row) /\ rb.link \in Tables(Link, Time)
  BY DEF TypeOK, Rollbacks
<1>3. f \in Tables(Node, Row) /\ h \in Tables(Link, Time)
  BY <1>1, <1>2, IgnoringTable
<1>4. DOMAIN f = DOMAIN g.node \cup DOMAIN rb.node
  BY IgnoringKeys
<1>5. DOMAIN h = DOMAIN g.link \cup DOMAIN rb.link
  BY IgnoringKeys
<1>6. Reimport(g) = [node |-> f, link |-> h, bridge |-> g.bridge]
  BY DEF Reimport
<1> HIDE DEF f, h
<1>7. \A l \in DOMAIN h : Ends(l) \subseteq DOMAIN f
  BY <1>1, <1>4, <1>5 DEF Exported
<1>8. Reimport(g) \in Graphs
  BY <1>1, <1>3, <1>6, <1>7 DEF Graphs
<1> QED
  BY <1>6, <1>8 DEF f, h

\* The graph after a rollback.
LEMMA RolledBackGraph ==
  ASSUME Base, NEW t
  PROVE  /\ Replayed(t) \in Graphs /\ Dated(Replayed(t).node, born)
         /\ Cleanup(Replayed(t), t) \in Graphs
         /\ RolledBack(t) \in Graphs /\ Dated(RolledBack(t).node, born)
         /\ RolledBack(t).node = Ignoring(Cleanup(Replayed(t), t).node, rb.node)
         /\ RolledBack(t).link = Ignoring(Cleanup(Replayed(t), t).link, rb.link)
<1>0. TypeOK /\ Births /\ Logged /\ Exported
  BY DEF Base
<1>1. born \in Tables(Node, Nat) /\ graph \in Graphs /\ lastId \in Nat
  BY <1>0, Basics
<1>2. Fitting(journal, born) /\ Dated(graph.node, born) /\ Dated(rb.node, born)
  BY <1>0 DEF Logged, Kept, Births
<1> DEFINE R == Replay(journal, lastId, graph, t)
           C == Cleanup(R, t)
           G == Reimport(C)
<1>3. R \in Graphs /\ Dated(R.node, born)
  BY <1>1, <1>2, ReplayGraph
<1>4. Replayed(t) = R /\ RolledBack(t) = G
  BY DEF Replayed, RolledBack
<1> HIDE DEF R
<1>5. C \in Graphs /\ C.node = Without(R.node, NewerNodes(R.node, t))
  BY <1>3, CleanupGraph
<1>6. Dated(C.node, born)
  BY <1>3, <1>5, DatedWithout
<1> HIDE DEF C
<1>7. /\ G \in Graphs /\ G.node = Ignoring(C.node, rb.node)
      /\ G.link = Ignoring(C.link, rb.link)
  BY <1>0, <1>5, ReimportGraph
<1> HIDE DEF G
<1>8. Dated(G.node, born)
  BY <1>2, <1>6, <1>7, DatedIgnoring
<1> QED
  BY <1>3, <1>4, <1>5, <1>7, <1>8 DEF C

\* The transaction of a rollback: the graph is one, and what is left of the journal is in order.
LEMMA CommitKeeps ==
  ASSUME Base, Commit
  PROVE  Base'
<1> DEFINE t == rb.target
<1>0. TypeOK /\ Births /\ Logged /\ Exported
  BY DEF Base
<1>1. /\ rb' = IdleRollback /\ pins' = {}
      /\ undone' = undone \cup {s \in Time : t < s /\ s < clock}
      /\ journal' = Without(journal, Later(journal, t))
      /\ queue' = QueueAfter(t) /\ graph' = RolledBack(t)
      /\ UNCHANGED <<lastId, leaving, clock, ops, born, past, horizon, fragile>>
  BY DEF Commit
<1>2. RolledBack(t) \in Graphs /\ Dated(RolledBack(t).node, born)
  BY RolledBackGraph
<1>3. Logged'
  <2>1. Kept(Without(journal, Later(journal, t)), lastId, born, clock)
    BY <1>0, WithoutKept DEF Logged
  <2> QED
    BY <1>1, <2>1 DEF Logged
<1>4. queue' \in Tables(Queued, [queued : Time, started : 0..MaxTime])
  <2> DEFINE R == [queued : Time, started : 0..MaxTime]
             S == {n \in DOMAIN queue : queue[n].started <= t}
  <2>1. queue \in Tables(Queued, R) /\ S \in SUBSET (DOMAIN queue)
    BY <1>0 DEF TypeOK, Queues
  <2>2. queue' = Restrict(queue, S)
    BY <1>1 DEF QueueAfter
  <2> HIDE DEF R, S
  <2>3. queue' \in Tables(Queued, R)
    BY <2>1, <2>2, RestrictTable
  <2> QED
    BY <2>3 DEF R
<1>5. /\ lastId' \in Nat /\ DOMAIN journal' \subseteq 1..lastId'
      /\ \A k \in DOMAIN journal' : journal'[k].at \in 1..clock'
  BY <1>3 DEF Logged, Kept
<1> HIDE DEF t
<1>6. TypeOK'
  BY <1>0, <1>1, <1>2, <1>4, <1>5, IdleRow DEF TypeOK, Queues, Rollbacks
<1>7. Births' /\ Exported'
  BY <1>0, <1>1, <1>2, IdleRow DEF Births, Exported
<1> QED
  BY <1>3, <1>6, <1>7 DEF Base

\* Whatever step is taken.
LEMMA NextKeeps ==
  ASSUME Base, [Next]_vars
  PROVE  Base'
<1>1. CASE Tick
  BY <1>1, TickKeeps
<1>2. ASSUME NEW n \in Node, WriteNode(n) PROVE Base'
  <2>1. ASSUME NEW v \in Version, CreateNode(n, v) \/ UpdateNode(n, v) PROVE Base'
    BY <2>1, CreateNodeKeeps, UpdateNodeKeeps
  <2>2. CASE RemoveEdges(n) \/ RemoveNode(n) \/ RemovalFails(n)
    BY <2>2, RemoveEdgesKeeps, RemoveNodeKeeps, RemovalFailsKeeps
  <2>3. CASE Enqueue(n) \/ ClaimOrRelease(n) \/ Pin(n) \/ Unpin(n)
    BY <2>3, EnqueueKeeps, ClaimOrReleaseKeeps, PinKeeps
  <2> QED
    BY <1>2, <2>1, <2>2, <2>3 DEF WriteNode
<1>3. ASSUME NEW l \in Link, CreateEdge(l) PROVE Base'
  BY <1>3, CreateEdgeKeeps
<1>4. ASSUME NEW b \in Bridge, CreateBridge(b) \/ DeleteBridge(b) PROVE Base'
  BY <1>4, CreateBridgeKeeps, DeleteBridgeKeeps
<1>5. ASSUME NEW t \in (horizon + 1)..(clock + 1), Prune(t) PROVE Base'
  BY <1>5, PruneKeeps
<1>6. CASE Rollback
  <2>1. ASSUME NEW t \in 1..(clock - 1), BeginRollback(t) PROVE Base'
    BY <2>1, BeginRollbackKeeps
  <2>2. CASE WalkUp \/ ExportNodes \/ ExportLinks
    BY <2>2, WalkUpKeeps, ExportNodesKeeps, ExportLinksKeeps
  <2>3. CASE Commit \/ RollbackFails
    BY <2>3, CommitKeeps, RollbackFailsKeeps
  <2> QED
    BY <1>6, <2>1, <2>2, <2>3 DEF Rollback
<1>7. CASE UNCHANGED vars
  BY <1>7, UnchangedKeeps
<1> QED
  BY <1>1, <1>2, <1>3, <1>4, <1>5, <1>6, <1>7 DEF Next

-----------------------------------------------------------------------------
(* The beginning *)

\* What was there before the journal, and what was written in its first second.
FirstVersion == CHOOSE v \in Version : TRUE
LinkAt(old, l) == IF Ends(l) \subseteq old THEN 1 ELSE 2
FirstLinks(old, new) == {l \in Link : Ends(l) \subseteq old \cup new}
RowsAt(S, t) == [n \in S |-> [version |-> FirstVersion, at |-> t]]
OldLinks(old, new) == [l \in {k \in FirstLinks(old, new) : LinkAt(old, k) = 1} |-> 1]
AllLinks(old, new) == [l \in FirstLinks(old, new) |-> LinkAt(old, l)]
FirstEntry(table, row) ==
  [table |-> table, row |-> row, op |-> "INSERT", before |-> 0, at |-> 2]
NodeEntries(new) == {FirstEntry("node", n) : n \in new}
LinkEntries(old, new) ==
  {FirstEntry("link", l) : l \in {k \in FirstLinks(old, new) : LinkAt(old, k) = 2}}

\* The project at the beginning.
Beginning(old, new) ==
  /\ old \in SUBSET Node /\ new \in SUBSET Node /\ old \cap new = {}
  /\ graph = [node |-> Ignoring(RowsAt(old, 1), RowsAt(new, 2)),
              link |-> Ignoring(OldLinks(old, new), AllLinks(old, new)), bridge |-> NoRows]
  /\ journal = SetToSeq(NodeEntries(new)) \o SetToSeq(LinkEntries(old, new))
  /\ lastId = Len(journal)
  /\ past = <<[node |-> RowsAt(old, 1), link |-> OldLinks(old, new), bridge |-> NoRows]>>
  /\ born = [n \in old \cup new |-> graph.node[n].at]

\* The initial state, said with these names.
LEMMA InitBegins ==
  ASSUME Init
  PROVE  \E old, new : Beginning(old, new)
<1>1. PICK old \in SUBSET Node, new \in SUBSET Node :
         LET v == CHOOSE v \in Version : TRUE
             L == {l \in Link : Ends(l) \subseteq old \cup new}
             linkAt(l) == IF Ends(l) \subseteq old THEN 1 ELSE 2
             first  == [node   |-> [n \in old |-> [version |-> v, at |-> 1]],
                        link   |-> [l \in {k \in L : linkAt(k) = 1} |-> 1],
                        bridge |-> NoRows]
             insert(table, row) == [table |-> table, row |-> row, op |-> "INSERT",
                                    before |-> 0, at |-> 2]
         IN /\ old # {} /\ old \cap new = {}
            /\ \A l \in Link : /\ l[2] \in old => l[1] \in old
                              /\ l[2] \in new => l[1] \in old \cup new
            /\ graph = [first EXCEPT !.node = Ignoring(@, [n \in new |-> [version |-> v, at |-> 2]]),
                                     !.link = Ignoring(@, [l \in L |-> linkAt(l)])]
            /\ journal = SetToSeq({insert("node", n) : n \in new})
                         \o SetToSeq({insert("link", l) : l \in {k \in L : linkAt(k) = 2}})
            /\ lastId = Len(journal)
            /\ past = <<first>>
            /\ born = [n \in old \cup new |-> graph.node[n].at]
  BY DEF Init
<1> DEFINE first == [node |-> RowsAt(old, 1), link |-> OldLinks(old, new), bridge |-> NoRows]
<1>2. /\ graph = [first EXCEPT !.node = Ignoring(first.node, RowsAt(new, 2)),
                               !.link = Ignoring(first.link, AllLinks(old, new))]
      /\ journal = SetToSeq(NodeEntries(new)) \o SetToSeq(LinkEntries(old, new))
      /\ lastId = Len(journal) /\ past = <<first>>
      /\ born = [n \in old \cup new |-> graph.node[n].at]
  BY <1>1, Zenon DEF FirstVersion, LinkAt, FirstLinks, RowsAt, OldLinks, AllLinks, FirstEntry,
       NodeEntries, LinkEntries
<1>3. graph = [node |-> Ignoring(RowsAt(old, 1), RowsAt(new, 2)),
               link |-> Ignoring(OldLinks(old, new), AllLinks(old, new)), bridge |-> NoRows]
  BY <1>2
<1>4. old \cap new = {}
  BY <1>1
<1> QED
  BY <1>2, <1>3, <1>4 DEF Beginning

\* The tables of the beginning.
LEMMA RowsAtTable ==
  ASSUME NEW S \in SUBSET Node, NEW t \in Time
  PROVE  /\ RowsAt(S, t) \in Tables(Node, Row) /\ DOMAIN RowsAt(S, t) = S
         /\ \A n \in S : RowsAt(S, t)[n].at = t
<1>1. FirstVersion \in Version
  BY JournalAssumption DEF FirstVersion
<1> DEFINE row == [version |-> FirstVersion, at |-> t]
<1>2. row \in Row
  BY <1>1 DEF Row
<1>3. RowsAt(S, t) = [n \in S |-> row]
  BY DEF RowsAt
<1>4. row.at = t
  OBVIOUS
<1> HIDE DEF row
<1>5. RowsAt(S, t) \in [S -> Row]
  BY <1>2, <1>3
<1> QED
  BY <1>3, <1>4, <1>5 DEF Tables

LEMMA FirstLinksTables ==
  ASSUME NEW old \in SUBSET Node, NEW new \in SUBSET Node
  PROVE  /\ OldLinks(old, new) \in Tables(Link, Time) /\ AllLinks(old, new) \in Tables(Link, Time)
         /\ \A l \in DOMAIN OldLinks(old, new) : l \in Link /\ Ends(l) \subseteq old
         /\ DOMAIN OldLinks(old, new) \subseteq DOMAIN AllLinks(old, new)
         /\ DOMAIN AllLinks(old, new) = FirstLinks(old, new)
<1>0. 1 \in Time /\ 2 \in Time
  BY JournalAssumption DEF Time
<1>1. AllLinks(old, new) \in [FirstLinks(old, new) -> Time] /\ FirstLinks(old, new) \in SUBSET Link
  BY <1>0 DEF AllLinks, LinkAt, FirstLinks
<1> DEFINE D == {k \in FirstLinks(old, new) : LinkAt(old, k) = 1}
<1>2. D \in SUBSET Link /\ D \subseteq FirstLinks(old, new) /\ \A k \in D : Ends(k) \subseteq old
  BY <1>1 DEF LinkAt
<1>3. OldLinks(old, new) = [l \in D |-> 1]
  BY DEF OldLinks
<1> HIDE DEF D
<1>4. OldLinks(old, new) \in [D -> Time]
  BY <1>0, <1>3
<1>5. OldLinks(old, new) \in Tables(Link, Time)
  BY <1>2, <1>4 DEF Tables
<1>6. AllLinks(old, new) \in Tables(Link, Time)
  BY <1>1 DEF Tables
<1> QED
  BY <1>1, <1>2, <1>3, <1>5, <1>6

\* The graph of the beginning, and the graph before.
LEMMA FirstGraphs ==
  ASSUME NEW old, NEW new, Beginning(old, new)
  PROVE  /\ graph \in Graphs /\ DOMAIN graph.node = old \cup new
         /\ \A n \in old : graph.node[n] = RowsAt(old, 1)[n] /\ graph.node[n].at = 1
         /\ \A n \in new : graph.node[n].at = 2
         /\ past = <<[node |-> RowsAt(old, 1), link |-> OldLinks(old, new), bridge |-> NoRows]>>
         /\ [node |-> RowsAt(old, 1), link |-> OldLinks(old, new), bridge |-> NoRows] \in Graphs
         /\ born \in Tables(Node, 1..2) /\ DOMAIN born = old \cup new
         /\ \A n \in old \cup new : born[n] = graph.node[n].at
<1> DEFINE N == Ignoring(RowsAt(old, 1), RowsAt(new, 2))
           L == Ignoring(OldLinks(old, new), AllLinks(old, new))
<1>0. old \in SUBSET Node /\ new \in SUBSET Node /\ 1 \in Time /\ 2 \in Time
  BY JournalAssumption DEF Beginning, Time
<1>1. /\ RowsAt(old, 1) \in Tables(Node, Row) /\ DOMAIN RowsAt(old, 1) = old
      /\ \A n \in old : RowsAt(old, 1)[n].at = 1
  BY <1>0, RowsAtTable
<1>2. /\ RowsAt(new, 2) \in Tables(Node, Row) /\ DOMAIN RowsAt(new, 2) = new
      /\ \A n \in new : RowsAt(new, 2)[n].at = 2
  BY <1>0, RowsAtTable
<1>3. N \in Tables(Node, Row)
  BY <1>1, <1>2, IgnoringTable
<1>4. DOMAIN N = old \cup new
  BY <1>1, <1>2, IgnoringKeys
<1>5. \A n \in old \cup new : N[n] = IF n \in old THEN RowsAt(old, 1)[n] ELSE RowsAt(new, 2)[n]
  BY <1>1, <1>2, IgnoringRow
<1>6. /\ OldLinks(old, new) \in Tables(Link, Time) /\ AllLinks(old, new) \in Tables(Link, Time)
      /\ \A l \in DOMAIN OldLinks(old, new) : l \in Link /\ Ends(l) \subseteq old
      /\ DOMAIN OldLinks(old, new) \subseteq DOMAIN AllLinks(old, new)
      /\ DOMAIN AllLinks(old, new) = FirstLinks(old, new)
  BY <1>0, FirstLinksTables
<1>7. L \in Tables(Link, Time)
  BY <1>6, IgnoringTable
<1>8. DOMAIN L = FirstLinks(old, new)
  BY <1>6, IgnoringKeys
<1>9. NoRows \in Tables(Bridge, Time)
  BY NoRowsTable
<1>10. old \cap new = {} /\ graph = [node |-> N, link |-> L, bridge |-> NoRows]
  BY DEF Beginning
<1> HIDE DEF N, L
<1>11. graph \in Graphs
  BY <1>3, <1>4, <1>7, <1>8, <1>9, <1>10 DEF Graphs, FirstLinks
<1>12. [node |-> RowsAt(old, 1), link |-> OldLinks(old, new), bridge |-> NoRows] \in Graphs
  BY <1>1, <1>6, <1>9 DEF Graphs
<1>13. /\ DOMAIN graph.node = old \cup new
       /\ \A n \in old : graph.node[n] = RowsAt(old, 1)[n] /\ graph.node[n].at = 1
       /\ \A n \in new : graph.node[n].at = 2
  BY <1>1, <1>2, <1>4, <1>5, <1>10
<1>14. DOMAIN born = old \cup new /\ \A n \in old \cup new : born[n] = graph.node[n].at
  BY DEF Beginning
<1>15. born \in Tables(Node, 1..2)
  <2>1. old \cup new \in SUBSET Node
    BY <1>0
  <2>2. born = [n \in old \cup new |-> graph.node[n].at]
    BY DEF Beginning
  <2>3. \A n \in old \cup new : graph.node[n].at \in 1..2
    BY <1>13
  <2>4. born \in [old \cup new -> 1..2]
    BY <2>2, <2>3
  <2> QED
    BY <2>1, <2>4 DEF Tables
<1> QED
  BY <1>11, <1>12, <1>13, <1>14, <1>15 DEF Beginning

\* The first entries are the INSERTs of the nodes and links written at 2.
LEMMA FirstEntries ==
  ASSUME NEW old, NEW new, Beginning(old, new)
  PROVE  /\ lastId \in Nat /\ DOMAIN journal = 1..lastId
         /\ \A k \in 1..lastId : journal[k] \in NodeEntries(new) \cup LinkEntries(old, new)
         /\ \A n \in new : \E k \in 1..lastId : journal[k] = FirstEntry("node", n)
<1> DEFINE A == NodeEntries(new)
           B == LinkEntries(old, new)
           a == SetToSeq(A)
           b == SetToSeq(B)
<1>0. old \in SUBSET Node /\ new \in SUBSET Node
  BY DEF Beginning
<1>1. IsFiniteSet(A)
  <2> DEFINE f == [n \in new |-> FirstEntry("node", n)]
  <2>1. f \in Surjection(new, A)
    BY DEF Surjection, NodeEntries
  <2>2. IsFiniteSet(new)
    BY <1>0, JournalAssumption, FS_Subset
  <2> HIDE DEF f, A
  <2> QED
    BY <2>1, <2>2, FS_Surjection
<1>2. IsFiniteSet(B)
  <2> DEFINE D == {k \in FirstLinks(old, new) : LinkAt(old, k) = 2}
             f == [l \in D |-> FirstEntry("link", l)]
  <2>1. f \in Surjection(D, B)
    BY DEF Surjection, LinkEntries
  <2>2. IsFiniteSet(D)
    <3>1. D \subseteq Node \X Node
      BY JournalAssumption DEF FirstLinks
    <3>2. IsFiniteSet(Node \X Node)
      BY JournalAssumption, FS_Product
    <3> HIDE DEF D
    <3> QED
      BY <3>1, <3>2, FS_Subset
  <2> HIDE DEF f, B, D
  <2> QED
    BY <2>1, <2>2, FS_Surjection
<1> HIDE DEF A, B
<1>3. /\ Len(a) \in Nat /\ a \in Seq(A)
      /\ \A i \in 1..Len(a) : a[i] \in A
      /\ \A x \in A : \E i \in 1..Len(a) : a[i] = x
  BY <1>1, SequenceOf
<1>4. /\ Len(b) \in Nat /\ b \in Seq(B)
      /\ \A i \in 1..Len(b) : b[i] \in B
      /\ \A x \in B : \E i \in 1..Len(b) : b[i] = x
  BY <1>2, SequenceOf
<1>5. journal = a \o b /\ lastId = Len(journal)
  BY DEF Beginning, A, B
<1> HIDE DEF a, b
<1>6. /\ a \o b \in Seq(A \cup B) /\ Len(a \o b) = Len(a) + Len(b)
      /\ \A i \in 1..Len(a) : (a \o b)[i] = a[i]
  <2>1. a \in Seq(A \cup B) /\ b \in Seq(A \cup B)
    BY <1>3, <1>4
  <2> QED
    BY <2>1
<1>7. lastId \in Nat /\ DOMAIN journal = 1..lastId /\ \A k \in 1..lastId : journal[k] \in A \cup B
  BY <1>5, <1>6
<1>8. lastId = Len(a) + Len(b)
  BY <1>5, <1>6
<1>9. \A n \in new : \E k \in 1..lastId : journal[k] = FirstEntry("node", n)
  <2> SUFFICES ASSUME NEW n \in new PROVE \E k \in 1..lastId : journal[k] = FirstEntry("node", n)
    OBVIOUS
  <2>1. FirstEntry("node", n) \in A
    BY DEF A, NodeEntries
  <2>2. PICK i \in 1..Len(a) : a[i] = FirstEntry("node", n)
    BY <1>3, <2>1
  <2>3. i \in 1..lastId /\ journal[i] = FirstEntry("node", n)
    BY <1>3, <1>4, <1>5, <1>6, <1>8, <2>2
  <2> QED
    BY <2>3
<1> QED
  BY <1>7, <1>9 DEF A, B

\* The beginning is in order.
LEMMA InitKeeps ==
  ASSUME Init
  PROVE  Base
<1>1. PICK old, new : Beginning(old, new)
  BY InitBegins
<1>2. /\ queue = NoRows /\ pins = {} /\ leaving = {} /\ rb = IdleRollback /\ clock = 2
      /\ ops = 0 /\ undone = {} /\ horizon = 2 /\ fragile = [x \in Link \cup Bridge |-> 0]
  BY DEF Init
<1>3. /\ graph \in Graphs /\ DOMAIN graph.node = old \cup new
      /\ \A n \in new : graph.node[n].at = 2
      /\ past = <<[node |-> RowsAt(old, 1), link |-> OldLinks(old, new), bridge |-> NoRows]>>
      /\ [node |-> RowsAt(old, 1), link |-> OldLinks(old, new), bridge |-> NoRows] \in Graphs
      /\ born \in Tables(Node, 1..2) /\ DOMAIN born = old \cup new
      /\ \A n \in old \cup new : born[n] = graph.node[n].at
  BY <1>1, FirstGraphs
<1>4. /\ lastId \in Nat /\ DOMAIN journal = 1..lastId
      /\ \A k \in 1..lastId : journal[k] \in NodeEntries(new) \cup LinkEntries(old, new)
  BY <1>1, FirstEntries
<1>5. \A k \in 1..lastId : Fits(journal[k], born) /\ journal[k].at = 2
  <2> SUFFICES ASSUME NEW k \in 1..lastId PROVE Fits(journal[k], born) /\ journal[k].at = 2
    OBVIOUS
  <2>1. CASE journal[k] \in NodeEntries(new)
    <3>1. PICK n \in new : journal[k] = FirstEntry("node", n)
      BY <2>1 DEF NodeEntries
    <3>2. n \in DOMAIN born /\ born[n] = 2
      BY <1>3
    <3> QED
      BY <3>1, <3>2 DEF FirstEntry, Fits
  <2>2. CASE journal[k] \in LinkEntries(old, new)
    <3>1. PICK l \in Link : journal[k] = FirstEntry("link", l)
      BY <2>2 DEF LinkEntries, FirstLinks
    <3> QED
      BY <3>1 DEF FirstEntry, Fits
  <2> QED
    BY <1>4, <2>1, <2>2
<1>6. Logged
  <2>1. Kept(journal, lastId, born, 2)
    BY <1>4, <1>5 DEF Kept, Fitting, Ordered
  <2> QED
    BY <1>2, <2>1 DEF Logged
<1>7. past \in [1..(clock - 1) -> Graphs]
  BY <1>2, <1>3
<1>8. queue \in Tables(Queued, [queued : Time, started : 0..MaxTime])
  BY <1>2, NoRowsTable
<1>9. /\ clock \in Time /\ fragile \in [Link \cup Bridge -> 0..clock] /\ ops \in 0..MaxOps
      /\ horizon \in 2..(clock + 1) /\ undone \subseteq Time /\ pins \subseteq Pinnable
      /\ leaving \subseteq Node /\ born \in Tables(Node, 1..clock)
  BY <1>2, <1>3, JournalAssumption DEF Time
<1>10. /\ rb \in [pc : {"idle", "walk", "nodes", "links", "replay"}, target : Time,
            ids : SUBSET Node, frontier : SUBSET Node,
            node : Tables(Node, Row), link : Tables(Link, Time), ops : 0..MaxOps]
       /\ DOMAIN rb.node = {} /\ rb.pc = "idle" /\ rb.ids = {} /\ DOMAIN rb.link = {}
  <2>1. NoRows \in Tables(Node, Row) /\ NoRows \in Tables(Link, Time) /\ DOMAIN NoRows = {}
    BY NoRowsTable
  <2>2. 1 \in Time /\ 0 \in 0..MaxOps
    BY JournalAssumption DEF Time
  <2> QED
    BY <1>2, <2>1, <2>2 DEF IdleRollback
<1>11. TypeOK
  BY <1>3, <1>4, <1>5, <1>7, <1>8, <1>9, <1>10, <1>2 DEF TypeOK, Queues, Rollbacks
<1>12. Births /\ Exported
  BY <1>2, <1>3, <1>10 DEF Births, Exported, Dated
<1> QED
  BY <1>6, <1>11, <1>12 DEF Base

\* Types: every variable of the journal and of a rollback holds a value of its type in every
\* reachable state, and the graph is one (no link without its nodes).
THEOREM JournalTypesCorrect == Spec => []TypeOK
<1>1. Init => Base
  BY InitKeeps
<1>2. Base /\ [Next]_vars => Base'
  BY NextKeeps
<1>3. Base => TypeOK
  BY DEF Base
<1> QED
  BY <1>1, <1>2, <1>3, PTL DEF Spec

-----------------------------------------------------------------------------
(* Pins *)

\* While nobody writes during a rollback: the pins are among the ids found, the parents of
\* all but the last level too, and the links between them are exported.
PinsFit ==
  rb.pc # "idle" =>
    /\ rb.ops <= ops
    /\ ops = rb.ops =>
        /\ pins \subseteq rb.ids
        /\ \A l \in DOMAIN graph.link : l[2] \in rb.ids \ rb.frontier => l[1] \in rb.ids
        /\ rb.pc # "walk" => rb.frontier = {}
        /\ rb.pc = "replay" =>
             \A l \in DOMAIN graph.link : Ends(l) \subseteq rb.ids => l \in DOMAIN rb.link

\* No step of the rollback breaks it, and every write counts.
LEMMA PinsFitKept ==
  ASSUME Base, PinsFit, [Next]_vars
  PROVE  PinsFit'
<1>0. /\ TypeOK /\ ops \in Nat
      /\ rb \in [pc : {"idle", "walk", "nodes", "links", "replay"}, target : Time,
            ids : SUBSET Node, frontier : SUBSET Node,
            node : Tables(Node, Row), link : Tables(Link, Time), ops : 0..MaxOps]
      /\ rb.ops \in Nat
  BY JournalAssumption DEF Base, TypeOK, Rollbacks
<1>1. CASE Write
  BY <1>0, <1>1 DEF PinsFit, Write
<1>2. CASE UNCHANGED <<rb, database, ops>>
  BY <1>2 DEF PinsFit, database
<1>3. CASE rb' = IdleRollback
  BY <1>3 DEF PinsFit, IdleRollback
<1>4. ASSUME NEW t \in 1..(clock - 1), BeginRollback(t) PROVE PinsFit'
  <2>1. /\ rb'.ids = pins /\ rb'.frontier = pins /\ rb'.ops = ops
        /\ rb'.pc = IF pins = {} THEN "replay" ELSE "walk"
    BY <1>4 DEF BeginRollback, IdleRollback
  <2>2. UNCHANGED <<database, ops>>
    BY <1>4 DEF BeginRollback
  <2> QED
    BY <1>0, <2>1, <2>2 DEF PinsFit, database, Ends
<1>5. CASE WalkUp
  <2> DEFINE new == NextLevel(rb.frontier) \ rb.ids
  <2>1. UNCHANGED <<database, ops>> /\ rb.pc = "walk"
    BY <1>5 DEF WalkUp
  <2>2. rb' = [rb EXCEPT !.pc = IF new = {} THEN "nodes" ELSE "walk",
                         !.ids = rb.ids \cup new, !.frontier = new]
    BY <1>5 DEF WalkUp
  <2>3. \A l \in DOMAIN graph.link : l[2] \in rb.frontier => l[1] \in rb.ids \cup new
    BY DEF NextLevel
  <2> HIDE DEF new
  <2>4. /\ rb'.pc = IF new = {} THEN "nodes" ELSE "walk"
        /\ rb'.ids = rb.ids \cup new /\ rb'.frontier = new /\ rb'.ops = rb.ops
    BY <1>0, <2>2
  <2> QED
    BY <2>1, <2>3, <2>4 DEF PinsFit, database
<1>6. CASE ExportNodes
  <2>1. UNCHANGED <<database, ops>> /\ rb.pc = "nodes"
    BY <1>6 DEF ExportNodes
  <2>2. rb'.pc = "links" /\ rb'.ids = rb.ids /\ rb'.frontier = rb.frontier /\ rb'.ops = rb.ops
    BY <1>0, <1>6 DEF ExportNodes
  <2> QED
    BY <2>1, <2>2 DEF PinsFit, database
<1>7. CASE ExportLinks
  <2> DEFINE L == {l \in DOMAIN graph.link : Ends(l) \subseteq rb.ids}
  <2>1. UNCHANGED <<database, ops>> /\ rb.pc = "links"
    BY <1>7 DEF ExportLinks
  <2>2. /\ rb'.pc = "replay" /\ rb'.ids = rb.ids /\ rb'.frontier = rb.frontier /\ rb'.ops = rb.ops
        /\ rb'.link = Restrict(graph.link, L)
    BY <1>0, <1>7 DEF ExportLinks
  <2>3. DOMAIN Restrict(graph.link, L) = L
    BY DEF Restrict
  <2> QED
    BY <2>1, <2>2, <2>3 DEF PinsFit, database
<1>8. Next => \/ Write \/ UNCHANGED <<rb, database, ops>> \/ rb' = IdleRollback
              \/ \E t \in 1..(clock - 1) : BeginRollback(t)
              \/ WalkUp \/ ExportNodes \/ ExportLinks
  <2>1. Tick => UNCHANGED <<rb, database, ops>>
    BY DEF Tick
  <2>2. \A n \in Node : WriteNode(n) => Write \/ UNCHANGED <<rb, database, ops>>
    BY DEF WriteNode, CreateNode, UpdateNode, RemoveEdges, RemoveNode, RemovalFails, Enqueue,
           ClaimOrRelease, Pin, Unpin
  <2>3. \A l \in Link : CreateEdge(l) => Write
    BY DEF CreateEdge
  <2>4. \A b \in Bridge : CreateBridge(b) \/ DeleteBridge(b) => Write
    BY DEF CreateBridge, DeleteBridge
  <2>5. \A t \in (horizon + 1)..(clock + 1) : Prune(t) => Write
    BY DEF Prune
  <2>6. Commit \/ RollbackFails => rb' = IdleRollback
    BY DEF Commit, RollbackFails
  <2> QED
    BY <2>1, <2>2, <2>3, <2>4, <2>5, <2>6 DEF Next, Rollback
<1>9. CASE UNCHANGED vars
  BY <1>2, <1>9 DEF vars
<1> QED
  BY <1>1, <1>2, <1>3, <1>4, <1>5, <1>6, <1>7, <1>8, <1>9

\* What is exported comes back, and it is the ancestry of the pins: the ids found are closed under
\* parents.
LEMMA PinsSurviveStep ==
  ASSUME Base, PinsFit, Commit, ops = rb.ops
  PROVE  LET A == Ancestry(graph) IN
         /\ A \subseteq DOMAIN graph'.node
         /\ \A l \in DOMAIN graph.link : Ends(l) \subseteq A => l \in DOMAIN graph'.link
<1> DEFINE A == Ancestry(graph)
           C == Cleanup(Replayed(rb.target), rb.target)
<1>0. TypeOK /\ Exported /\ rb.pc = "replay" /\ graph' = RolledBack(rb.target)
  BY DEF Base, Commit
<1>1. /\ pins \subseteq rb.ids /\ rb.ids \in SUBSET Node
      /\ \A l \in DOMAIN graph.link : l[2] \in rb.ids => l[1] \in rb.ids
      /\ \A l \in DOMAIN graph.link : Ends(l) \subseteq rb.ids => l \in DOMAIN rb.link
  BY <1>0 DEF PinsFit, TypeOK, Rollbacks
<1>2. A \subseteq rb.ids \cap DOMAIN graph.node
  BY <1>1 DEF Ancestry
<1>3. A \subseteq DOMAIN rb.node
  BY <1>0, <1>2 DEF Exported
<1>4. /\ graph'.node = Ignoring(C.node, rb.node)
      /\ graph'.link = Ignoring(C.link, rb.link)
  BY <1>0, RolledBackGraph
<1> HIDE DEF C
<1>5. DOMAIN rb.node \subseteq DOMAIN graph'.node
  <2>1. DOMAIN Ignoring(C.node, rb.node) = DOMAIN C.node \cup DOMAIN rb.node
    BY IgnoringKeys
  <2> QED
    BY <1>4, <2>1
<1>6. DOMAIN rb.link \subseteq DOMAIN graph'.link
  <2>1. DOMAIN Ignoring(C.link, rb.link) = DOMAIN C.link \cup DOMAIN rb.link
    BY IgnoringKeys
  <2> QED
    BY <1>4, <2>1
<1>7. \A l \in DOMAIN graph.link : Ends(l) \subseteq A => l \in DOMAIN rb.link
  BY <1>1, <1>2
<1> QED
  BY <1>3, <1>5, <1>6, <1>7

\* Pins survive: when nobody writes while executeRollback exports, no pinned node, ancestor of one
\* or link among them is lost, whatever the target.
THEOREM PinnedSurvive == Spec => PinsSurvive
<1>1. Init => Base /\ PinsFit
  <2>1. Init => rb.pc = "idle"
    BY DEF Init, IdleRollback
  <2> QED
    BY <2>1, InitKeeps DEF PinsFit
<1>2. Base /\ PinsFit /\ [Next]_vars => Base' /\ PinsFit'
  BY NextKeeps, PinsFitKept
<1>3. Base /\ PinsFit /\ [Next]_vars =>
        [Commit /\ ops = rb.ops =>
           LET A == Ancestry(graph) IN
           /\ A \subseteq DOMAIN graph'.node
           /\ \A l \in DOMAIN graph.link : Ends(l) \subseteq A => l \in DOMAIN graph'.link]_vars
  BY PinsSurviveStep
<1> QED
  BY <1>1, <1>2, <1>3, PTL DEF Spec, PinsSurvive

-----------------------------------------------------------------------------
(* What a replay brings back of the nodes *)

\* A replay of a longer journal passes by the graph of before the new entries, as far as a
\* node is concerned, and ends alike.
LEMMA Appended ==
  ASSUME NEW c \in Tables(Node, Nat), NEW jr, NEW last \in Nat, DOMAIN jr \subseteq 1..last,
         Fitting(jr, c), NEW es, Len(es) \in Nat, NEW L, L = Longer(jr, last, es), Fitting(L, c),
         NEW g \in Graphs, Dated(g.node, c), NEW h \in Graphs, Dated(h.node, c),
         NEW t, NEW n, NEW s, Stages(s, L, last + Len(es), h, t),
         Alike(s[last].node, g.node, n)
  PROVE  Alike(s[0].node, Replay(jr, last, g, t).node, n)
<1> DEFINE M == last + Len(es)
<1>0. M \in Nat /\ last <= M
  OBVIOUS
<1>1. /\ DOMAIN L = DOMAIN jr \cup (last + 1)..M
      /\ \A k \in DOMAIN jr : L[k] = jr[k]
  BY LongerIds
<1>2. Stages(s, L, M, h, t)
  OBVIOUS
<1> HIDE DEF M
<1>3. Agree(jr, t, L, t, last)
  <2> SUFFICES ASSUME NEW k \in 1..last
               PROVE  /\ k \in Later(jr, t) <=> k \in Later(L, t)
                      /\ k \in Later(jr, t) => jr[k] = L[k]
    BY DEF Agree
  <2>1. k \in DOMAIN L <=> k \in DOMAIN jr
    BY <1>1
  <2> QED
    BY <1>1, <2>1 DEF Later
<1>4. Replay(jr, last, s[last], t) = s[0]
  BY <1>0, <1>2, <1>3, ReplayFrom
<1>5. \A k \in 0..M : s[k] \in Graphs /\ Dated(s[k].node, c)
  BY <1>0, <1>2, StagesGraph
<1>6. s[last] \in Graphs /\ Dated(s[last].node, c)
  BY <1>0, <1>5
<1> DEFINE q == s[last]
<1>7. q \in Graphs /\ Dated(q.node, c) /\ Alike(q.node, g.node, n) /\ Replay(jr, last, q, t) = s[0]
  BY <1>4, <1>6
<1> HIDE DEF q
<1>8. Alike(Replay(jr, last, q, t).node, Replay(jr, last, g, t).node, n)
  BY <1>7, ReplayAlike
<1> QED
  BY <1>7, <1>8

\* Entries not about a node leave it alone.
LEMMA AppendedElsewhere ==
  ASSUME NEW c \in Tables(Node, Nat), NEW jr, NEW last \in Nat, DOMAIN jr \subseteq 1..last,
         Fitting(jr, c), NEW es, Len(es) \in Nat, NEW L, L = Longer(jr, last, es), Fitting(L, c),
         NEW g \in Graphs, Dated(g.node, c), NEW h \in Graphs, Dated(h.node, c),
         NEW t, NEW n, \A i \in 1..Len(es) : ~ About(es[i], n), Alike(h.node, g.node, n)
  PROVE  Alike(Replay(L, last + Len(es), h, t).node, Replay(jr, last, g, t).node, n)
<1> DEFINE M == last + Len(es)
<1>0. M \in Nat /\ last <= M /\ M = last + Len(es)
  OBVIOUS
<1>1. /\ DOMAIN L = DOMAIN jr \cup (last + 1)..M
      /\ \A k \in (last + 1)..M : L[k] = es[k - last] /\ k - last \in 1..Len(es)
  <2>1. /\ DOMAIN Longer(jr, last, es) = DOMAIN jr \cup (last + 1)..(last + Len(es))
        /\ \A k \in (last + 1)..(last + Len(es)) :
             Longer(jr, last, es)[k] = es[k - last] /\ k - last \in 1..Len(es)
    BY LongerIds, Zenon
  <2> QED
    BY <2>1
<1> HIDE DEF M
<1>2. PICK s : Stages(s, L, M, h, t) /\ Replay(L, M, h, t) = s[0]
  BY <1>0, ReplayStages
<1>3. \A k \in (last + 1)..M : k \in Later(L, t) => ~ About(L[k], n)
  <2> SUFFICES ASSUME NEW k \in (last + 1)..M PROVE ~ About(L[k], n)
    OBVIOUS
  <2>1. L[k] = es[k - last] /\ k - last \in 1..Len(es)
    BY <1>1
  <2> QED
    BY <2>1
<1>4. \A k \in last..M : Alike(s[k].node, h.node, n)
  BY <1>0, <1>2, <1>3, StagesElsewhere
<1>5. Alike(s[last].node, g.node, n)
  BY <1>0, <1>4 DEF Alike
<1>6. Alike(s[0].node, Replay(jr, last, g, t).node, n)
  BY <1>0, <1>2, <1>5, Appended
<1> QED
  BY <1>0, <1>2, <1>6

\* An entry about a node, the first of those written, is undone.
LEMMA AppendedOwn ==
  ASSUME NEW c \in Tables(Node, Nat), NEW jr, NEW last \in Nat, DOMAIN jr \subseteq 1..last,
         Fitting(jr, c), NEW es, Len(es) \in Nat \ {0}, NEW L, L = Longer(jr, last, es), Fitting(L, c),
         NEW g \in Graphs, Dated(g.node, c), NEW h \in Graphs, Dated(h.node, c),
         NEW t, NEW n, es[1].at > t, \A i \in 2..Len(es) : ~ About(es[i], n),
         Alike(UndoneNodes(es[1], h.node), g.node, n)
  PROVE  Alike(Replay(L, last + Len(es), h, t).node, Replay(jr, last, g, t).node, n)
<1> DEFINE M == last + Len(es)
           i == last + 1
           e == es[1]
<1>0. M \in Nat /\ last <= M /\ M = last + Len(es) /\ i <= M /\ i \in Nat /\ Len(es) \in Nat
  OBVIOUS
<1>1. /\ DOMAIN L = DOMAIN jr \cup (last + 1)..M
      /\ \A k \in (last + 1)..M : L[k] = es[k - last] /\ k - last \in 1..Len(es)
  <2>1. /\ DOMAIN Longer(jr, last, es) = DOMAIN jr \cup (last + 1)..(last + Len(es))
        /\ \A k \in (last + 1)..(last + Len(es)) :
             Longer(jr, last, es)[k] = es[k - last] /\ k - last \in 1..Len(es)
    BY LongerIds, Zenon
  <2> QED
    BY <2>1
<1>2. i \in DOMAIN L /\ L[i] = e
  <2>1. i \in (last + 1)..M /\ i - last = 1
    BY <1>0
  <2>2. L[i] = es[i - last]
    BY <1>1, <2>1
  <2> QED
    BY <1>1, <2>1, <2>2
<1>3. \A k \in (i + 1)..M : k \in Later(L, t) => ~ About(L[k], n)
  <2> SUFFICES ASSUME NEW k \in (i + 1)..M PROVE ~ About(L[k], n)
    OBVIOUS
  <2>1. L[k] = es[k - last] /\ k - last \in 2..Len(es)
    BY <1>1
  <2> QED
    BY <2>1
<1>4. i \in Later(L, t)
  BY <1>2 DEF Later
<1> HIDE DEF M, e
<1>5. PICK s : Stages(s, L, M, h, t) /\ Replay(L, M, h, t) = s[0]
  BY <1>0, ReplayStages
<1>6. \A k \in i..M : Alike(s[k].node, h.node, n)
  <2> HIDE DEF i
  <2> QED
    BY <1>0, <1>3, <1>5, StagesElsewhere
<1>7. \A k \in 0..M : s[k] \in Graphs /\ Dated(s[k].node, c)
  BY <1>0, <1>5, StagesGraph
<1> DEFINE p == s[i]
<1>8. p \in Graphs /\ Dated(p.node, c) /\ Alike(p.node, h.node, n)
  BY <1>0, <1>6, <1>7
<1>9. s[last] = Step(L, i, p, t)
  BY <1>0, <1>5 DEF Stages
<1> HIDE DEF p, i
<1>10. s[last].node = UndoneNodes(e, p.node)
  BY <1>2, <1>4, <1>8, <1>9, StepGraph
<1>11. p.node \in Tables(Node, Row) /\ h.node \in Tables(Node, Row)
  BY <1>8, GraphParts
<1>12. Alike(UndoneNodes(e, p.node), UndoneNodes(e, h.node), n)
  BY <1>8, <1>11, UndoneAlike
<1>13. Alike(s[last].node, g.node, n)
  BY <1>10, <1>12 DEF Alike, e
<1>14. Alike(s[0].node, Replay(jr, last, g, t).node, n)
  BY <1>0, <1>5, <1>13, Appended
<1> QED
  BY <1>0, <1>5, <1>14
-----------------------------------------------------------------------------
\* What a write says that logs entries: nobody's second of birth is changed.
Writes(es) ==
  /\ Log(es) /\ Len(es) \in Nat /\ clock' = clock
  /\ \A m \in DOMAIN born : m \in DOMAIN born' /\ born'[m] = born[m]

\* Such a write appends its entries.
LEMMA WritesAppend ==
  ASSUME Base, Base', NEW es, Writes(es)
  PROVE  /\ journal' = Longer(journal, lastId, es) /\ lastId' = lastId + Len(es)
         /\ Len(es) \in Nat /\ lastId \in Nat /\ DOMAIN journal \subseteq 1..lastId
         /\ Fitting(journal, born') /\ Fitting(journal', born')
         /\ born' \in Tables(Node, Nat)
         /\ graph \in Graphs /\ Dated(graph.node, born')
         /\ graph' \in Graphs /\ Dated(graph'.node, born')
<1>0. TypeOK /\ Births /\ Logged
  BY DEF Base
<1>1. TypeOK' /\ Births' /\ Logged'
  BY DEF Base
<1>2. journal' = Longer(journal, lastId, es) /\ lastId' = lastId + Len(es) /\ Len(es) \in Nat
  BY DEF Writes, Log, Longer
<1>3. lastId \in Nat /\ DOMAIN journal \subseteq 1..lastId /\ Fitting(journal', born')
  BY <1>0, <1>1 DEF Logged, Kept
<1> DEFINE c == born'
<1>4. \A m \in DOMAIN born : m \in DOMAIN c /\ c[m] = born[m]
  BY DEF Writes
<1>5. clock \in Nat /\ graph \in Graphs
  BY <1>0, Basics
<1>6. Fitting(journal, c)
  <2>1. Kept(journal, lastId, born, clock)
    BY <1>0 DEF Logged
  <2> HIDE DEF c
  <2>2. Kept(journal, lastId, c, clock)
    BY <1>4, <1>5, <2>1, KeptOn
  <2> QED
    BY <2>2 DEF Kept
<1>7. Dated(graph.node, c)
  <2> HIDE DEF c
  <2> QED
    BY <1>0, <1>4, DatedOn DEF Births
<1>8. graph' \in Graphs /\ Dated(graph'.node, born')
  BY <1>1 DEF Births, TypeOK
<1>9. born' \in Tables(Node, Nat)
  <2>1. born' \in Tables(Node, 1..clock') /\ clock' = clock
    BY <1>1 DEF TypeOK, Writes
  <2>2. 1..clock \subseteq Nat
    BY <1>5
  <2> QED
    BY <2>1, <2>2, WiderTable
<1> QED
  BY <1>2, <1>3, <1>5, <1>6, <1>7, <1>8, <1>9

\* After a write, a replay to a second that was over brings back the same of a node.
LEMMA WriteElsewhere ==
  ASSUME Base, Base', NEW es, Writes(es), NEW t, NEW n,
         \A i \in 1..Len(es) : ~ About(es[i], n), Alike(graph'.node, graph.node, n)
  PROVE  Alike(Replayed(t)'.node, Replayed(t).node, n)
<1> DEFINE L == journal'
           h == graph'
           c == born'
           M == lastId'
<1>1. /\ L = Longer(journal, lastId, es) /\ M = lastId + Len(es)
      /\ Len(es) \in Nat /\ lastId \in Nat /\ DOMAIN journal \subseteq 1..lastId
      /\ Fitting(journal, c) /\ Fitting(L, c)
      /\ c \in Tables(Node, Nat)
      /\ graph \in Graphs /\ Dated(graph.node, c)
      /\ h \in Graphs /\ Dated(h.node, c)
  BY WritesAppend
<1>2. Replayed(t)' = Replay(L, M, h, t) /\ Replayed(t) = Replay(journal, lastId, graph, t)
  BY DEF Replayed
<1>3. Alike(h.node, graph.node, n)
  OBVIOUS
<1> HIDE DEF L, h, c, M
<1>4. Alike(Replay(L, lastId + Len(es), h, t).node, Replay(journal, lastId, graph, t).node, n)
  BY <1>1, <1>3, AppendedElsewhere
<1> QED
  BY <1>1, <1>2, <1>4

LEMMA WriteOwn ==
  ASSUME Base, Base', NEW es, Writes(es), NEW t \in Nat, t < clock, NEW n,
         Len(es) # 0, es[1].at = clock, \A i \in 2..Len(es) : ~ About(es[i], n),
         Alike(UndoneNodes(es[1], graph'.node), graph.node, n)
  PROVE  Alike(Replayed(t)'.node, Replayed(t).node, n)
<1> DEFINE L == journal'
           h == graph'
           c == born'
           M == lastId'
<1>1. /\ L = Longer(journal, lastId, es) /\ M = lastId + Len(es)
      /\ Len(es) \in Nat /\ lastId \in Nat /\ DOMAIN journal \subseteq 1..lastId
      /\ Fitting(journal, c) /\ Fitting(L, c)
      /\ c \in Tables(Node, Nat)
      /\ graph \in Graphs /\ Dated(graph.node, c)
      /\ h \in Graphs /\ Dated(h.node, c)
  BY WritesAppend
<1>2. Replayed(t)' = Replay(L, M, h, t) /\ Replayed(t) = Replay(journal, lastId, graph, t)
  BY DEF Replayed
<1>3. Alike(UndoneNodes(es[1], h.node), graph.node, n)
  OBVIOUS
<1>4. es[1].at > t
  <2>1. clock \in Nat
    BY Basics DEF Base
  <2> QED
    BY <2>1
<1> HIDE DEF L, h, c, M
<1>5. Len(es) \in Nat \ {0}
  BY <1>1
<1>6. Alike(Replay(L, lastId + Len(es), h, t).node, Replay(journal, lastId, graph, t).node, n)
  BY <1>1, <1>3, <1>4, <1>5, AppendedOwn
<1> QED
  BY <1>1, <1>2, <1>6

\* The graphs of the past hold nodes of their time.
PastDated ==
  \A t \in 1..(clock - 1) :
    Dated(past[t].node, born) /\ \A n \in DOMAIN past[t].node : born[n] <= t

\* Of each node born by a restorable second, the replay brings back what the graph held.
Recalled ==
  \A t \in 1..(clock - 1) : \A n \in DOMAIN born :
    Restorable(t) /\ born[n] <= t => Alike(Replayed(t).node, past[t].node, n)

\* An exported node that the target second may have held is still there, or its DELETE is
\* in the journal.
DeletedLater(n, t) ==
  \E k \in Later(journal, t) : About(journal[k], n) /\ journal[k].op = "DELETE"
ReExported ==
  rb.pc \in {"links", "replay"} /\ horizon <= rb.target + 1 =>
    \A n \in DOMAIN rb.node :
      born[n] > rb.target \/ n \in DOMAIN graph.node \/ DeletedLater(n, rb.target)

\* What the journal remembers of the nodes.
Memory == PastDated /\ Recalled /\ ReExported

\* What a write does to a replay to a second that is over: nothing, for the nodes of then.
Same ==
  \A t \in 1..(clock - 1) : \A n \in DOMAIN born :
    born[n] <= t => Alike(Replayed(t)'.node, Replayed(t).node, n)

\* Who is born by a write is born now.
BornNow ==
  /\ \A m \in DOMAIN born : m \in DOMAIN born' /\ born'[m] = born[m]
  /\ \A m \in DOMAIN born' : m \in DOMAIN born \/ born'[m] = clock

\* Nodes that go are journaled.
Gone(es) ==
  \A n \in DOMAIN graph.node \ DOMAIN graph'.node :
    \E i \in 1..Len(es) : About(es[i], n) /\ es[i].op = "DELETE" /\ es[i].at = clock

\* A write keeps each of the three.
LEMMA PastKept ==
  ASSUME Base, PastDated, BornNow, UNCHANGED <<past, clock>>
  PROVE  PastDated'
<1> SUFFICES ASSUME NEW t \in 1..(clock - 1)
             PROVE  Dated(past[t].node, born') /\ \A n \in DOMAIN past[t].node : born'[n] <= t
  BY DEF PastDated
<1>1. Dated(past[t].node, born) /\ \A n \in DOMAIN past[t].node : born[n] <= t
  BY DEF PastDated
<1> DEFINE c == born'
<1>2. \A m \in DOMAIN born : m \in DOMAIN c /\ c[m] = born[m]
  BY DEF BornNow
<1> HIDE DEF c
<1>3. Dated(past[t].node, c)
  BY <1>1, <1>2, DatedOn
<1>4. \A n \in DOMAIN past[t].node : c[n] <= t
  BY <1>1, <1>2 DEF Dated
<1> QED
  BY <1>3, <1>4 DEF c

LEMMA RecalledKept ==
  ASSUME Base, Recalled, BornNow, Same, UNCHANGED <<past, clock, undone, horizon>>
  PROVE  Recalled'
<1> SUFFICES ASSUME NEW t \in 1..(clock - 1), NEW n \in DOMAIN born', Restorable(t), born'[n] <= t
             PROVE  Alike(Replayed(t)'.node, past[t].node, n)
  BY DEF Recalled, Restorable
<1>0. clock \in Nat
  BY Basics DEF Base
<1>1. n \in DOMAIN born /\ born[n] <= t
  BY <1>0 DEF BornNow
<1>2. Alike(Replayed(t)'.node, Replayed(t).node, n)
  BY <1>1 DEF Same
<1>3. Alike(Replayed(t).node, past[t].node, n)
  BY <1>1 DEF Recalled
<1> QED
  BY <1>2, <1>3 DEF Alike

LEMMA ReExportedKept ==
  ASSUME Base, Base', ReExported, BornNow, NEW es, Writes(es), Gone(es),
         UNCHANGED <<rb, clock, horizon>>
  PROVE  ReExported'
<1>0. TypeOK /\ Births /\ Exported
  BY DEF Base
<1> SUFFICES ASSUME rb.pc \in {"links", "replay"}, horizon <= rb.target + 1,
                    NEW n \in DOMAIN rb.node
             PROVE  born'[n] > rb.target \/ n \in DOMAIN graph'.node \/ DeletedLater(n, rb.target)'
  BY DEF ReExported
<1>1. n \in DOMAIN born /\ born'[n] = born[n]
  BY <1>0 DEF Births, Dated, BornNow
<1>2. /\ lastId \in Nat /\ DOMAIN journal \subseteq 1..lastId /\ Len(es) \in Nat
      /\ journal' = Longer(journal, lastId, es)
  BY WritesAppend
<1>3. /\ DOMAIN Longer(journal, lastId, es) = DOMAIN journal \cup (lastId + 1)..(lastId + Len(es))
      /\ \A k \in DOMAIN journal : Longer(journal, lastId, es)[k] = journal[k]
      /\ \A k \in (lastId + 1)..(lastId + Len(es)) :
           Longer(journal, lastId, es)[k] = es[k - lastId] /\ k - lastId \in 1..Len(es)
  BY <1>2, LongerIds, Zenon
<1>4. CASE DeletedLater(n, rb.target)
  <2>1. PICK k \in Later(journal, rb.target) : About(journal[k], n) /\ journal[k].op = "DELETE"
    BY <1>4 DEF DeletedLater
  <2>2. k \in DOMAIN journal' /\ journal'[k] = journal[k]
    BY <1>2, <1>3, <2>1 DEF Later
  <2>3. k \in Later(journal', rb.target)
    BY <2>1, <2>2 DEF Later
  <2> QED
    BY <2>1, <2>2, <2>3 DEF DeletedLater
<1>5. CASE n \in DOMAIN graph.node \ DOMAIN graph'.node
  <2>1. PICK i \in 1..Len(es) : About(es[i], n) /\ es[i].op = "DELETE" /\ es[i].at = clock
    BY <1>5 DEF Gone
  <2> DEFINE k == lastId + i
  <2>2. k \in (lastId + 1)..(lastId + Len(es)) /\ k - lastId = i
    BY <1>2
  <2>3. k \in DOMAIN journal' /\ journal'[k] = es[i]
    BY <1>2, <1>3, <2>2
  <2>4. clock > rb.target
    BY <1>0, Basics DEF Exported, TypeOK, Time
  <2> HIDE DEF k
  <2>5. k \in Later(journal', rb.target)
    BY <2>1, <2>3, <2>4 DEF Later
  <2> QED
    BY <2>1, <2>3, <2>5 DEF DeletedLater
<1> QED
  BY <1>1, <1>4, <1>5 DEF ReExported

\* Hence a write that undoes exactly what it did keeps them all.
LEMMA WriteMemory ==
  ASSUME Base, Base', Memory, Write, UNCHANGED horizon, BornNow, Same, NEW es, Writes(es), Gone(es)
  PROVE  Memory'
<1>1. UNCHANGED <<past, clock, undone, rb>> /\ PastDated /\ Recalled /\ ReExported
  BY DEF Write, Memory
<1>2. PastDated'
  BY <1>1, PastKept
<1>3. Recalled'
  BY <1>1, RecalledKept
<1>4. ReExported'
  BY <1>1, ReExportedKept
<1> QED
  BY <1>2, <1>3, <1>4 DEF Memory

\* A write that logs no entry about a node and changes no node.
LEMMA LinkWriteMemory ==
  ASSUME Base, Base', Memory, Write, UNCHANGED <<born, horizon>>, graph'.node = graph.node,
         NEW es, Log(es), Len(es) \in Nat, \A i \in 1..Len(es) : es[i].table # "node"
  PROVE  Memory'
<1>1. clock' = clock /\ born' = born
  BY DEF Write
<1>2. Writes(es) /\ BornNow /\ Gone(es)
  BY <1>1 DEF Writes, BornNow, Gone
<1>3. Same
  <2> SUFFICES ASSUME NEW t \in 1..(clock - 1), NEW n \in DOMAIN born, born[n] <= t
               PROVE  Alike(Replayed(t)'.node, Replayed(t).node, n)
    BY DEF Same
  <2>1. Alike(graph'.node, graph.node, n)
    BY DEF Alike
  <2>2. \A i \in 1..Len(es) : ~ About(es[i], n)
    BY DEF About
  <2> QED
    BY <1>2, <2>1, <2>2, WriteElsewhere
<1> QED
  BY <1>1, <1>2, <1>3, WriteMemory

\* createEdge and the bridges.
LEMMA LinksMemory ==
  ASSUME Base, Base', Memory, NEW l \in Link, CreateEdge(l)
  PROVE  Memory'
<1> DEFINE e == Entry("link", l, "INSERT", 0)
           f == Ignoring(graph.link, Single(l, clock))
<1>1. /\ Write /\ UNCHANGED <<born, horizon>> /\ Log(<<e>>)
      /\ graph' = [graph EXCEPT !.link = f]
  BY DEF CreateEdge
<1>2. e.table # "node"
  BY DEF Entry
<1>3. graph'.node = graph.node
  <2>1. graph = [node |-> graph.node, link |-> graph.link, bridge |-> graph.bridge]
    BY GraphParts DEF Base, TypeOK
  <2> HIDE DEF f
  <2> QED
    BY <1>1, <2>1
<1> HIDE DEF e
<1>4. Len(<<e>>) = 1 /\ \A i \in 1..Len(<<e>>) : <<e>>[i].table # "node"
  BY <1>2
<1> QED
  BY <1>1, <1>3, <1>4, LinkWriteMemory

LEMMA BridgesMemory ==
  ASSUME Base, Base', Memory, NEW b \in Bridge, CreateBridge(b) \/ DeleteBridge(b)
  PROVE  Memory'
<1>0. graph = [node |-> graph.node, link |-> graph.link, bridge |-> graph.bridge]
  BY GraphParts DEF Base, TypeOK
<1>1. PICK e, f : /\ Write /\ UNCHANGED <<born, horizon>> /\ Log(<<e>>) /\ e.table # "node"
                  /\ graph' = [graph EXCEPT !.bridge = f]
  <2>1. CASE CreateBridge(b)
    <3> DEFINE e == Entry("bridge", b, "INSERT", 0)
               f == Ignoring(graph.bridge, Single(b, clock))
    <3>1. e.table # "node"
      BY DEF Entry
    <3>2. /\ Write /\ UNCHANGED <<born, horizon>> /\ Log(<<e>>)
          /\ graph' = [graph EXCEPT !.bridge = f]
      BY <2>1 DEF CreateBridge
    <3> HIDE DEF e, f
    <3> QED
      BY <3>1, <3>2
  <2>2. CASE DeleteBridge(b)
    <3> DEFINE e == Entry("bridge", b, "DELETE", graph.bridge[b])
               f == Without(graph.bridge, {b})
    <3>1. e.table # "node"
      BY DEF Entry
    <3>2. /\ Write /\ UNCHANGED <<born, horizon>> /\ Log(<<e>>)
          /\ graph' = [graph EXCEPT !.bridge = f]
      BY <2>2 DEF DeleteBridge
    <3> HIDE DEF e, f
    <3> QED
      BY <3>1, <3>2
  <2> QED
    BY <2>1, <2>2
<1>3. graph'.node = graph.node
  BY <1>0, <1>1
<1>4. Len(<<e>>) = 1 /\ \A i \in 1..Len(<<e>>) : <<e>>[i].table # "node"
  BY <1>1
<1> QED
  BY <1>1, <1>3, <1>4, LinkWriteMemory

\* The first DELETE of a hard removal.
LEMMA RemoveEdgesMemory ==
  ASSUME Base, Base', Memory, NEW n \in Node, RemoveEdges(n)
  PROVE  Memory'
<1> DEFINE L == Touching(graph.link, {n})
           es == Deletions(L)
           f == Without(graph.link, L)
<1>1. /\ Write /\ UNCHANGED <<born, horizon>> /\ Log(es)
      /\ graph' = [graph EXCEPT !.link = f]
  BY DEF RemoveEdges
<1>2. graph'.node = graph.node
  <2>1. graph = [node |-> graph.node, link |-> graph.link, bridge |-> graph.bridge]
    BY GraphParts DEF Base, TypeOK
  <2> HIDE DEF f
  <2> QED
    BY <1>1, <2>1
<1>3. L \in SUBSET (DOMAIN graph.link)
  BY DEF Touching
<1> HIDE DEF L
<1>4. /\ Written(es, born, clock)
      /\ \A i \in 1..Len(es) : es[i] \in {Entry("link", l, "DELETE", graph.link[l]) : l \in L}
  BY <1>3, DeletionsWritten DEF Base
<1>5. Len(es) \in Nat /\ \A i \in 1..Len(es) : es[i].table # "node"
  BY <1>4 DEF Written, Entry
<1> HIDE DEF es
<1> QED
  BY <1>1, <1>2, <1>5, LinkWriteMemory

\* An UPDATE undone puts the row before back.
LEMMA UpdateNodeMemory ==
  ASSUME Base, Base', Memory, NEW m \in Node, NEW v \in Version, UpdateNode(m, v)
  PROVE  Memory'
<1> DEFINE row == [version |-> v, at |-> graph.node[m].at]
           f == [graph.node EXCEPT ![m] = row]
           e == Entry("node", m, "UPDATE", graph.node[m])
<1>0. graph \in Graphs /\ m \in DOMAIN graph.node /\ clock \in Nat
  BY Basics DEF Base, TypeOK, UpdateNode
<1>1. /\ Write /\ UNCHANGED <<born, horizon>> /\ Log(<<e>>)
      /\ graph' = [graph EXCEPT !.node[m].version = v]
  BY DEF UpdateNode
<1>2. /\ [graph EXCEPT !.node[m].version = v] = [node |-> f, link |-> graph.link, bridge |-> graph.bridge]
      /\ f \in Tables(Node, Row) /\ DOMAIN f = DOMAIN graph.node
  BY <1>0, WithVersion
<1>3. graph'.node = f
  BY <1>1, <1>2
<1>4. clock' = clock /\ born' = born
  BY <1>1 DEF Write
<1>5. e.table = "node" /\ e.row = m /\ e.op = "UPDATE" /\ e.at = clock /\ e.before = graph.node[m]
  BY DEF Entry
<1>6. \A n : n # m => (n \in DOMAIN f <=> n \in DOMAIN graph.node) /\ (n \in DOMAIN f => f[n] = graph.node[n])
  BY <1>2
<1> HIDE DEF e, f, row
<1>7. Len(<<e>>) = 1 /\ <<e>>[1] = e
  OBVIOUS
<1>8. Writes(<<e>>) /\ BornNow
  BY <1>1, <1>4, <1>7 DEF Writes, BornNow
<1>9. Gone(<<e>>)
  BY <1>2, <1>3 DEF Gone
<1>10. Same
  <2> SUFFICES ASSUME NEW t \in 1..(clock - 1), NEW n \in DOMAIN born, born[n] <= t
               PROVE  Alike(Replayed(t)'.node, Replayed(t).node, n)
    BY DEF Same
  <2>1. CASE n # m
    <3>1. Alike(graph'.node, graph.node, n)
      BY <1>3, <1>6, <2>1 DEF Alike
    <3>2. \A i \in 1..Len(<<e>>) : ~ About(<<e>>[i], n)
      BY <1>5, <1>7, <2>1 DEF About
    <3> QED
      BY <1>8, <3>1, <3>2, WriteElsewhere
  <2>2. CASE n = m
    <3>1. /\ m \in DOMAIN UndoneNodes(e, f) <=> m \in DOMAIN f
          /\ m \in DOMAIN f => UndoneNodes(e, f)[m] = e.before
      BY <1>2, <1>5, UndoneUpdate DEF About
    <3>2. Alike(UndoneNodes(<<e>>[1], graph'.node), graph.node, n)
      BY <1>0, <1>2, <1>3, <1>5, <1>7, <2>2, <3>1 DEF Alike
    <3>3. t \in Nat /\ t < clock
      BY <1>0
    <3>4. Len(<<e>>) # 0 /\ (<<e>>[1]).at = clock /\ \A i \in 2..Len(<<e>>) : ~ About(<<e>>[i], n)
      BY <1>5, <1>7
    <3> QED
      BY <1>8, <3>2, <3>3, <3>4, WriteOwn
  <2> QED
    BY <2>1, <2>2
<1> QED
  BY <1>1, <1>8, <1>9, <1>10, WriteMemory

\* An INSERT is of a node born now, which no second of the past is about.
LEMMA CreateNodeMemory ==
  ASSUME Base, Base', Memory, NEW m \in Node, NEW v \in Version, CreateNode(m, v)
  PROVE  Memory'
<1> DEFINE row == [version |-> v, at |-> clock]
           f == Ignoring(graph.node, Single(m, row))
           e == Entry("node", m, "INSERT", 0)
           c == Ignoring(born, Single(m, clock))
<1>0. /\ graph = [node |-> graph.node, link |-> graph.link, bridge |-> graph.bridge]
      /\ clock \in Nat
  BY Basics, GraphParts DEF Base, TypeOK
<1>1. /\ Write /\ UNCHANGED horizon /\ Log(<<e>>) /\ born' = c
      /\ graph' = [graph EXCEPT !.node = f] /\ m \notin DOMAIN born
  BY DEF CreateNode
<1>2. e.table = "node" /\ e.row = m
  BY DEF Entry
<1>3. DOMAIN Single(m, clock) = {m} /\ Single(m, clock)[m] = clock
  BY SingleKey
<1>4. DOMAIN Single(m, row) = {m}
  BY SingleKey
<1>5. DOMAIN c = DOMAIN born \cup {m}
  BY <1>3, IgnoringKeys
<1>6. \A n \in DOMAIN born \cup {m} : c[n] = IF n \in DOMAIN born THEN born[n] ELSE Single(m, clock)[n]
  BY <1>3, IgnoringRow
<1>7. DOMAIN f = DOMAIN graph.node \cup {m}
  BY <1>4, IgnoringKeys
<1>8. \A n \in DOMAIN graph.node \cup {m} : n \in DOMAIN graph.node => f[n] = graph.node[n]
  BY <1>4, IgnoringRow
<1> HIDE DEF e, f, c, row
<1>9. graph'.node = f
  BY <1>0, <1>1
<1>10. Len(<<e>>) = 1 /\ <<e>>[1] = e
  OBVIOUS
<1>11. Writes(<<e>>)
  BY <1>1, <1>5, <1>6, <1>10 DEF Writes, Write
<1>12. BornNow
  BY <1>1, <1>3, <1>5, <1>6 DEF BornNow
<1>13. Gone(<<e>>)
  BY <1>7, <1>9 DEF Gone
<1>14. Same
  <2> SUFFICES ASSUME NEW t \in 1..(clock - 1), NEW n \in DOMAIN born, born[n] <= t
               PROVE  Alike(Replayed(t)'.node, Replayed(t).node, n)
    BY DEF Same
  <2>1. n # m
    BY <1>1
  <2>2. Alike(graph'.node, graph.node, n)
    BY <1>7, <1>8, <1>9, <2>1 DEF Alike
  <2>3. \A i \in 1..Len(<<e>>) : ~ About(<<e>>[i], n)
    BY <1>2, <1>10, <2>1 DEF About
  <2> QED
    BY <1>11, <2>2, <2>3, WriteElsewhere
<1> QED
  BY <1>1, <1>11, <1>12, <1>13, <1>14, WriteMemory

\* A DELETE undone puts the row back; the links' entries come after and do not touch the node.
LEMMA RemoveNodeMemory ==
  ASSUME Base, Base', Memory, NEW m \in Node, RemoveNode(m)
  PROVE  Memory'
<1> DEFINE L == Touching(graph.link, {m})
           D == {Entry("link", l, "DELETE", graph.link[l]) : l \in L}
           e == Entry("node", m, "DELETE", graph.node[m])
           es == Removal(m)
           f == Without(graph.node, {m})
<1>0. TypeOK /\ Births /\ graph \in Graphs /\ clock \in Nat
  BY Basics DEF Base
<1>1. /\ Write /\ UNCHANGED <<born, horizon>> /\ Log(es)
      /\ graph' = DeleteNodes(graph, {m})
  BY DEF RemoveNode, Removal
<1>2. graph'.node = f
  BY <1>0, <1>1, NodesDeleted
<1>3. DOMAIN f = DOMAIN graph.node \ {m}
  BY WithoutKeys
<1>4. \A n \in DOMAIN graph.node \ {m} : f[n] = graph.node[n]
  BY WithoutRow
<1>5. clock' = clock /\ born' = born
  BY <1>1 DEF Write
<1>6. e.table = "node" /\ e.row = m /\ e.op = "DELETE" /\ e.at = clock /\ e.before = graph.node[m]
  BY DEF Entry
<1>7. L \in SUBSET (DOMAIN graph.link)
  BY DEF Touching
<1>8. /\ Written(Deletions(L), born, clock) /\ Deletions(L) \in Seq(D)
      /\ \A i \in 1..Len(Deletions(L)) : Deletions(L)[i] \in D
  <2> HIDE DEF L
  <2> QED
    BY <1>0, <1>7, DeletionsWritten
<1>9. \A d \in D : d.table = "link"
  BY DEF Entry
<1>10. Len(es) \in Nat
  BY <1>0, RemovalWritten DEF Written
<1>11. m \in DOMAIN graph.node =>
         /\ Len(es) # 0 /\ es[1] = e
         /\ \A i \in 2..Len(es) : es[i].table = "link"
  <2> SUFFICES ASSUME m \in DOMAIN graph.node
               PROVE  /\ Len(es) # 0 /\ es[1] = e
                      /\ \A i \in 2..Len(es) : es[i].table = "link"
    OBVIOUS
  <2> DEFINE ds == Deletions(L)
  <2>1. es = <<e>> \o ds
    BY DEF Removal
  <2>2. Fits(e, born) /\ e.at = clock
    <3>1. graph.node[m] \in Row
      BY <1>0, Basics, TableRows
    <3> QED
      BY <1>0, <1>6, <3>1 DEF Fits, Births, Dated
  <2>3. ds \in Seq(D) /\ Written(ds, born, clock) /\ Len(ds) \in Nat
    BY <1>8 DEF Written
  <2>4. \A i \in 1..Len(ds) : ds[i].table = "link"
    BY <1>8, <1>9
  <2> HIDE DEF e, es, ds, D, L
  <2>5. /\ Len(<<e>> \o ds) = Len(ds) + 1 /\ (<<e>> \o ds)[1] = e
        /\ \A i \in 2..(Len(ds) + 1) : (<<e>> \o ds)[i] = ds[i - 1]
    BY <2>2, <2>3, WrittenBefore
  <2>6. \A i \in 2..Len(es) : es[i].table = "link"
    <3> SUFFICES ASSUME NEW i \in 2..Len(es) PROVE es[i].table = "link"
      OBVIOUS
    <3>1. i - 1 \in 1..Len(ds) /\ i \in 2..(Len(ds) + 1)
      BY <2>1, <2>3, <2>5
    <3> QED
      BY <2>1, <2>4, <2>5, <3>1
  <2> QED
    BY <2>1, <2>3, <2>5, <2>6
<1>12. m \notin DOMAIN graph.node => Len(es) = 0
  BY DEF Removal
<1> HIDE DEF e, es, L, D, f
<1>13. Writes(es) /\ BornNow
  BY <1>1, <1>5, <1>10 DEF Writes, BornNow
<1>14. Gone(es)
  BY <1>2, <1>3, <1>6, <1>10, <1>11 DEF Gone, About
<1>15. Same
  <2> SUFFICES ASSUME NEW t \in 1..(clock - 1), NEW n \in DOMAIN born, born[n] <= t
               PROVE  Alike(Replayed(t)'.node, Replayed(t).node, n)
    BY DEF Same
  <2>1. CASE n # m \/ m \notin DOMAIN graph.node
    <3>1. Alike(graph'.node, graph.node, n)
      BY <1>2, <1>3, <1>4, <2>1 DEF Alike
    <3>2. \A i \in 1..Len(es) : ~ About(es[i], n)
      <4> SUFFICES ASSUME NEW i \in 1..Len(es) PROVE ~ About(es[i], n)
        OBVIOUS
      <4>1. m \in DOMAIN graph.node /\ n # m
        BY <1>12, <2>1
      <4>2. CASE i = 1
        BY <1>6, <1>11, <4>1, <4>2 DEF About
      <4>3. CASE i # 1
        BY <1>10, <1>11, <4>1, <4>3 DEF About
      <4> QED
        BY <4>2, <4>3
    <3> QED
      BY <1>13, <3>1, <3>2, WriteElsewhere
  <2>2. CASE n = m /\ m \in DOMAIN graph.node
    <3>1. /\ n \in DOMAIN UndoneNodes(e, f)
          /\ UndoneNodes(e, f)[n] = IF n \in DOMAIN f THEN f[n] ELSE e.before
      BY <1>6, <2>2, UndoneDelete DEF About
    <3>2. Alike(UndoneNodes(es[1], graph'.node), graph.node, n)
      BY <1>2, <1>3, <1>6, <1>11, <2>2, <3>1 DEF Alike
    <3>3. t \in Nat /\ t < clock
      BY <1>0
    <3>4. Len(es) # 0 /\ (es[1]).at = clock /\ \A i \in 2..Len(es) : ~ About(es[i], n)
      BY <1>6, <1>11, <2>2 DEF About
    <3> QED
      BY <1>13, <3>2, <3>3, <3>4, WriteOwn
  <2> QED
    BY <2>1, <2>2
<1> QED
  BY <1>1, <1>13, <1>14, <1>15, WriteMemory

\* Steps that leave the graph and its journal alone.
LEMMA StillMemory ==
  ASSUME Base, Memory, UNCHANGED <<graph, log, born, clock, past, undone, horizon>>,
         \/ UNCHANGED rb \/ rb'.pc \notin {"links", "replay"} \/ rb' = IdleRollback
         \/ DOMAIN rb'.node \subseteq DOMAIN graph.node
         \/ rb'.node = rb.node /\ rb'.target = rb.target /\ rb.pc \in {"links", "replay"}
  PROVE  Memory'
<1>1. PastDated /\ Recalled /\ ReExported
  BY DEF Memory
<1>2. PastDated'
  BY <1>1 DEF PastDated
<1>3. Recalled'
  BY <1>1 DEF Recalled, Replayed, Restorable, log
<1>4. ReExported'
  BY <1>1 DEF ReExported, DeletedLater, log, IdleRollback
<1> QED
  BY <1>2, <1>3, <1>4 DEF Memory

\* A second that ends: nothing is later, and the replay to it is the graph.
LEMMA TickMemory ==
  ASSUME Base, Base', Memory, Tick
  PROVE  Memory'
<1>0. TypeOK /\ Births /\ Logged
  BY DEF Base
<1>1. /\ clock' = clock + 1 /\ past' = Append(past, graph)
      /\ UNCHANGED <<graph, journal, lastId, rb, born, undone, horizon>>
  BY DEF Tick, database, log
<1>2. clock \in Nat \ {0} /\ graph \in Graphs /\ born \in Tables(Node, 1..clock)
  BY <1>0, Basics
<1>3. past \in Seq(Graphs) /\ Len(past) = clock - 1
  <2>1. past \in [1..(clock - 1) -> Graphs] /\ clock - 1 \in Nat
    BY <1>0, <1>2 DEF TypeOK
  <2> QED
    BY <2>1
<1>4. \A t \in 1..(clock - 1) : past'[t] = past[t]
  BY <1>1, <1>2, <1>3
<1>5. past'[clock] = graph
  <2>1. clock = Len(past) + 1
    BY <1>2, <1>3
  <2> QED
    BY <1>1, <1>2, <1>3, <2>1
<1>9. 1..(clock' - 1) = 1..clock
  BY <1>1, <1>2
<1> DEFINE pp == past'
<1>10. \A t : Replayed(t)' = Replayed(t)
  BY <1>1 DEF Replayed
<1>11. \A t : Restorable(t)' <=> Restorable(t)
  BY <1>1 DEF Restorable
<1>6. PastDated'
  <2> SUFFICES ASSUME NEW t \in 1..clock
               PROVE  Dated(pp[t].node, born) /\ \A n \in DOMAIN pp[t].node : born[n] <= t
    BY <1>1, <1>9 DEF PastDated
  <2>1. CASE t = clock
    <3>1. Dated(graph.node, born)
      BY <1>0 DEF Births
    <3>2. \A n \in DOMAIN born : born[n] <= clock
      BY <1>2, TableRows
    <3> QED
      BY <1>5, <2>1, <3>1, <3>2 DEF Dated
  <2>2. CASE t # clock
    <3>1. t \in 1..(clock - 1)
      BY <1>2, <2>2
    <3> QED
      BY <1>4, <3>1 DEF Memory, PastDated
  <2> QED
    BY <2>1, <2>2
<1>7. Recalled'
  <2> SUFFICES ASSUME NEW t \in 1..clock, NEW n \in DOMAIN born, Restorable(t), born[n] <= t
               PROVE  Alike(Replayed(t).node, pp[t].node, n)
    BY <1>1, <1>9, <1>10, <1>11 DEF Recalled
  <2>1. CASE t = clock
    <3>1. PICK s : Stages(s, journal, lastId, graph, t) /\ Replay(journal, lastId, graph, t) = s[0]
      BY <1>0, Basics, ReplayStages
    <3>2. Quiet(journal, t, 0, lastId)
      <4>1. \A k \in DOMAIN journal : journal[k].at \in 1..clock
        BY <1>0 DEF TypeOK
      <4> QED
        BY <1>2, <2>1, <4>1 DEF Quiet, Later
    <3>3. lastId \in Nat /\ lastId \in 0..lastId /\ 0 \in 0..lastId /\ 0 <= lastId
      BY <1>0, Basics
    <3>4. \A k \in 0..lastId : s[k] = s[lastId]
      BY <3>1, <3>2, <3>3, StagesStill
    <3>5. Replayed(t) = graph
      BY <3>1, <3>3, <3>4 DEF Stages, Replayed
    <3> QED
      BY <1>5, <2>1, <3>5 DEF Alike
  <2>2. CASE t # clock
    <3>1. t \in 1..(clock - 1)
      BY <1>2, <2>2
    <3> QED
      BY <1>4, <3>1 DEF Memory, Recalled
  <2> QED
    BY <2>1, <2>2
<1>8. ReExported'
  BY <1>1 DEF Memory, ReExported, DeletedLater
<1> QED
  BY <1>6, <1>7, <1>8 DEF Memory

\* Pruning up to u keeps every entry that a replay to a second from u - 1 on needs.
LEMMA PruneMemory ==
  ASSUME Base, Base', Memory, NEW u \in (horizon + 1)..(clock + 1), Prune(u)
  PROVE  Memory'
<1> DEFINE S == {k \in DOMAIN journal : journal[k].at < u}
           jr == Without(journal, S)
<1>0. /\ TypeOK /\ Births /\ Logged /\ Exported /\ clock \in Nat /\ horizon \in Nat /\ lastId \in Nat
      /\ DOMAIN journal \subseteq 1..lastId
      /\ \A k \in DOMAIN journal : journal[k].at \in Nat
  <2>1. TypeOK /\ Births /\ Logged /\ Exported
    BY DEF Base
  <2> QED
    BY <2>1, Basics DEF TypeOK
<1>1. /\ UNCHANGED <<graph, lastId, born, rb, clock, past, undone>> /\ horizon' = u /\ journal' = jr
  BY DEF Prune, Write
<1>2. DOMAIN jr = DOMAIN journal \ S
  BY WithoutKeys
<1>3. \A k \in DOMAIN journal \ S : jr[k] = journal[k]
  BY WithoutRow
<1>4. u \in Nat /\ horizon < u
  BY <1>0
<1> HIDE DEF jr
<1>5. \A t \in Nat : u <= t + 1 =>
        \A k : /\ k \in Later(journal, t) <=> k \in Later(jr, t)
               /\ k \in Later(journal, t) => journal[k] = jr[k]
  BY <1>0, <1>2, <1>3, <1>4 DEF Later
<1> HIDE DEF S
<1>6. PastDated'
  BY <1>1 DEF Memory, PastDated
<1>7. Recalled'
  <2> SUFFICES ASSUME NEW t \in 1..(clock - 1), NEW n \in DOMAIN born, t \notin undone, u <= t + 1,
                      born[n] <= t
               PROVE  Alike(Replay(jr, lastId, graph, t).node, past[t].node, n)
    BY <1>1 DEF Recalled, Restorable, Replayed
  <2>1. t \in Nat /\ horizon <= t + 1
    BY <1>0, <1>4
  <2>2. Agree(jr, t, journal, t, lastId)
    BY <1>5, <2>1 DEF Agree
  <2>3. PICK s : Stages(s, journal, lastId, graph, t) /\ Replay(journal, lastId, graph, t) = s[0]
    BY <1>0, ReplayStages
  <2>4. Replay(jr, lastId, s[lastId], t) = s[0]
    BY <1>0, <2>2, <2>3, ReplayFrom
  <2>5. Replay(jr, lastId, graph, t) = Replayed(t)
    BY <2>3, <2>4 DEF Replayed, Stages
  <2>6. Alike(Replayed(t).node, past[t].node, n)
    BY <2>1 DEF Memory, Recalled, Restorable
  <2> QED
    BY <2>5, <2>6
<1>8. ReExported'
  <2> SUFFICES ASSUME rb.pc \in {"links", "replay"}, u <= rb.target + 1, NEW n \in DOMAIN rb.node,
                      ~ (born[n] > rb.target), n \notin DOMAIN graph.node
               PROVE  \E k \in Later(jr, rb.target) : About(jr[k], n) /\ jr[k].op = "DELETE"
    BY <1>1 DEF ReExported, DeletedLater
  <2>1. rb.target \in Nat /\ horizon <= rb.target + 1
    BY <1>0, <1>4 DEF TypeOK, Rollbacks, Time
  <2>2. PICK k \in Later(journal, rb.target) : About(journal[k], n) /\ journal[k].op = "DELETE"
    BY <2>1 DEF Memory, ReExported, DeletedLater
  <2>3. k \in Later(jr, rb.target) /\ journal[k] = jr[k]
    BY <1>5, <2>1, <2>2
  <2> QED
    BY <2>2, <2>3
<1> QED
  BY <1>6, <1>7, <1>8 DEF Memory

\* The nodes after the cleanup are those that the replay brought back and that were born
\* by the target second.
LEMMA CleanedNodes ==
  ASSUME Base, NEW t \in Nat
  PROVE  LET C == Cleanup(Replayed(t), t).node
             R == Replayed(t).node
         IN /\ C \in Tables(Node, Row)
            /\ \A n : n \in DOMAIN C <=> n \in DOMAIN R /\ born[n] <= t
            /\ \A n \in DOMAIN C : C[n] = R[n]
<1> DEFINE G == Replayed(t)
           C == Cleanup(G, t)
           R == G.node
<1>1. G \in Graphs /\ Dated(R, born)
  BY RolledBackGraph
<1>2. born \in Tables(Node, Nat)
  BY Basics DEF Base
<1> HIDE DEF G
<1>3. C \in Graphs /\ C.node = Without(R, NewerNodes(R, t))
  BY <1>1, CleanupGraph
<1>4. DOMAIN Without(R, NewerNodes(R, t)) = DOMAIN R \ NewerNodes(R, t)
  BY WithoutKeys
<1>5. \A n \in DOMAIN R \ NewerNodes(R, t) : Without(R, NewerNodes(R, t))[n] = R[n]
  BY WithoutRow
<1>6. \A n \in DOMAIN R : n \in NewerNodes(R, t) <=> ~ (born[n] <= t)
  <2> SUFFICES ASSUME NEW n \in DOMAIN R PROVE n \in NewerNodes(R, t) <=> ~ (born[n] <= t)
    OBVIOUS
  <2>1. n \in DOMAIN born /\ R[n].at = born[n]
    BY <1>1 DEF Dated
  <2>2. born[n] \in Nat
    BY <1>2, <2>1, TableRows
  <2> QED
    BY <2>1, <2>2 DEF NewerNodes
<1>7. C.node \in Tables(Node, Row)
  BY <1>3, GraphParts
<1> HIDE DEF C, R
<1>8. \A n : n \in DOMAIN C.node <=> n \in DOMAIN R /\ born[n] <= t
  BY <1>3, <1>4, <1>6
<1>9. \A n \in DOMAIN C.node : C.node[n] = R[n]
  BY <1>3, <1>4, <1>5
<1> QED
  BY <1>7, <1>8, <1>9 DEF C, R, G

\* An exported node of the target second is among those the replay brings back.
LEMMA ExportedReplayed ==
  ASSUME Base, Memory, rb.pc = "replay", horizon <= rb.target + 1, NEW n \in DOMAIN rb.node,
         born[n] <= rb.target
  PROVE  n \in DOMAIN Replayed(rb.target).node
<1> DEFINE t == rb.target
<1>0. TypeOK /\ Births /\ Logged
  BY DEF Base
<1>1. /\ born \in Tables(Node, Nat) /\ graph \in Graphs /\ lastId \in Nat /\ t \in Nat
      /\ Dated(graph.node, born) /\ n \in DOMAIN born /\ born[n] \in Nat
  <2>1. born \in Tables(Node, Nat) /\ graph \in Graphs /\ lastId \in Nat
    BY <1>0, Basics
  <2>2. t \in Nat
    BY <1>0, JournalAssumption DEF TypeOK, Rollbacks, Time
  <2>3. Dated(graph.node, born) /\ n \in DOMAIN born
    BY <1>0 DEF Births, Dated
  <2>4. born[n] \in Nat
    BY <2>1, <2>3, TableRows
  <2> QED
    BY <2>1, <2>2, <2>3, <2>4
<1>2. Fitting(journal, born) /\ DOMAIN journal \subseteq 1..lastId
  BY <1>0 DEF Logged, Kept
<1>3. n \in DOMAIN graph.node \/ DeletedLater(n, t)
  BY <1>1 DEF Memory, ReExported
<1>4. NoInsert(journal, t, n)
  <2> SUFFICES ASSUME NEW k \in Later(journal, t), About(journal[k], n), journal[k].op = "INSERT"
               PROVE  FALSE
    BY DEF NoInsert
  <2>1. Fits(journal[k], born) /\ journal[k].at > t
    BY <1>2 DEF Fitting, Later
  <2>2. journal[k].at = born[n]
    BY <2>1 DEF Fits, About
  <2> QED
    BY <1>1, <2>1, <2>2
<1> HIDE DEF t
<1>5. PICK s : Stages(s, journal, lastId, graph, t) /\ Replay(journal, lastId, graph, t) = s[0]
  BY <1>1, ReplayStages
<1>6. Recoverable(journal, t, graph, n, 0)
  <2>1. \A k \in Later(journal, t) : k > 0
    BY <1>1, <1>2 DEF Later
  <2> QED
    BY <1>3, <2>1 DEF Recoverable, DeletedLater
<1>7. \A k \in 0..lastId : Recoverable(journal, t, graph, n, k) => n \in DOMAIN s[k].node
  BY <1>1, <1>2, <1>4, <1>5, StagesRecover
<1>8. n \in DOMAIN s[0].node
  BY <1>1, <1>6, <1>7
<1> QED
  BY <1>5, <1>8 DEF Replayed, t

\* After a rollback to u, a replay to an earlier t is what it was: a replay to t goes by way of u,
\* and the cleanup and the exported rows change no node born by t.
LEMMA CommitMemory ==
  ASSUME Base, Base', Memory, Commit
  PROVE  Memory'
<1> DEFINE u == rb.target
           R == Replayed(u)
           C == Cleanup(R, u)
           kept == Without(journal, Later(journal, u))
           G == RolledBack(u)
<1>0. TypeOK /\ Births /\ Logged /\ Exported /\ clock \in Nat
  BY Basics DEF Base
<1>1. /\ rb' = IdleRollback /\ journal' = kept /\ graph' = G
      /\ undone' = undone \cup {s \in Time : u < s /\ s < clock}
      /\ UNCHANGED <<lastId, clock, born, past, horizon>>
      /\ rb.pc = "replay"
  BY DEF Commit
<1>2. u \in Nat /\ u \in Time
  BY <1>0, JournalAssumption DEF TypeOK, Rollbacks, Time
<1>3. PastDated'
  BY <1>1 DEF Memory, PastDated
<1>4. ReExported'
  BY <1>1 DEF ReExported, IdleRollback
<1>5. /\ R \in Graphs /\ Dated(R.node, born) /\ C \in Graphs
      /\ G \in Graphs /\ Dated(G.node, born)
      /\ G.node = Ignoring(C.node, rb.node)
  BY RolledBackGraph
<1>6. /\ \A n : n \in DOMAIN C.node <=> n \in DOMAIN R.node /\ born[n] <= u
      /\ \A n \in DOMAIN C.node : C.node[n] = R.node[n]
  BY <1>2, CleanedNodes
<1>7. /\ Fitting(journal, born) /\ DOMAIN journal \subseteq 1..lastId /\ Ordered(journal)
      /\ Timed(journal) /\ lastId \in Nat /\ born \in Tables(Node, Nat)
  BY <1>0, Basics DEF Logged, Kept, Timed
<1>8. Fitting(kept, born)
  <2>1. Kept(journal, lastId, born, clock)
    BY <1>0 DEF Logged
  <2>2. Kept(kept, lastId, born, clock)
    BY <2>1, WithoutKept
  <2> QED
    BY <2>2 DEF Kept
<1>9. Recalled'
  <2>1. \A t : Replayed(t)' = Replay(kept, lastId, G, t)
    BY <1>1 DEF Replayed
  <2> SUFFICES ASSUME NEW t \in 1..(clock - 1), NEW n \in DOMAIN born, born[n] <= t,
                      t \notin undone, ~ (u < t), horizon <= t + 1
               PROVE  Alike(Replay(kept, lastId, G, t).node, past[t].node, n)
    <3> HIDE DEF G, kept, u
    <3>1. \A t \in 1..(clock - 1) : t \in Time /\ t < clock
      <4>1. clock \in 1..MaxTime /\ MaxTime \in Nat
        BY <1>0, JournalAssumption DEF TypeOK, Time
      <4> QED
        BY <4>1 DEF Time
    <3>2. \A t \in 1..(clock - 1) : Restorable(t)' => t \notin undone /\ ~ (u < t) /\ horizon <= t + 1
      BY <1>1, <3>1 DEF Restorable
    <3> QED
      BY <1>1, <2>1, <3>2 DEF Recalled
  <2>2. t \in Nat /\ t <= u
    BY <1>2
  <2>3. born[n] \in Nat
    BY <1>7, TableRows
  <2>4. horizon \in Nat
    BY <1>0 DEF TypeOK
  <2>5. born[n] <= u /\ horizon <= u + 1
    BY <1>2, <2>2, <2>3, <2>4
  <2>6. n \in DOMAIN rb.node => n \in DOMAIN R.node
    BY <1>1, <2>5, ExportedReplayed
  <2>7. Alike(G.node, R.node, n)
    <3>1. DOMAIN Ignoring(C.node, rb.node) = DOMAIN C.node \cup DOMAIN rb.node
      BY IgnoringKeys
    <3>2. n \in DOMAIN C.node => Ignoring(C.node, rb.node)[n] = C.node[n]
      BY IgnoringRow
    <3> HIDE DEF C, R, G
    <3> QED
      BY <1>5, <1>6, <2>5, <2>6, <3>1, <3>2 DEF Alike
  <2>8. Replayed(t) = Replay(kept, lastId, R, t)
    <3>1. R = Replay(journal, lastId, graph, u)
      BY DEF Replayed
    <3> HIDE DEF R, u
    <3> QED
      BY <1>2, <1>7, <2>2, <3>1, ReplayTwice DEF Replayed
  <2>9. Alike(Replay(kept, lastId, G, t).node, Replay(kept, lastId, R, t).node, n)
    <3> HIDE DEF R, G, kept
    <3> QED
      BY <1>5, <1>7, <1>8, <2>7, ReplayAlike
  <2>10. Alike(Replayed(t).node, past[t].node, n)
    BY DEF Memory, Recalled, Restorable
  <2> HIDE DEF R, G, kept
  <2> QED
    BY <2>8, <2>9, <2>10 DEF Alike
<1> QED
  BY <1>3, <1>4, <1>9 DEF Memory

\* What a rollback brings back.
LEMMA RestoresNodesStep ==
  ASSUME Base, Memory, Commit, Restorable(rb.target)
  PROVE  graph'.node = Ignoring(past[rb.target].node, rb.node)
<1> DEFINE u == rb.target
           R == Replayed(u).node
           C == Cleanup(Replayed(u), u).node
           P == past[u].node
<1>0. TypeOK /\ Exported /\ rb.pc = "replay" /\ graph' = RolledBack(u) /\ clock \in Nat
  BY Basics DEF Base, Commit
<1>1. u \in Nat /\ u \in 1..(clock - 1)
  BY <1>0, JournalAssumption DEF TypeOK, Rollbacks, Time, Exported
<1>2. RolledBack(u).node = Ignoring(C, rb.node)
  BY RolledBackGraph
<1>3. Dated(R, born)
  BY RolledBackGraph
<1>4. /\ C \in Tables(Node, Row)
      /\ \A n : n \in DOMAIN C <=> n \in DOMAIN R /\ born[n] <= u
      /\ \A n \in DOMAIN C : C[n] = R[n]
  BY <1>1, CleanedNodes
<1>5. Dated(P, born) /\ \A n \in DOMAIN P : born[n] <= u
  BY <1>1 DEF Memory, PastDated
<1>6. \A n \in DOMAIN born : born[n] <= u => Alike(R, P, n)
  BY <1>1 DEF Memory, Recalled
<1>7. P \in Tables(Node, Row)
  BY <1>0, <1>1, GraphParts DEF TypeOK
<1> HIDE DEF C, P, R, u
<1>8. DOMAIN C = DOMAIN P
  BY <1>3, <1>4, <1>5, <1>6 DEF Alike, Dated
<1>9. \A n \in DOMAIN C : C[n] = P[n]
  BY <1>3, <1>4, <1>5, <1>6, <1>8 DEF Alike, Dated
<1>10. C = [n \in DOMAIN C |-> C[n]] /\ P = [n \in DOMAIN P |-> P[n]]
  BY <1>4, <1>7, TableRows
<1>11. C = P
  BY <1>8, <1>9, <1>10
<1> QED
  BY <1>0, <1>2, <1>11 DEF P, u

\* The beginning: no entry is about a node of the first second.
LEMMA InitMemory ==
  ASSUME Init
  PROVE  Memory
<1>1. PICK old, new : Beginning(old, new)
  BY InitBegins
<1>2. clock = 2 /\ rb = IdleRollback /\ Base
  BY InitKeeps DEF Init
<1>3. /\ graph \in Graphs /\ DOMAIN graph.node = old \cup new
      /\ \A n \in old : graph.node[n] = RowsAt(old, 1)[n] /\ graph.node[n].at = 1
      /\ \A n \in new : graph.node[n].at = 2
      /\ past = <<[node |-> RowsAt(old, 1), link |-> OldLinks(old, new), bridge |-> NoRows]>>
      /\ born \in Tables(Node, 1..2) /\ DOMAIN born = old \cup new
      /\ \A n \in old \cup new : born[n] = graph.node[n].at
  BY <1>1, FirstGraphs
<1>4. /\ lastId \in Nat /\ DOMAIN journal = 1..lastId
      /\ \A k \in 1..lastId : journal[k] \in NodeEntries(new) \cup LinkEntries(old, new)
  BY <1>1, FirstEntries
<1>5. old \in SUBSET Node /\ new \in SUBSET Node /\ old \cap new = {} /\ 1 \in Time
  BY <1>1, JournalAssumption DEF Beginning, Time
<1>6. DOMAIN RowsAt(old, 1) = old /\ \A n \in old : RowsAt(old, 1)[n].at = 1
  BY <1>5, RowsAtTable
<1>7. past[1].node = RowsAt(old, 1) /\ 1..(clock - 1) = {1}
  BY <1>2, <1>3
<1>8. PastDated
  BY <1>3, <1>6, <1>7 DEF PastDated, Dated
<1>9. Recalled
  <2> SUFFICES ASSUME NEW n \in DOMAIN born, born[n] <= 1
               PROVE  Alike(Replayed(1).node, past[1].node, n)
    BY <1>7 DEF Recalled
  <2>1. n \in old /\ n \notin new
    BY <1>3, <1>5
  <2>2. \A k \in 1..lastId : ~ About(journal[k], n)
    <3> SUFFICES ASSUME NEW k \in 1..lastId PROVE ~ About(journal[k], n)
      OBVIOUS
    <3>1. CASE journal[k] \in NodeEntries(new)
      BY <2>1, <3>1 DEF NodeEntries, FirstEntry, About
    <3>2. CASE journal[k] \in LinkEntries(old, new)
      BY <3>2 DEF LinkEntries, FirstEntry, About
    <3> QED
      BY <1>4, <3>1, <3>2
  <2>3. PICK s : Stages(s, journal, lastId, graph, 1) /\ Replay(journal, lastId, graph, 1) = s[0]
    BY <1>4, ReplayStages
  <2>4. born \in Tables(Node, Nat) /\ Fitting(journal, born) /\ Dated(graph.node, born)
    BY <1>2, Basics DEF Base, Births, Logged, Kept
  <2>5. \A k \in (0 + 1)..lastId : k \in Later(journal, 1) => ~ About(journal[k], n)
    BY <2>2
  <2>6. \A k \in 0..lastId : Alike(s[k].node, graph.node, n)
    <3>1. 0 \in Nat
      OBVIOUS
    <3> QED
      BY <1>3, <1>4, <2>3, <2>4, <2>5, <3>1, StagesElsewhere
  <2>7. Alike(s[0].node, graph.node, n)
    BY <1>4, <2>6
  <2> QED
    BY <1>3, <1>6, <1>7, <2>1, <2>3, <2>7 DEF Alike, Replayed
<1>10. ReExported
  BY <1>2 DEF ReExported, IdleRollback
<1> QED
  BY <1>8, <1>9, <1>10 DEF Memory

\* Whatever step is taken.
LEMMA NextMemory ==
  ASSUME Base, Memory, [Next]_vars
  PROVE  Memory'
<1>0. Base'
  BY NextKeeps
<1>s. ASSUME UNCHANGED <<graph, log, born, clock, past, undone, horizon, rb>> PROVE Memory'
  BY <1>s, StillMemory
<1>1. CASE Tick
  BY <1>0, <1>1, TickMemory
<1>2. ASSUME NEW n \in Node, WriteNode(n) PROVE Memory'
  <2>1. ASSUME NEW v \in Version, CreateNode(n, v) \/ UpdateNode(n, v) PROVE Memory'
    BY <1>0, <2>1, CreateNodeMemory, UpdateNodeMemory
  <2>2. CASE RemoveEdges(n) \/ RemoveNode(n)
    BY <1>0, <2>2, RemoveEdgesMemory, RemoveNodeMemory
  <2>3. CASE RemovalFails(n) \/ Enqueue(n) \/ ClaimOrRelease(n) \/ Pin(n) \/ Unpin(n)
    <3>1. UNCHANGED <<graph, log, born, clock, past, undone, horizon, rb>>
      BY <2>3 DEF RemovalFails, Enqueue, ClaimOrRelease, Pin, Unpin, Write, database, history
    <3> QED
      BY <1>s, <3>1
  <2> QED
    BY <1>2, <2>1, <2>2, <2>3 DEF WriteNode
<1>3. ASSUME NEW l \in Link, CreateEdge(l) PROVE Memory'
  BY <1>0, <1>3, LinksMemory
<1>4. ASSUME NEW b \in Bridge, CreateBridge(b) \/ DeleteBridge(b) PROVE Memory'
  BY <1>0, <1>4, BridgesMemory
<1>5. ASSUME NEW t \in (horizon + 1)..(clock + 1), Prune(t) PROVE Memory'
  BY <1>0, <1>5, PruneMemory
<1>6. CASE Rollback
  <2>0. ASSUME UNCHANGED <<database, clock, history>>
        PROVE  UNCHANGED <<graph, log, born, clock, past, undone, horizon>>
    BY <2>0 DEF database, history
  <2>t. rb \in [pc : {"idle", "walk", "nodes", "links", "replay"}, target : Time,
            ids : SUBSET Node, frontier : SUBSET Node,
            node : Tables(Node, Row), link : Tables(Link, Time), ops : 0..MaxOps]
    BY DEF Base, TypeOK, Rollbacks
  <2>1. ASSUME NEW t \in 1..(clock - 1), BeginRollback(t) PROVE Memory'
    <3>1. DOMAIN rb'.node \subseteq DOMAIN graph.node
      BY <2>1, NoRowsTable DEF BeginRollback, IdleRollback
    <3>2. UNCHANGED <<database, clock, history>>
      BY <2>1 DEF BeginRollback
    <3> QED
      BY <2>0, <3>1, <3>2, StillMemory
  <2>2. CASE WalkUp
    <3>1. rb'.pc \notin {"links", "replay"}
      BY <2>t, <2>2 DEF WalkUp
    <3>2. UNCHANGED <<database, clock, history>>
      BY <2>2 DEF WalkUp
    <3> QED
      BY <2>0, <3>1, <3>2, StillMemory
  <2>3. CASE ExportNodes
    <3>1. DOMAIN rb'.node \subseteq DOMAIN graph.node
      <4> DEFINE f == RowsOf(rb.ids)
      <4>1. DOMAIN f = rb.ids \cap DOMAIN graph.node
        BY DEF RowsOf, Restrict
      <4>2. rb' = [rb EXCEPT !.pc = "links", !.node = f]
        BY <2>3 DEF ExportNodes
      <4> HIDE DEF f
      <4>3. rb'.node = f
        BY <2>t, <4>2
      <4> QED
        BY <4>1, <4>3
    <3>2. UNCHANGED <<database, clock, history>>
      BY <2>3 DEF ExportNodes
    <3> QED
      BY <2>0, <3>1, <3>2, StillMemory
  <2>4. CASE ExportLinks
    <3>1. rb'.node = rb.node /\ rb'.target = rb.target /\ rb.pc \in {"links", "replay"}
      BY <2>t, <2>4 DEF ExportLinks
    <3>2. UNCHANGED <<database, clock, history>>
      BY <2>4 DEF ExportLinks
    <3> QED
      BY <2>0, <3>1, <3>2, StillMemory
  <2>5. CASE Commit
    BY <1>0, <2>5, CommitMemory
  <2>6. CASE RollbackFails
    <3>1. UNCHANGED <<database, clock, history>> /\ rb' = IdleRollback
      BY <2>6 DEF RollbackFails
    <3> QED
      BY <2>0, <3>1, StillMemory
  <2> QED
    BY <1>6, <2>1, <2>2, <2>3, <2>4, <2>5, <2>6 DEF Rollback
<1>7. CASE UNCHANGED vars
  <2>1. UNCHANGED <<graph, log, born, clock, past, undone, horizon, rb>>
    BY <1>7 DEF vars, database, history
  <2> QED
    BY <1>s, <2>1
<1> QED
  BY <1>1, <1>2, <1>3, <1>4, <1>5, <1>6, <1>7 DEF Next

\* Nodes are restored: a rollback to a second that the journal covers leaves exactly the nodes of the
\* end of that second, with what they held, and the exported ones.
THEOREM NodesRestored == Spec => RestoresNodes
<1>1. Init => Base /\ Memory
  BY InitKeeps, InitMemory
<1>2. Base /\ Memory /\ [Next]_vars => Base' /\ Memory'
  BY NextKeeps, NextMemory
<1>3. Base /\ Memory /\ [Next]_vars =>
        [Commit /\ Restorable(rb.target)
           => graph'.node = Ignoring(past[rb.target].node, rb.node)]_vars
  BY RestoresNodesStep
<1> QED
  BY <1>1, <1>2, <1>3, PTL DEF Spec, RestoresNodes

-----------------------------------------------------------------------------
(* What a replay brings back of links and bridges *)

\* Links and bridges: their tables, and the nodes a row is bound to.
Kind == {"link", "bridge"}
Rows(g, kind) == IF kind = "link" THEN g.link ELSE g.bridge
EndsOf(kind, x) == IF kind = "link" THEN Ends(x) ELSE {}
Removed(e, kind, x) == e.table = kind /\ e.row = x /\ e.op = "DELETE"

\* What undoing an entry in g, which makes h of it, does to a row: the row h has is the one
\* g had or the one before; a row stays unless the INSERT of a node it is bound to is undone;
\* one whose DELETE is undone comes back if its nodes are there.
UndoneRow(e, g, h, kind, x) ==
  /\ x \in DOMAIN Rows(h, kind) =>
       \/ x \in DOMAIN Rows(g, kind) /\ Rows(h, kind)[x] = Rows(g, kind)[x]
       \/ Removed(e, kind, x) /\ Rows(h, kind)[x] = e.before
  /\ x \in DOMAIN Rows(g, kind) /\ ~ (e.table = "node" /\ e.op = "INSERT" /\ e.row \in EndsOf(kind, x))
       => x \in DOMAIN Rows(h, kind)
  /\ Removed(e, kind, x) /\ EndsOf(kind, x) \subseteq DOMAIN g.node => x \in DOMAIN Rows(h, kind)

\* A graph with the same rows.
LEMMA SameRows ==
  ASSUME NEW e, NEW g, NEW h, NEW kind \in Kind, NEW x, h.link = g.link, h.bridge = g.bridge,
         ~ (e.op = "DELETE" /\ e.table \in Kind /\ EndsOf(e.table, e.row) \subseteq DOMAIN g.node)
  PROVE  UndoneRow(e, g, h, kind, x)
BY DEF UndoneRow, Rows, Removed, Kind

\* A graph with one more row, if it had none.
LEMMA OneMoreRow ==
  ASSUME NEW e, NEW g, NEW h, NEW kind \in Kind, NEW x, e.table \in Kind, e.op = "DELETE",
         Rows(h, e.table) = Ignoring(Rows(g, e.table), Single(e.row, e.before)),
         \A other \in Kind : other # e.table => Rows(h, other) = Rows(g, other)
  PROVE  UndoneRow(e, g, h, kind, x)
<1> DEFINE f == Single(e.row, e.before)
           r == Rows(g, e.table)
<1>1. DOMAIN f = {e.row} /\ f[e.row] = e.before
  BY SingleKey
<1> HIDE DEF f, r
<1>2. DOMAIN Ignoring(r, f) = DOMAIN r \cup DOMAIN f
  BY IgnoringKeys
<1>3. \A y \in DOMAIN r \cup DOMAIN f : Ignoring(r, f)[y] = IF y \in DOMAIN r THEN r[y] ELSE f[y]
  BY IgnoringRow
<1>4. CASE kind # e.table
  BY <1>4 DEF UndoneRow, Removed, Kind
<1>5. CASE kind = e.table
  <2>1. Rows(h, kind) = Ignoring(r, f) /\ Rows(g, kind) = r
    BY <1>5 DEF r, f
  <2>2. e.table # "node"
    BY DEF Kind
  <2>3. x \in DOMAIN Ignoring(r, f) =>
          \/ x \in DOMAIN r /\ Ignoring(r, f)[x] = r[x]
          \/ x = e.row /\ Ignoring(r, f)[x] = e.before
    BY <1>1, <1>2, <1>3
  <2>4. x \in DOMAIN r => x \in DOMAIN Ignoring(r, f)
    BY <1>2
  <2>5. x = e.row => x \in DOMAIN Ignoring(r, f)
    BY <1>1, <1>2
  <2> QED
    BY <1>5, <2>1, <2>2, <2>3, <2>4, <2>5 DEF UndoneRow, Removed
<1> QED
  BY <1>4, <1>5

\* Undoing any entry does that.
LEMMA UndoRows ==
  ASSUME NEW e, NEW g \in Graphs, NEW kind \in Kind, NEW x
  PROVE  UndoneRow(e, g, Undo(e, g), kind, x)
<1>f. /\ g = [node |-> g.node, link |-> g.link, bridge |-> g.bridge]
      /\ \A l \in DOMAIN g.link : Ends(l) \subseteq DOMAIN g.node
  BY GraphParts
<1>1. CASE e.table = "node" /\ e.op = "INSERT"
  <2> DEFINE h == Undo(e, g)
             C == Touching(g.link, {e.row})
  <2>1. h = DeleteNodes(g, {e.row})
    BY <1>1 DEF Undo
  <2>2. h.link = Without(g.link, C) /\ h.bridge = g.bridge
    BY <2>1, NodesDeleted
  <2> HIDE DEF h
  <2>3. DOMAIN Without(g.link, C) = DOMAIN g.link \ C
    BY WithoutKeys
  <2>4. \A y \in DOMAIN g.link \ C : Without(g.link, C)[y] = g.link[y]
    BY WithoutRow
  <2>5. \A y \in DOMAIN g.link : y \in C => e.row \in Ends(y)
    BY DEF Touching
  <2> HIDE DEF C
  <2>6. UndoneRow(e, g, h, kind, x)
    <3>1. CASE kind = "link"
      BY <1>1, <2>2, <2>3, <2>4, <2>5, <3>1 DEF UndoneRow, Rows, Removed, EndsOf
    <3>2. CASE kind = "bridge"
      BY <1>1, <2>2, <3>2 DEF UndoneRow, Rows, Removed, EndsOf
    <3> QED
      BY <3>1, <3>2 DEF Kind
  <2> QED
    BY <2>6 DEF h
<1>2. CASE e.table = "node" /\ e.op = "UPDATE" /\ e.row \in DOMAIN g.node
  <2> DEFINE f == [g.node EXCEPT ![e.row] = e.before]
  <2>1. Undo(e, g) = [node |-> f, link |-> g.link, bridge |-> g.bridge]
    BY <1>f, <1>2 DEF Undo
  <2> HIDE DEF f
  <2>2. Undo(e, g).link = g.link /\ Undo(e, g).bridge = g.bridge
    BY <2>1
  <2>3. e.op # "DELETE"
    BY <1>2
  <2> QED
    BY <2>2, <2>3, SameRows
<1>3. CASE e.table = "node" /\ e.op = "DELETE"
  <2> DEFINE f == Ignoring(g.node, Single(e.row, e.before))
  <2>1. Undo(e, g) = [node |-> f, link |-> g.link, bridge |-> g.bridge]
    BY <1>f, <1>3 DEF Undo
  <2> HIDE DEF f
  <2>2. Undo(e, g).link = g.link /\ Undo(e, g).bridge = g.bridge
    BY <2>1
  <2>3. e.table \notin Kind
    BY <1>3 DEF Kind
  <2> QED
    BY <2>2, <2>3, SameRows
<1>4. CASE e.table = "link" /\ e.op = "DELETE" /\ Ends(e.row) \subseteq DOMAIN g.node
  <2> DEFINE f == Ignoring(g.link, Single(e.row, e.before))
             h == Undo(e, g)
  <2>1. h = [node |-> g.node, link |-> f, bridge |-> g.bridge]
    BY <1>f, <1>4 DEF Undo
  <2> HIDE DEF h
  <2>2. h.link = f /\ h.bridge = g.bridge
    <3> HIDE DEF f
    <3> QED
      BY <2>1
  <2>3. Rows(h, e.table) = Ignoring(Rows(g, e.table), Single(e.row, e.before))
    BY <1>4, <2>2 DEF Rows
  <2>4. e.table \in Kind /\ \A other \in Kind : other # e.table => Rows(h, other) = Rows(g, other)
    BY <1>4, <2>2 DEF Rows, Kind
  <2>5. UndoneRow(e, g, h, kind, x)
    BY <1>4, <2>3, <2>4, OneMoreRow
  <2> QED
    BY <2>5 DEF h
<1>5. CASE e.table = "bridge" /\ e.op = "DELETE"
  <2> DEFINE f == Ignoring(g.bridge, Single(e.row, e.before))
             h == Undo(e, g)
  <2>1. h = [node |-> g.node, link |-> g.link, bridge |-> f]
    BY <1>f, <1>5 DEF Undo
  <2> HIDE DEF h
  <2>2. h.bridge = f /\ h.link = g.link
    <3> HIDE DEF f
    <3> QED
      BY <2>1
  <2>3. Rows(h, e.table) = Ignoring(Rows(g, e.table), Single(e.row, e.before))
    BY <1>5, <2>2 DEF Rows
  <2>4. e.table \in Kind /\ \A other \in Kind : other # e.table => Rows(h, other) = Rows(g, other)
    BY <1>5, <2>2 DEF Rows, Kind
  <2>5. UndoneRow(e, g, h, kind, x)
    BY <1>5, <2>3, <2>4, OneMoreRow
  <2> QED
    BY <2>5 DEF h
<1>6. CASE /\ ~ (e.table = "node" /\ e.op = "INSERT")
           /\ ~ (e.table = "node" /\ e.op = "UPDATE" /\ e.row \in DOMAIN g.node)
           /\ ~ (e.table = "node" /\ e.op = "DELETE")
           /\ ~ (e.table = "link" /\ e.op = "DELETE" /\ Ends(e.row) \subseteq DOMAIN g.node)
           /\ ~ (e.table = "bridge" /\ e.op = "DELETE")
  <2>1. Undo(e, g) = g
    BY <1>6 DEF Undo
  <2>2. ~ (e.op = "DELETE" /\ e.table \in Kind /\ EndsOf(e.table, e.row) \subseteq DOMAIN g.node)
    BY <1>6 DEF Kind, EndsOf
  <2>3. UndoneRow(e, g, g, kind, x)
    BY <2>2, SameRows
  <2> QED
    BY <2>1, <2>3
<1> QED
  BY <1>1, <1>2, <1>3, <1>4, <1>5, <1>6
-----------------------------------------------------------------------------
\* The rows a replay may bring back.
From(jr, t, g, kind, x, v) ==
  \/ x \in DOMAIN Rows(g, kind) /\ Rows(g, kind)[x] = v
  \/ \E k \in Later(jr, t) : Removed(jr[k], kind, x) /\ jr[k].before = v

\* A row is there, or there is a DELETE beyond id k to bring it back.
Brought(jr, t, g, kind, x, k) ==
  \/ x \in DOMAIN Rows(g, kind)
  \/ \E i \in Later(jr, t) : i > k /\ Removed(jr[i], kind, x)

\* Its nodes were born by t, and come back before it does.
Bound(jr, t, g, kind, x) ==
  \A n \in EndsOf(kind, x) :
    /\ NoInsert(jr, t, n)
    /\ \A k \in Later(jr, t) : Removed(jr[k], kind, x) => Recoverable(jr, t, g, n, k)

\* One stage of a replay.
LEMMA StepRows ==
  ASSUME NEW jr, NEW k, NEW t, NEW g \in Graphs, NEW kind \in Kind, NEW x
  PROVE  \/ k \in Later(jr, t) /\ UndoneRow(jr[k], g, Step(jr, k, g, t), kind, x)
         \/ k \notin Later(jr, t) /\ Step(jr, k, g, t) = g
BY UndoRows DEF Step

\* No stage makes up a row.
LEMMA StagesFrom ==
  ASSUME NEW b \in Tables(Node, Nat), NEW jr, Fitting(jr, b), NEW last \in Nat, NEW t,
         NEW g \in Graphs, Dated(g.node, b), NEW s, Stages(s, jr, last, g, t),
         NEW kind \in Kind, NEW x
  PROVE  \A k \in 0..last : x \in DOMAIN Rows(s[k], kind) => From(jr, t, g, kind, x, Rows(s[k], kind)[x])
<1>1. \A k \in 0..last : s[k] \in Graphs /\ Dated(s[k].node, b)
  BY StagesGraph
<1> DEFINE S == {k \in 0..last : x \in DOMAIN Rows(s[k], kind) => From(jr, t, g, kind, x, Rows(s[k], kind)[x])}
<1>2. last \in S
  BY DEF Stages, From
<1>3. ASSUME NEW k \in 0..(last - 1), k + 1 \in S PROVE k \in S
  <2> DEFINE i == k + 1
             p == s[i]
             q == s[k]
  <2>1. q = Step(jr, i, p, t) /\ k \in 0..last /\ i \in 0..last
    BY DEF Stages
  <2>2. p \in Graphs
    BY <1>1, <2>1
  <2>3. x \in DOMAIN Rows(p, kind) => From(jr, t, g, kind, x, Rows(p, kind)[x])
    BY <1>3
  <2> HIDE DEF i, p, q
  <2>4. \/ i \in Later(jr, t) /\ UndoneRow(jr[i], p, q, kind, x)
        \/ i \notin Later(jr, t) /\ q = p
    BY <2>1, <2>2, StepRows
  <2>5. x \in DOMAIN Rows(q, kind) => From(jr, t, g, kind, x, Rows(q, kind)[x])
    BY <2>3, <2>4 DEF UndoneRow, From
  <2> QED
    BY <2>1, <2>5 DEF q
<1>4. 0..last \subseteq S
  <2> HIDE DEF S
  <2> QED
    BY <1>2, <1>3, Downward
<1> QED
  BY <1>4

\* A bound row comes back, and stays.
LEMMA StagesBring ==
  ASSUME NEW b \in Tables(Node, Nat), NEW jr, Fitting(jr, b), NEW last \in Nat, NEW t,
         DOMAIN jr \subseteq 1..last,
         NEW g \in Graphs, Dated(g.node, b), NEW s, Stages(s, jr, last, g, t),
         NEW kind \in Kind, NEW x, Bound(jr, t, g, kind, x)
  PROVE  \A k \in 0..last : Brought(jr, t, g, kind, x, k) => x \in DOMAIN Rows(s[k], kind)
<1>1. \A k \in 0..last : s[k] \in Graphs /\ Dated(s[k].node, b)
  BY StagesGraph
<1> DEFINE S == {k \in 0..last : Brought(jr, t, g, kind, x, k) => x \in DOMAIN Rows(s[k], kind)}
<1>2. last \in S
  <2>1. s[last] = g
    BY DEF Stages
  <2> QED
    BY <2>1 DEF Brought, Later
<1>3. ASSUME NEW k \in 0..(last - 1), k + 1 \in S PROVE k \in S
  <2> DEFINE i == k + 1
             p == s[i]
             q == s[k]
  <2>1. q = Step(jr, i, p, t) /\ k \in 0..last /\ i \in 0..last /\ i \in Nat
    BY DEF Stages
  <2>2. p \in Graphs
    BY <1>1, <2>1
  <2>3. Brought(jr, t, g, kind, x, i) => x \in DOMAIN Rows(p, kind)
    BY <1>3
  <2>4. \A n \in EndsOf(kind, x) : Recoverable(jr, t, g, n, i) => n \in DOMAIN p.node
    <3> SUFFICES ASSUME NEW n \in EndsOf(kind, x), Recoverable(jr, t, g, n, i)
                 PROVE  n \in DOMAIN p.node
      OBVIOUS
    <3>1. NoInsert(jr, t, n)
      BY DEF Bound
    <3>2. \A j \in 0..last : Recoverable(jr, t, g, n, j) => n \in DOMAIN s[j].node
      BY <3>1, StagesRecover
    <3> QED
      BY <2>1, <3>2
  <2>5. Brought(jr, t, g, kind, x, k) /\ ~ Brought(jr, t, g, kind, x, i) =>
          i \in Later(jr, t) /\ Removed(jr[i], kind, x)
    <3>1. \A j \in Later(jr, t) : j > k => j = i \/ j > i
      BY <2>1 DEF Later
    <3> HIDE DEF i
    <3> QED
      BY <3>1 DEF Brought
  <2> HIDE DEF i, p, q
  <2>6. \/ i \in Later(jr, t) /\ UndoneRow(jr[i], p, q, kind, x)
        \/ i \notin Later(jr, t) /\ q = p
    BY <2>1, <2>2, StepRows
  <2>7. CASE Brought(jr, t, g, kind, x, i)
    <3>1. i \in Later(jr, t) => \A n \in EndsOf(kind, x) : ~ (About(jr[i], n) /\ jr[i].op = "INSERT")
      BY DEF Bound, NoInsert
    <3>2. x \in DOMAIN Rows(q, kind)
      BY <2>3, <2>6, <2>7, <3>1 DEF UndoneRow, About
    <3> QED
      BY <2>1, <3>2 DEF q
  <2>8. CASE Brought(jr, t, g, kind, x, k) /\ ~ Brought(jr, t, g, kind, x, i)
    <3>1. i \in Later(jr, t) /\ Removed(jr[i], kind, x)
      BY <2>5, <2>8
    <3>2. EndsOf(kind, x) \subseteq DOMAIN p.node
      BY <2>4, <3>1 DEF Bound
    <3>3. x \in DOMAIN Rows(q, kind)
      BY <2>6, <3>1, <3>2 DEF UndoneRow
    <3> QED
      BY <2>1, <3>3 DEF q
  <2>9. CASE ~ Brought(jr, t, g, kind, x, k)
    BY <2>1, <2>9
  <2> QED
    BY <2>7, <2>8, <2>9
<1>4. 0..last \subseteq S
  <2> HIDE DEF S
  <2> QED
    BY <1>2, <1>3, Downward
<1> QED
  BY <1>4

-----------------------------------------------------------------------------
(* What is known of the rows of the past *)

\* The rows that a rollback to t may leave: those a replay brings back, and, until the
\* rollback that is under way ends, the exported links.
Known(t, kind, x, v) ==
  \/ From(journal, t, graph, kind, x, v)
  \/ kind = "link" /\ t <= rb.target /\ x \in DOMAIN rb.link /\ rb.link[x] = v

\* No row is from the future.
RowsOld == \A kind \in Kind : \A x, v : Known(0, kind, x, v) => v <= clock

\* A row of a time by t that a rollback to t may leave was there at t.
NoneMadeUp ==
  \A t \in 1..(clock - 1) : \A kind \in Kind : \A x, v :
    Restorable(t) /\ Known(t, kind, x, v) /\ v <= t => x \in DOMAIN Rows(past[t], kind)

\* A row of the graph of t: none of it is newer, it is there or in the journal, and the nodes
\* it is bound to come back before it.
Steady(t, kind, x) ==
  /\ \A v : Known(t, kind, x, v) => v <= t
  /\ Brought(journal, t, graph, kind, x, 0)
  /\ \A n \in EndsOf(kind, x) : \A k \in Later(journal, t) :
       Removed(journal[k], kind, x) => Recoverable(journal, t, graph, n, k)

\* So are the rows of the past that are not fragile since.
StableRows ==
  \A t \in 1..(clock - 1) : \A kind \in Kind : \A x \in DOMAIN Rows(past[t], kind) :
    Restorable(t) /\ fragile[x] <= t => Steady(t, kind, x)

\* What the journal keeps of the rows of the past.
Traces == RowsOld /\ NoneMadeUp /\ StableRows

\* Entries written now are later than every second that is over.
LEMMA LaterWritten ==
  ASSUME Base, Base', NEW es, Writes(es), \A i \in 1..Len(es) : es[i].at = clock,
         NEW t \in 0..(clock - 1)
  PROVE  /\ lastId \in Nat /\ Len(es) \in Nat
         /\ \A k \in Later(journal, t) : k \in Later(journal', t) /\ journal'[k] = journal[k] /\ k <= lastId
         /\ \A i \in 1..Len(es) : lastId + i \in Later(journal', t) /\ journal'[lastId + i] = es[i]
         /\ \A k \in Later(journal', t) :
              k \in Later(journal, t) \/ \E i \in 1..Len(es) : k = lastId + i
<1>0. clock \in Nat
  BY Basics DEF Base
<1>1. /\ lastId \in Nat /\ DOMAIN journal \subseteq 1..lastId /\ Len(es) \in Nat
      /\ journal' = Longer(journal, lastId, es)
  BY WritesAppend
<1>2. /\ DOMAIN Longer(journal, lastId, es) = DOMAIN journal \cup (lastId + 1)..(lastId + Len(es))
      /\ \A k \in DOMAIN journal : Longer(journal, lastId, es)[k] = journal[k]
      /\ \A k \in (lastId + 1)..(lastId + Len(es)) :
           Longer(journal, lastId, es)[k] = es[k - lastId] /\ k - lastId \in 1..Len(es)
  BY <1>1, LongerIds, Zenon
<1> DEFINE jr == journal'
<1>3. /\ DOMAIN jr = DOMAIN journal \cup (lastId + 1)..(lastId + Len(es))
      /\ \A k \in DOMAIN journal : jr[k] = journal[k]
      /\ \A k \in (lastId + 1)..(lastId + Len(es)) : jr[k] = es[k - lastId] /\ k - lastId \in 1..Len(es)
  BY <1>1, <1>2
<1> HIDE DEF jr
<1>4. \A k \in Later(journal, t) : k \in Later(jr, t) /\ jr[k] = journal[k] /\ k <= lastId
  BY <1>1, <1>3 DEF Later
<1>5. ASSUME NEW i \in 1..Len(es) PROVE lastId + i \in Later(jr, t) /\ jr[lastId + i] = es[i]
  <2> DEFINE k == lastId + i
  <2>1. k \in (lastId + 1)..(lastId + Len(es)) /\ k - lastId = i
    BY <1>1
  <2>2. jr[k] = es[i] /\ k \in DOMAIN jr /\ es[i].at = clock
    BY <1>3, <2>1
  <2> HIDE DEF k
  <2>3. k \in Later(jr, t)
    BY <1>0, <2>2 DEF Later
  <2> QED
    BY <2>2, <2>3 DEF k
<1>6. ASSUME NEW k \in Later(jr, t)
      PROVE  k \in Later(journal, t) \/ \E i \in 1..Len(es) : k = lastId + i
  <2>1. k \in DOMAIN jr /\ jr[k].at > t
    BY DEF Later
  <2>2. CASE k \in DOMAIN journal
    BY <1>3, <2>1, <2>2 DEF Later
  <2>3. CASE k \in (lastId + 1)..(lastId + Len(es))
    <3>1. k - lastId \in 1..Len(es) /\ k = lastId + (k - lastId)
      BY <1>1, <2>3
    <3> QED
      BY <3>1
  <2> QED
    BY <1>3, <2>1, <2>2, <2>3
<1> QED
  BY <1>1, <1>4, <1>5, <1>6 DEF jr

\* What a write does to the rows of links and bridges: new ones are of now; those that go
\* are journaled, with the nodes they are bound to still there unless they were cascaded away.
WritesRows(es) ==
  \A kind \in Kind : \A x :
    /\ x \in DOMAIN Rows(graph', kind) =>
         \/ x \in DOMAIN Rows(graph, kind) /\ Rows(graph', kind)[x] = Rows(graph, kind)[x]
         \/ Rows(graph', kind)[x] = clock /\ fragile'[x] = clock
    /\ x \in DOMAIN Rows(graph, kind) \ DOMAIN Rows(graph', kind) =>
         \E i \in 1..Len(es) : Removed(es[i], kind, x)
    /\ \A i \in 1..Len(es) : Removed(es[i], kind, x) =>
         /\ x \in DOMAIN Rows(graph, kind) /\ es[i].before = Rows(graph, kind)[x]
         /\ fragile'[x] = clock \/ EndsOf(kind, x) \subseteq DOMAIN graph'.node

\* A link or bridge turns fragile now or not at all.
Fragile == \A x \in Link \cup Bridge : fragile'[x] = clock \/ fragile'[x] = fragile[x]

\* What may be left after a write might have been left before it, or is of now.
LEMMA KnownBefore ==
  ASSUME Base, Base', NEW es, Writes(es), \A i \in 1..Len(es) : es[i].at = clock, WritesRows(es),
         UNCHANGED rb, NEW t \in 0..(clock - 1), NEW kind \in Kind, NEW x, NEW v, Known(t, kind, x, v)'
  PROVE  Known(t, kind, x, v) \/ (v = clock /\ fragile'[x] = clock)
<1> DEFINE jr == journal'
           h == graph'
<1>0. /\ \A i \in 1..Len(es) : lastId + i \in Later(jr, t) /\ jr[lastId + i] = es[i]
      /\ \A k \in Later(journal, t) : k \in Later(jr, t) /\ jr[k] = journal[k]
      /\ \A k \in Later(jr, t) : k \in Later(journal, t) \/ \E i \in 1..Len(es) : k = lastId + i
  BY LaterWritten
<1>1. /\ x \in DOMAIN Rows(h, kind) =>
           \/ x \in DOMAIN Rows(graph, kind) /\ Rows(h, kind)[x] = Rows(graph, kind)[x]
           \/ Rows(h, kind)[x] = clock /\ fragile'[x] = clock
      /\ \A i \in 1..Len(es) : Removed(es[i], kind, x) =>
           x \in DOMAIN Rows(graph, kind) /\ es[i].before = Rows(graph, kind)[x]
  BY DEF WritesRows
<1>2. \/ From(jr, t, h, kind, x, v)
      \/ kind = "link" /\ t <= rb.target /\ x \in DOMAIN rb.link /\ rb.link[x] = v
  BY DEF Known
<1> HIDE DEF jr, h
<1>3. CASE x \in DOMAIN Rows(h, kind) /\ Rows(h, kind)[x] = v
  BY <1>1, <1>3 DEF Known, From
<1>4. CASE \E k \in Later(jr, t) : Removed(jr[k], kind, x) /\ jr[k].before = v
  <2>1. PICK k \in Later(jr, t) : Removed(jr[k], kind, x) /\ jr[k].before = v
    BY <1>4
  <2>2. CASE k \in Later(journal, t)
    BY <1>0, <2>1, <2>2 DEF Known, From
  <2>3. CASE \E i \in 1..Len(es) : k = lastId + i
    <3>1. PICK i \in 1..Len(es) : k = lastId + i
      BY <2>3
    <3>2. jr[k] = es[i]
      BY <1>0, <3>1
    <3> QED
      BY <1>1, <2>1, <3>2 DEF Known, From
  <2> QED
    BY <1>0, <2>1, <2>2, <2>3
<1>5. CASE kind = "link" /\ t <= rb.target /\ x \in DOMAIN rb.link /\ rb.link[x] = v
  BY <1>5 DEF Known
<1> QED
  BY <1>2, <1>3, <1>4, <1>5 DEF From

\* A write leaves a steady row steady, or makes it fragile.
LEMMA SteadyKept ==
  ASSUME Base, Base', NEW es, Writes(es), \A i \in 1..Len(es) : es[i].at = clock, WritesRows(es),
         Gone(es), UNCHANGED rb, NEW t \in 1..(clock - 1), NEW kind \in Kind, NEW x,
         Steady(t, kind, x), fragile'[x] # clock
  PROVE  Steady(t, kind, x)'
<1> DEFINE jr == journal'
           h == graph'
<1>t. t \in 0..(clock - 1) /\ clock \in Nat
  BY Basics DEF Base
<1>0. /\ lastId \in Nat /\ Len(es) \in Nat
      /\ \A i \in 1..Len(es) : lastId + i \in Later(jr, t) /\ jr[lastId + i] = es[i]
      /\ \A k \in Later(journal, t) : k \in Later(jr, t) /\ jr[k] = journal[k] /\ k <= lastId
      /\ \A k \in Later(jr, t) : k \in Later(journal, t) \/ \E i \in 1..Len(es) : k = lastId + i
  BY <1>t, LaterWritten
<1>1. /\ x \in DOMAIN Rows(graph, kind) \ DOMAIN Rows(h, kind) =>
           \E i \in 1..Len(es) : Removed(es[i], kind, x)
      /\ \A i \in 1..Len(es) : Removed(es[i], kind, x) => EndsOf(kind, x) \subseteq DOMAIN h.node
  BY DEF WritesRows
<1>2. \A n \in DOMAIN graph.node \ DOMAIN h.node :
        \E i \in 1..Len(es) : About(es[i], n) /\ es[i].op = "DELETE"
  BY DEF Gone
<1>3. \A v : Known(t, kind, x, v)' => v <= t
  BY <1>t, KnownBefore DEF Steady
<1> HIDE DEF jr, h
<1>4. Brought(jr, t, h, kind, x, 0)
  <2>1. Brought(journal, t, graph, kind, x, 0)
    BY DEF Steady
  <2>2. CASE \E i \in 1..Len(es) : Removed(es[i], kind, x)
    <3>1. PICK i \in 1..Len(es) : Removed(es[i], kind, x)
      BY <2>2
    <3>2. lastId + i > 0
      BY <1>0
    <3> QED
      BY <1>0, <3>1, <3>2 DEF Brought
  <2>3. CASE ~ \E i \in 1..Len(es) : Removed(es[i], kind, x)
    BY <1>0, <1>1, <2>1, <2>3 DEF Brought
  <2> QED
    BY <2>2, <2>3
<1>5. ASSUME NEW n \in EndsOf(kind, x), NEW k \in Later(jr, t), Removed(jr[k], kind, x)
      PROVE  Recoverable(jr, t, h, n, k)
  <2>1. CASE k \in Later(journal, t)
    <3>1. Recoverable(journal, t, graph, n, k) /\ k <= lastId
      BY <1>0, <1>5, <2>1 DEF Steady
    <3>2. CASE n \in DOMAIN graph.node \ DOMAIN h.node
      <4>1. PICK i \in 1..Len(es) : About(es[i], n) /\ es[i].op = "DELETE"
        BY <1>2, <3>2
      <4>2. lastId + i > k
        <5>1. k \in Nat
          BY <2>1 DEF Later, Base, Logged, Kept
        <5> QED
          BY <1>0, <3>1, <5>1
      <4> QED
        BY <1>0, <4>1, <4>2 DEF Recoverable
    <3>3. CASE n \notin DOMAIN graph.node \ DOMAIN h.node
      BY <1>0, <3>1, <3>3 DEF Recoverable
    <3> QED
      BY <3>2, <3>3
  <2>2. CASE \E i \in 1..Len(es) : k = lastId + i
    <3>1. PICK i \in 1..Len(es) : k = lastId + i
      BY <2>2
    <3>2. Removed(es[i], kind, x)
      BY <1>0, <1>5, <3>1
    <3> QED
      BY <1>1, <1>5, <3>2 DEF Recoverable
  <2> QED
    BY <1>0, <2>1, <2>2
<1> QED
  BY <1>3, <1>4, <1>5 DEF Steady, jr, h

\* The rows of links and bridges.
LEMMA RowKeys ==
  ASSUME NEW g \in Graphs, NEW kind \in Kind
  PROVE  /\ DOMAIN Rows(g, kind) \subseteq Link \cup Bridge
         /\ \A x \in DOMAIN Rows(g, kind) : Rows(g, kind)[x] \in Time
<1>1. g.link \in Tables(Link, Time) /\ g.bridge \in Tables(Bridge, Time)
  BY GraphParts
<1>2. /\ DOMAIN g.link \subseteq Link /\ DOMAIN g.bridge \subseteq Bridge
      /\ \A x \in DOMAIN g.link : g.link[x] \in Time
      /\ \A x \in DOMAIN g.bridge : g.bridge[x] \in Time
  BY <1>1, TableRows
<1> QED
  BY <1>2 DEF Rows, Kind

\* A write keeps what is known of the rows of the past.
LEMMA WriteTraces ==
  ASSUME Base, Base', Traces, NEW es, Writes(es), \A i \in 1..Len(es) : es[i].at = clock,
         WritesRows(es), Fragile, Gone(es), Write, UNCHANGED horizon
  PROVE  Traces'
<1>0. UNCHANGED <<rb, clock, past, undone, horizon>> /\ clock \in Nat \ {0}
  BY Basics DEF Base, Write
<1>1. RowsOld'
  <2> SUFFICES ASSUME NEW kind \in Kind, NEW x, NEW v, Known(0, kind, x, v)' PROVE v <= clock
    BY <1>0 DEF RowsOld
  <2>1. Known(0, kind, x, v) \/ v = clock
    BY <1>0, KnownBefore
  <2> QED
    BY <1>0, <2>1 DEF Traces, RowsOld
<1>2. NoneMadeUp'
  <2> SUFFICES ASSUME NEW t \in 1..(clock - 1), NEW kind \in Kind, NEW x, NEW v, Restorable(t),
                      Known(t, kind, x, v)', v <= t
               PROVE  x \in DOMAIN Rows(past[t], kind)
    BY <1>0 DEF NoneMadeUp, Restorable
  <2>1. t \in 0..(clock - 1) /\ v # clock
    BY <1>0
  <2>2. Known(t, kind, x, v)
    BY <1>0, <2>1, KnownBefore
  <2> QED
    BY <2>2 DEF Traces, NoneMadeUp
<1>3. StableRows'
  <2> SUFFICES ASSUME NEW t \in 1..(clock - 1), NEW kind \in Kind, NEW x \in DOMAIN Rows(past[t], kind),
                      Restorable(t), fragile'[x] <= t
               PROVE  Steady(t, kind, x)'
    BY <1>0 DEF StableRows, Restorable
  <2>1. fragile'[x] # clock
    BY <1>0
  <2>2. fragile'[x] = fragile[x]
    <3>1. past[t] \in Graphs
      BY DEF Base, TypeOK
    <3>2. x \in Link \cup Bridge
      BY <3>1, RowKeys
    <3> QED
      BY <2>1, <3>2 DEF Fragile
  <2>3. Steady(t, kind, x)
    BY <2>2 DEF Traces, StableRows
  <2> QED
    BY <1>0, <2>1, <2>3, SteadyKept
<1> QED
  BY <1>1, <1>2, <1>3 DEF Traces

\* A write of nodes.
LEMMA NodeWriteTraces ==
  ASSUME Base, Base', Traces, Write, UNCHANGED horizon, NEW e, Writes(<<e>>), Gone(<<e>>),
         e.table = "node", e.at = clock, graph'.link = graph.link, graph'.bridge = graph.bridge,
         UNCHANGED fragile
  PROVE  Traces'
<1>1. \A i \in 1..Len(<<e>>) : <<e>>[i] = e
  OBVIOUS
<1>2. \A kind \in Kind : Rows(graph', kind) = Rows(graph, kind)
  BY DEF Rows
<1>3. \A kind \in Kind : \A x : ~ Removed(e, kind, x)
  BY DEF Kind, Removed
<1>4. WritesRows(<<e>>)
  BY <1>1, <1>2, <1>3 DEF WritesRows
<1>5. Fragile
  BY DEF Fragile
<1>6. \A i \in 1..Len(<<e>>) : <<e>>[i].at = clock
  BY <1>1
<1> QED
  BY <1>4, <1>5, <1>6, WriteTraces

\* createNode and the updates.
LEMMA CreateNodeTraces ==
  ASSUME Base, Base', Traces, NEW m \in Node, NEW v \in Version, CreateNode(m, v)
  PROVE  Traces'
<1> DEFINE row == [version |-> v, at |-> clock]
           f == Ignoring(graph.node, Single(m, row))
           e == Entry("node", m, "INSERT", 0)
           c == Ignoring(born, Single(m, clock))
<1>0. graph = [node |-> graph.node, link |-> graph.link, bridge |-> graph.bridge]
  BY GraphParts DEF Base, TypeOK
<1>1. /\ Write /\ UNCHANGED <<horizon, fragile>> /\ Log(<<e>>) /\ born' = c
      /\ graph' = [graph EXCEPT !.node = f] /\ m \notin DOMAIN born
  BY DEF CreateNode
<1>2. e.table = "node" /\ e.at = clock
  BY DEF Entry
<1>3. DOMAIN c = DOMAIN born \cup DOMAIN Single(m, clock)
  BY IgnoringKeys
<1>4. \A n \in DOMAIN born : c[n] = born[n]
  BY IgnoringRow
<1>5. DOMAIN f = DOMAIN graph.node \cup DOMAIN Single(m, row)
  BY IgnoringKeys
<1> HIDE DEF e, f, c, row
<1>6. graph'.node = f /\ graph'.link = graph.link /\ graph'.bridge = graph.bridge
  BY <1>0, <1>1
<1>7. Len(<<e>>) \in Nat
  OBVIOUS
<1>8. Writes(<<e>>)
  BY <1>1, <1>3, <1>4, <1>7 DEF Writes, Write
<1>9. Gone(<<e>>)
  BY <1>5, <1>6 DEF Gone
<1> QED
  BY <1>1, <1>2, <1>6, <1>8, <1>9, NodeWriteTraces

LEMMA UpdateNodeTraces ==
  ASSUME Base, Base', Traces, NEW m \in Node, NEW v \in Version, UpdateNode(m, v)
  PROVE  Traces'
<1> DEFINE row == [version |-> v, at |-> graph.node[m].at]
           f == [graph.node EXCEPT ![m] = row]
           e == Entry("node", m, "UPDATE", graph.node[m])
<1>0. graph \in Graphs /\ m \in DOMAIN graph.node
  BY DEF Base, TypeOK, UpdateNode
<1>1. /\ Write /\ UNCHANGED <<born, horizon, fragile>> /\ Log(<<e>>)
      /\ graph' = [graph EXCEPT !.node[m].version = v]
  BY DEF UpdateNode
<1>2. /\ [graph EXCEPT !.node[m].version = v] = [node |-> f, link |-> graph.link, bridge |-> graph.bridge]
      /\ f \in Tables(Node, Row) /\ DOMAIN f = DOMAIN graph.node
  BY <1>0, WithVersion
<1>3. graph'.node = f /\ graph'.link = graph.link /\ graph'.bridge = graph.bridge
  <2> HIDE DEF f
  <2> QED
    BY <1>1, <1>2
<1>4. e.table = "node" /\ e.at = clock
  BY DEF Entry
<1>5. Gone(<<e>>)
  BY <1>2, <1>3 DEF Gone
<1> HIDE DEF e, f, row
<1>6. Len(<<e>>) \in Nat
  OBVIOUS
<1>7. Writes(<<e>>)
  BY <1>1, <1>6 DEF Writes, Write
<1> QED
  BY <1>1, <1>3, <1>4, <1>5, <1>7, NodeWriteTraces

\* A new row of one kind.
LEMMA NewRowTraces ==
  ASSUME Base, Base', Traces, Write, UNCHANGED <<born, horizon>>, NEW e, Log(<<e>>),
         e.op = "INSERT", e.at = clock, NEW kind \in Kind, NEW x \in Link \cup Bridge,
         graph'.node = graph.node, Rows(graph', kind) = Ignoring(Rows(graph, kind), Single(x, clock)),
         \A other \in Kind : other # kind => Rows(graph', other) = Rows(graph, other),
         fragile' = [fragile EXCEPT ![x] = clock]
  PROVE  Traces'
<1> DEFINE r == Rows(graph, kind)
           q == Rows(graph', kind)
           f == Single(x, clock)
<1>1. \A i \in 1..Len(<<e>>) : <<e>>[i] = e
  OBVIOUS
<1>2. Len(<<e>>) \in Nat
  OBVIOUS
<1>3. Writes(<<e>>)
  BY <1>2 DEF Writes, Write
<1>4. Gone(<<e>>)
  BY DEF Gone
<1>5. DOMAIN fragile = Link \cup Bridge
  BY DEF Base, TypeOK
<1>6. fragile'[x] = clock /\ Fragile
  BY <1>5 DEF Fragile
<1>7. DOMAIN f = {x} /\ f[x] = clock
  BY SingleKey
<1> HIDE DEF f
<1>8. DOMAIN Ignoring(r, f) = DOMAIN r \cup DOMAIN f
  BY IgnoringKeys
<1>9. \A y \in DOMAIN r \cup DOMAIN f : Ignoring(r, f)[y] = IF y \in DOMAIN r THEN r[y] ELSE f[y]
  BY IgnoringRow
<1>10. q = Ignoring(r, f)
  BY DEF f
<1> HIDE DEF r, q
<1>11. \A y : /\ y \in DOMAIN q => \/ y \in DOMAIN r /\ q[y] = r[y]
                                   \/ q[y] = clock /\ fragile'[y] = clock
              /\ y \notin DOMAIN r \ DOMAIN q
  BY <1>6, <1>7, <1>8, <1>9, <1>10
<1>12. \A other \in Kind : \A y : ~ Removed(e, other, y)
  BY DEF Removed
<1>13. WritesRows(<<e>>)
  BY <1>1, <1>11, <1>12 DEF WritesRows, r, q
<1>14. \A i \in 1..Len(<<e>>) : <<e>>[i].at = clock
  BY <1>1
<1> QED
  BY <1>3, <1>4, <1>6, <1>13, <1>14, WriteTraces

\* createEdge and the bridges that are written.
LEMMA CreateEdgeTraces ==
  ASSUME Base, Base', Traces, NEW l \in Link, CreateEdge(l)
  PROVE  Traces'
<1> DEFINE e == Entry("link", l, "INSERT", 0)
           f == Ignoring(graph.link, Single(l, clock))
<1>0. graph = [node |-> graph.node, link |-> graph.link, bridge |-> graph.bridge]
  BY GraphParts DEF Base, TypeOK
<1>1. /\ Write /\ UNCHANGED <<born, horizon>> /\ Log(<<e>>)
      /\ graph' = [graph EXCEPT !.link = f] /\ fragile' = [fragile EXCEPT ![l] = clock]
  BY DEF CreateEdge
<1>2. e.op = "INSERT" /\ e.at = clock
  BY DEF Entry
<1> HIDE DEF e, f
<1>3. graph'.node = graph.node /\ graph'.link = f /\ graph'.bridge = graph.bridge
  BY <1>0, <1>1
<1>4. /\ "link" \in Kind /\ Rows(graph', "link") = Ignoring(Rows(graph, "link"), Single(l, clock))
      /\ \A other \in Kind : other # "link" => Rows(graph', other) = Rows(graph, other)
  BY <1>3 DEF Kind, Rows, f
<1> QED
  BY <1>1, <1>2, <1>3, <1>4, NewRowTraces

LEMMA CreateBridgeTraces ==
  ASSUME Base, Base', Traces, NEW b \in Bridge, CreateBridge(b)
  PROVE  Traces'
<1> DEFINE e == Entry("bridge", b, "INSERT", 0)
           f == Ignoring(graph.bridge, Single(b, clock))
<1>0. graph = [node |-> graph.node, link |-> graph.link, bridge |-> graph.bridge]
  BY GraphParts DEF Base, TypeOK
<1>1. /\ Write /\ UNCHANGED <<born, horizon>> /\ Log(<<e>>)
      /\ graph' = [graph EXCEPT !.bridge = f] /\ fragile' = [fragile EXCEPT ![b] = clock]
  BY DEF CreateBridge
<1>2. e.op = "INSERT" /\ e.at = clock
  BY DEF Entry
<1> HIDE DEF e, f
<1>3. graph'.node = graph.node /\ graph'.bridge = f /\ graph'.link = graph.link
  BY <1>0, <1>1
<1>4. /\ "bridge" \in Kind /\ Rows(graph', "bridge") = Ignoring(Rows(graph, "bridge"), Single(b, clock))
      /\ \A other \in Kind : other # "bridge" => Rows(graph', other) = Rows(graph, other)
  BY <1>3 DEF Kind, Rows, f
<1> QED
  BY <1>1, <1>2, <1>3, <1>4, NewRowTraces

\* Rows of one kind that go, each with an entry, and nodes or not.
LEMMA RowsGoTraces ==
  ASSUME Base, Base', Traces, Write, UNCHANGED <<born, horizon>>, NEW es, Log(es), Len(es) \in Nat,
         \A i \in 1..Len(es) : es[i].at = clock, Gone(es),
         NEW kind \in Kind, NEW D, D \subseteq DOMAIN Rows(graph, kind),
         Rows(graph', kind) = Without(Rows(graph, kind), D),
         \A other \in Kind : other # kind => Rows(graph', other) = Rows(graph, other),
         \A i \in 1..Len(es) : es[i].table \in Kind =>
           es[i].table = kind /\ es[i].row \in D /\ es[i].before = Rows(graph, kind)[es[i].row],
         \A x \in D : \E i \in 1..Len(es) : Removed(es[i], kind, x),
         Fragile, \A x \in D : fragile'[x] = clock \/ EndsOf(kind, x) \subseteq DOMAIN graph'.node
  PROVE  Traces'
<1> DEFINE r == Rows(graph, kind)
           q == Rows(graph', kind)
<1>1. Writes(es)
  BY DEF Writes, Write
<1>2. DOMAIN Without(r, D) = DOMAIN r \ D
  BY WithoutKeys
<1>3. \A x \in DOMAIN r \ D : Without(r, D)[x] = r[x]
  BY WithoutRow
<1>4. q = Without(r, D) /\ D \subseteq DOMAIN r
  OBVIOUS
<1> HIDE DEF r, q
<1>5. \A x : /\ x \in DOMAIN q => x \in DOMAIN r /\ q[x] = r[x]
             /\ x \in DOMAIN r \ DOMAIN q => x \in D
  BY <1>2, <1>3, <1>4
<1>6. \A other \in Kind : \A x : \A i \in 1..Len(es) : Removed(es[i], other, x) =>
        other = kind /\ x \in D /\ es[i].before = r[x]
  BY DEF Removed, r
<1>7. ASSUME NEW other \in Kind, NEW x
      PROVE  /\ x \in DOMAIN Rows(graph', other) =>
                  x \in DOMAIN Rows(graph, other) /\ Rows(graph', other)[x] = Rows(graph, other)[x]
             /\ x \in DOMAIN Rows(graph, other) \ DOMAIN Rows(graph', other) =>
                  \E i \in 1..Len(es) : Removed(es[i], other, x)
             /\ \A i \in 1..Len(es) : Removed(es[i], other, x) =>
                  /\ x \in DOMAIN Rows(graph, other) /\ es[i].before = Rows(graph, other)[x]
                  /\ fragile'[x] = clock \/ EndsOf(other, x) \subseteq DOMAIN graph'.node
  <2>1. CASE other = kind
    BY <1>4, <1>5, <1>6, <2>1 DEF r, q
  <2>2. CASE other # kind
    BY <1>6, <2>2
  <2> QED
    BY <2>1, <2>2
<1>8. WritesRows(es)
  BY <1>7 DEF WritesRows
<1> QED
  BY <1>1, <1>8, WriteTraces

\* A bridge that is deleted.
LEMMA DeleteBridgeTraces ==
  ASSUME Base, Base', Traces, NEW b \in Bridge, DeleteBridge(b)
  PROVE  Traces'
<1> DEFINE e == Entry("bridge", b, "DELETE", graph.bridge[b])
           f == Without(graph.bridge, {b})
           es == <<e>>
<1>0. graph = [node |-> graph.node, link |-> graph.link, bridge |-> graph.bridge]
  BY GraphParts DEF Base, TypeOK
<1>1. /\ Write /\ UNCHANGED <<born, horizon, fragile>> /\ Log(es) /\ b \in DOMAIN graph.bridge
      /\ graph' = [graph EXCEPT !.bridge = f]
  BY DEF DeleteBridge
<1>2. e.op = "DELETE" /\ e.at = clock /\ e.table = "bridge" /\ e.row = b /\ e.before = graph.bridge[b]
  BY DEF Entry
<1> HIDE DEF e, f
<1>3. graph'.node = graph.node /\ graph'.bridge = f /\ graph'.link = graph.link
  BY <1>0, <1>1
<1>4. /\ "bridge" \in Kind /\ Rows(graph', "bridge") = Without(Rows(graph, "bridge"), {b})
      /\ \A other \in Kind : other # "bridge" => Rows(graph', other) = Rows(graph, other)
  BY <1>3 DEF Kind, Rows, f
<1>5. Len(es) = 1 /\ es[1] = e
  OBVIOUS
<1> HIDE DEF es
<1>6. {b} \subseteq DOMAIN Rows(graph, "bridge") /\ Rows(graph, "bridge") = graph.bridge
  BY <1>1 DEF Rows
<1>7. \A x \in {b} : \E i \in 1..Len(es) : Removed(es[i], "bridge", x)
  BY <1>2, <1>5 DEF Removed
<1>8. \A x \in {b} : EndsOf("bridge", x) \subseteq DOMAIN graph'.node
  BY DEF EndsOf
<1>9. Fragile /\ Gone(es)
  BY <1>1, <1>3 DEF Fragile, Gone
<1>10. /\ Len(es) \in Nat /\ \A i \in 1..Len(es) : es[i].at = clock
       /\ \A i \in 1..Len(es) : es[i].table \in Kind =>
            /\ es[i].table = "bridge" /\ es[i].row \in {b}
            /\ es[i].before = Rows(graph, "bridge")[es[i].row]
  BY <1>2, <1>5, <1>6
<1> QED
  BY <1>1, <1>4, <1>6, <1>7, <1>8, <1>9, <1>10, RowsGoTraces

\* The entries of links that go.
LEMMA DeletionsRows ==
  ASSUME Base, NEW L \in SUBSET (DOMAIN graph.link)
  PROVE  /\ Len(Deletions(L)) \in Nat
         /\ \A i \in 1..Len(Deletions(L)) :
              /\ Deletions(L)[i].table = "link" /\ Deletions(L)[i].row \in L
              /\ Deletions(L)[i].before = graph.link[Deletions(L)[i].row] /\ Deletions(L)[i].at = clock
         /\ \A x \in L : \E i \in 1..Len(Deletions(L)) : Removed(Deletions(L)[i], "link", x)
<1> DEFINE D == {Entry("link", l, "DELETE", graph.link[l]) : l \in L}
           ds == Deletions(L)
<1>1. /\ Written(ds, born, clock)
      /\ \A i \in 1..Len(ds) : ds[i] \in D
      /\ \A l \in L : \E i \in 1..Len(ds) : ds[i] = Entry("link", l, "DELETE", graph.link[l])
  BY DeletionsWritten DEF Base
<1>2. \A l \in L : Removed(Entry("link", l, "DELETE", graph.link[l]), "link", l)
  BY DEF Entry, Removed
<1>3. \A d \in D : d.table = "link" /\ d.row \in L /\ d.before = graph.link[d.row] /\ d.at = clock
  BY DEF Entry
<1> HIDE DEF D, ds
<1>4. \A x \in L : \E i \in 1..Len(ds) : Removed(ds[i], "link", x)
  BY <1>1, <1>2
<1>5. Len(ds) \in Nat
  BY <1>1 DEF Written
<1> QED
  BY <1>1, <1>3, <1>4, <1>5 DEF ds

\* The first DELETE of a hard removal: the nodes are still there.
LEMMA RemoveEdgesTraces ==
  ASSUME Base, Base', Traces, NEW n \in Node, RemoveEdges(n)
  PROVE  Traces'
<1> DEFINE L == Touching(graph.link, {n})
           es == Deletions(L)
           f == Without(graph.link, L)
<1>0. graph = [node |-> graph.node, link |-> graph.link, bridge |-> graph.bridge]
  BY GraphParts DEF Base, TypeOK
<1>1. /\ Write /\ UNCHANGED <<born, horizon, fragile>> /\ Log(es)
      /\ graph' = [graph EXCEPT !.link = f]
  BY DEF RemoveEdges
<1>2. L \in SUBSET (DOMAIN graph.link)
  BY DEF Touching
<1>3. \A l \in DOMAIN graph.link : Ends(l) \subseteq DOMAIN graph.node
  BY GraphParts DEF Base, TypeOK
<1> HIDE DEF f, L
<1>4. graph'.node = graph.node /\ graph'.link = f /\ graph'.bridge = graph.bridge
  BY <1>0, <1>1
<1>5. /\ "link" \in Kind /\ Rows(graph', "link") = Without(Rows(graph, "link"), L)
      /\ \A other \in Kind : other # "link" => Rows(graph', other) = Rows(graph, other)
      /\ L \subseteq DOMAIN Rows(graph, "link") /\ Rows(graph, "link") = graph.link
  BY <1>2, <1>4 DEF Kind, Rows, f
<1>6. /\ Len(es) \in Nat
      /\ \A i \in 1..Len(es) :
           /\ es[i].table = "link" /\ es[i].row \in L
           /\ es[i].before = graph.link[es[i].row] /\ es[i].at = clock
      /\ \A x \in L : \E i \in 1..Len(es) : Removed(es[i], "link", x)
  BY <1>2, DeletionsRows
<1> HIDE DEF es
<1>7. \A x \in L : EndsOf("link", x) \subseteq DOMAIN graph'.node
  BY <1>2, <1>3, <1>4 DEF EndsOf
<1>8. Fragile /\ Gone(es)
  BY <1>1, <1>4 DEF Fragile, Gone
<1>9. \A i \in 1..Len(es) : es[i].table \in Kind =>
        es[i].table = "link" /\ es[i].row \in L /\ es[i].before = Rows(graph, "link")[es[i].row]
  BY <1>5, <1>6
<1>10. \A i \in 1..Len(es) : es[i].at = clock
  BY <1>6
<1> QED
  BY <1>1, <1>5, <1>6, <1>7, <1>8, <1>9, <1>10, RowsGoTraces

\* The entries of a node m that goes with its links L.
Removes(es, m, L) ==
  /\ Len(es) \in Nat
  /\ \A i \in 1..Len(es) : es[i].at = clock
  /\ \A i \in 1..Len(es) : es[i].table \in Kind =>
       es[i].table = "link" /\ es[i].row \in L /\ es[i].before = graph.link[es[i].row]
  /\ \A x \in L : \E i \in 1..Len(es) : Removed(es[i], "link", x)
  /\ m \in DOMAIN graph.node => \E i \in 1..Len(es) : About(es[i], m) /\ es[i].op = "DELETE"

\* RemoveNode writes such entries.
LEMMA RemovalRows ==
  ASSUME Base, NEW m \in Node
  PROVE  Removes(Removal(m), m, Touching(graph.link, {m}))
<1> DEFINE L == Touching(graph.link, {m})
           e == Entry("node", m, "DELETE", graph.node[m])
           es == Removal(m)
           ds == Deletions(L)
           D == {Entry("link", l, "DELETE", graph.link[l]) : l \in L}
<1>0. TypeOK /\ Births
  BY DEF Base
<1>1. e.table = "node" /\ e.row = m /\ e.op = "DELETE" /\ e.at = clock /\ e.before = graph.node[m]
  BY DEF Entry
<1>2. L \in SUBSET (DOMAIN graph.link)
  BY DEF Touching
<1>3. \A l \in L : m \in DOMAIN graph.node
  <2>1. \A l \in DOMAIN graph.link : Ends(l) \subseteq DOMAIN graph.node
    BY <1>0, GraphParts DEF TypeOK
  <2> QED
    BY <2>1 DEF Touching
<1>4. Written(ds, born, clock) /\ ds \in Seq(D)
  <2> HIDE DEF L
  <2> QED
    BY <1>0, <1>2, DeletionsWritten
<1>5. /\ Len(ds) \in Nat
      /\ \A i \in 1..Len(ds) :
           /\ ds[i].table = "link" /\ ds[i].row \in L
           /\ ds[i].before = graph.link[ds[i].row] /\ ds[i].at = clock
      /\ \A x \in L : \E i \in 1..Len(ds) : Removed(ds[i], "link", x)
  <2> HIDE DEF L
  <2> QED
    BY <1>2, DeletionsRows
<1>6. CASE m \in DOMAIN graph.node
  <2>1. es = <<e>> \o ds
    BY <1>6 DEF Removal
  <2>2. Fits(e, born) /\ e.at = clock
    <3>1. graph.node[m] \in Row
      BY <1>0, <1>6, Basics, TableRows
    <3> QED
      BY <1>0, <1>1, <1>6, <3>1 DEF Fits, Births, Dated
  <2> HIDE DEF e, es, ds, D, L
  <2>3. /\ Len(es) = Len(ds) + 1 /\ es[1] = e
        /\ \A i \in 2..(Len(ds) + 1) : es[i] = ds[i - 1]
    BY <1>4, <2>1, <2>2, WrittenBefore
  <2>4. \A i \in 1..Len(es) : i = 1 \/ (i - 1 \in 1..Len(ds) /\ es[i] = ds[i - 1])
    BY <1>5, <2>3
  <2>5. \A i \in 1..Len(ds) : i + 1 \in 1..Len(es) /\ es[i + 1] = ds[i]
    BY <1>5, <2>3
  <2>6. "node" \notin Kind
    BY DEF Kind
  <2>7. ASSUME NEW i \in 1..Len(es)
        PROVE  /\ es[i].at = clock
               /\ es[i].table \in Kind =>
                    es[i].table = "link" /\ es[i].row \in L /\ es[i].before = graph.link[es[i].row]
    <3>1. CASE i = 1
      BY <1>1, <2>3, <2>6, <3>1
    <3>2. CASE i # 1
      BY <1>5, <2>4, <3>2
    <3> QED
      BY <3>1, <3>2
  <2>8. \A x \in L : \E i \in 1..Len(es) : Removed(es[i], "link", x)
    BY <1>5, <2>5
  <2>9. 1 \in 1..Len(es) /\ About(es[1], m) /\ es[1].op = "DELETE"
    BY <1>1, <1>5, <2>3 DEF About
  <2>10. Len(es) \in Nat
    BY <1>5, <2>3
  <2>11. Removes(es, m, L)
    BY <2>7, <2>8, <2>9, <2>10 DEF Removes
  <2> QED
    BY <2>11 DEF es, L
<1>7. CASE m \notin DOMAIN graph.node
  <2>1. es = <<>>
    BY <1>7 DEF Removal
  <2>2. Len(es) = 0 /\ 1..Len(es) = {}
    BY <2>1
  <2>3. L = {}
    BY <1>3, <1>7
  <2> HIDE DEF es, L
  <2>4. Removes(es, m, L)
    BY <1>7, <2>2, <2>3 DEF Removes
  <2> QED
    BY <2>4 DEF es, L
<1> QED
  BY <1>6, <1>7

\* The second DELETE: the links that cascade are fragile from now on.
LEMMA RemoveNodeTraces ==
  ASSUME Base, Base', Traces, NEW m \in Node, RemoveNode(m)
  PROVE  Traces'
<1> DEFINE L == Touching(graph.link, {m})
           es == Removal(m)
<1>0. TypeOK /\ graph \in Graphs
  BY DEF Base, TypeOK
<1>1. /\ Write /\ UNCHANGED <<born, horizon>> /\ Log(es)
      /\ graph' = DeleteNodes(graph, {m})
      /\ fragile' = [x \in DOMAIN fragile |-> IF x \in L THEN clock ELSE fragile[x]]
  BY DEF RemoveNode, Removal
<1>2. /\ graph'.node = Without(graph.node, {m}) /\ graph'.link = Without(graph.link, L)
      /\ graph'.bridge = graph.bridge
  BY <1>0, <1>1, NodesDeleted
<1>3. /\ Len(es) \in Nat
      /\ \A i \in 1..Len(es) : es[i].at = clock
      /\ \A i \in 1..Len(es) : es[i].table \in Kind =>
           es[i].table = "link" /\ es[i].row \in L /\ es[i].before = graph.link[es[i].row]
      /\ \A x \in L : \E i \in 1..Len(es) : Removed(es[i], "link", x)
      /\ m \in DOMAIN graph.node =>
           \E i \in 1..Len(es) : About(es[i], m) /\ es[i].op = "DELETE"
  BY RemovalRows DEF Removes
<1>4. L \subseteq DOMAIN graph.link /\ DOMAIN graph.link \subseteq Link
  <2>1. DOMAIN graph.link \subseteq Link
    BY <1>0, GraphParts, TableRows
  <2> QED
    BY <2>1 DEF Touching
<1> HIDE DEF es, L
<1>5. DOMAIN Without(graph.node, {m}) = DOMAIN graph.node \ {m}
  BY WithoutKeys
<1>6. Gone(es)
  BY <1>2, <1>3, <1>5 DEF Gone
<1>7. DOMAIN fragile = Link \cup Bridge
  BY <1>0 DEF TypeOK
<1>8. Fragile /\ \A x \in L : fragile'[x] = clock
  BY <1>1, <1>4, <1>7 DEF Fragile
<1>9. /\ "link" \in Kind /\ Rows(graph', "link") = Without(Rows(graph, "link"), L)
      /\ \A other \in Kind : other # "link" => Rows(graph', other) = Rows(graph, other)
      /\ L \subseteq DOMAIN Rows(graph, "link") /\ Rows(graph, "link") = graph.link
  BY <1>2, <1>4 DEF Kind, Rows
<1>10. \A i \in 1..Len(es) : es[i].table \in Kind =>
         es[i].table = "link" /\ es[i].row \in L /\ es[i].before = Rows(graph, "link")[es[i].row]
  BY <1>3, <1>9
<1> QED
  BY <1>1, <1>3, <1>6, <1>8, <1>9, <1>10, RowsGoTraces

\* Steps that leave the graph and its journal alone; an exported link is a link of the graph.
LEMMA StillTraces ==
  ASSUME Base, Traces, UNCHANGED <<graph, log, clock, past, undone, horizon, fragile>>,
         \A t : \A x \in DOMAIN rb'.link : t <= rb'.target =>
           \/ t <= rb.target /\ x \in DOMAIN rb.link /\ rb'.link[x] = rb.link[x]
           \/ x \in DOMAIN graph.link /\ rb'.link[x] = graph.link[x]
  PROVE  Traces'
<1>0. UNCHANGED <<graph, journal, lastId, clock, past, undone, horizon, fragile>>
  BY DEF log
<1>1. ASSUME NEW t, NEW kind \in Kind, NEW x, NEW v, Known(t, kind, x, v)'
      PROVE  Known(t, kind, x, v)
  <2>1. CASE From(journal, t, graph, kind, x, v)
    BY <2>1 DEF Known
  <2>2. CASE kind = "link" /\ t <= rb'.target /\ x \in DOMAIN rb'.link /\ rb'.link[x] = v
    <3>1. CASE t <= rb.target /\ x \in DOMAIN rb.link /\ rb'.link[x] = rb.link[x]
      BY <2>2, <3>1 DEF Known
    <3>2. CASE x \in DOMAIN graph.link /\ rb'.link[x] = graph.link[x]
      BY <2>2, <3>2 DEF Known, From, Rows
    <3> QED
      BY <2>2, <3>1, <3>2
  <2> QED
    BY <1>0, <1>1, <2>1, <2>2 DEF Known
<1>2. \A t : Restorable(t)' <=> Restorable(t)
  BY <1>0 DEF Restorable
<1>3. RowsOld'
  BY <1>0, <1>1 DEF Traces, RowsOld
<1>4. NoneMadeUp'
  BY <1>0, <1>1, <1>2 DEF Traces, NoneMadeUp
<1>5. ASSUME NEW t, NEW kind \in Kind, NEW x, Steady(t, kind, x)
      PROVE  Steady(t, kind, x)'
  BY <1>0, <1>1, <1>5 DEF Steady
<1>6. StableRows'
  BY <1>0, <1>2, <1>5 DEF Traces, StableRows
<1> QED
  BY <1>3, <1>4, <1>6 DEF Traces

\* A second that ends: its graph becomes past, and the journal holds nothing later.
LEMMA TickTraces ==
  ASSUME Base, Traces, Tick
  PROVE  Traces'
<1>0. /\ clock' = clock + 1 /\ past' = Append(past, graph)
      /\ UNCHANGED <<graph, journal, lastId, rb, born, undone, horizon, fragile>>
  BY DEF Tick, database, log
<1>1. /\ clock \in Nat \ {0} /\ graph \in Graphs
      /\ \A k \in DOMAIN journal : journal[k].at \in 1..clock
  BY Basics DEF Base, TypeOK
<1>2. past \in Seq(Graphs) /\ Len(past) = clock - 1
  <2>1. past \in [1..(clock - 1) -> Graphs] /\ clock - 1 \in Nat
    BY <1>1 DEF Base, TypeOK
  <2> QED
    BY <2>1
<1> DEFINE pp == past'
<1>3. \A t \in 1..(clock - 1) : pp[t] = past[t]
  BY <1>0, <1>1, <1>2
<1>4. pp[clock] = graph
  <2>1. clock = Len(past) + 1
    BY <1>1, <1>2
  <2> QED
    BY <1>0, <1>1, <1>2, <2>1
<1>5. 1..(clock' - 1) = 1..clock /\ \A t \in 1..clock : t = clock \/ t \in 1..(clock - 1)
  BY <1>0, <1>1
<1>6. \A t, x, v : \A kind \in Kind : Known(t, kind, x, v)' <=> Known(t, kind, x, v)
  BY <1>0 DEF Known
<1>7. \A t : Restorable(t)' <=> Restorable(t)
  BY <1>0 DEF Restorable
<1>8. Later(journal, clock) = {}
  BY <1>1 DEF Later
<1>9. ~ (clock <= rb.target) \/ DOMAIN rb.link = {}
  BY <1>1, JournalAssumption DEF Base, Exported, TypeOK, Rollbacks, Time
<1>10. ASSUME NEW kind \in Kind, NEW x, NEW v, Known(clock, kind, x, v)
       PROVE  x \in DOMAIN Rows(graph, kind) /\ Rows(graph, kind)[x] = v
  BY <1>8, <1>9, <1>10 DEF Known, From
<1>11. ASSUME NEW kind \in Kind, NEW x, NEW v, Known(clock, kind, x, v)
       PROVE  v <= clock
  <2>1. Known(0, kind, x, v)
    BY <1>10, <1>11 DEF Known, From
  <2> QED
    BY <2>1 DEF Traces, RowsOld
<1> HIDE DEF pp
<1>12. RowsOld'
  <2> SUFFICES ASSUME NEW kind \in Kind, NEW x, NEW v, Known(0, kind, x, v) PROVE v <= clock + 1
    BY <1>0, <1>6 DEF RowsOld
  <2>1. v <= clock
    BY DEF Traces, RowsOld
  <2>2. v \in Nat
    <3>1. CASE x \in DOMAIN Rows(graph, kind) /\ Rows(graph, kind)[x] = v
      BY <1>1, <3>1, RowKeys, JournalAssumption DEF Time
    <3>2. CASE \E k \in Later(journal, 0) : Removed(journal[k], kind, x) /\ journal[k].before = v
      <4>1. PICK k \in DOMAIN journal : Removed(journal[k], kind, x) /\ journal[k].before = v
        BY <3>2 DEF Later
      <4>2. Fits(journal[k], born)
        BY DEF Base, Logged, Kept, Fitting
      <4> QED
        BY <4>1, <4>2, JournalAssumption DEF Fits, Removed, Kind, Time
    <3>3. CASE x \in DOMAIN rb.link /\ rb.link[x] = v
      <4>1. rb.link \in Tables(Link, Time)
        BY DEF Base, TypeOK, Rollbacks
      <4>2. v \in Time
        BY <3>3, <4>1, TableRows
      <4> QED
        BY <4>2, JournalAssumption DEF Time
    <3> QED
      BY <3>1, <3>2, <3>3 DEF Known, From
  <2> QED
    BY <1>1, <2>1, <2>2
<1>13. NoneMadeUp'
  <2> SUFFICES ASSUME NEW t \in 1..clock, NEW kind \in Kind, NEW x, NEW v, Restorable(t),
                      Known(t, kind, x, v), v <= t
               PROVE  x \in DOMAIN Rows(pp[t], kind)
    BY <1>5, <1>6, <1>7 DEF NoneMadeUp, pp
  <2>1. CASE t = clock
    BY <1>4, <1>10, <2>1
  <2>2. CASE t \in 1..(clock - 1)
    BY <1>3, <2>2 DEF Traces, NoneMadeUp
  <2> QED
    BY <1>5, <2>1, <2>2
<1>14. StableRows'
  <2>1. \A t, x : \A kind \in Kind : Steady(t, kind, x) => Steady(t, kind, x)'
    BY <1>0, <1>6 DEF Steady
  <2> SUFFICES ASSUME NEW t \in 1..clock, NEW kind \in Kind, NEW x \in DOMAIN Rows(pp[t], kind),
                      Restorable(t), fragile[x] <= t
               PROVE  Steady(t, kind, x)
    BY <1>0, <1>5, <1>7, <2>1 DEF StableRows, pp
  <2>2. CASE t = clock
    <3>1. x \in DOMAIN Rows(graph, kind)
      BY <1>4, <2>2
    <3> QED
      BY <1>8, <1>11, <2>2, <3>1 DEF Steady, Brought
  <2>3. CASE t \in 1..(clock - 1)
    BY <1>3, <2>3 DEF Traces, StableRows
  <2> QED
    BY <1>5, <2>2, <2>3
<1> QED
  BY <1>12, <1>13, <1>14 DEF Traces

\* Pruning keeps what restorable seconds need.
LEMMA PruneTraces ==
  ASSUME Base, Traces, NEW u \in (horizon + 1)..(clock + 1), Prune(u)
  PROVE  Traces'
<1> DEFINE S == {k \in DOMAIN journal : journal[k].at < u}
           jr == Without(journal, S)
<1>0. /\ clock \in Nat /\ horizon \in Nat
      /\ \A k \in DOMAIN journal : journal[k].at \in Nat
  BY Basics DEF Base, TypeOK
<1>1. /\ UNCHANGED <<graph, lastId, born, rb, clock, past, undone, fragile>> /\ horizon' = u /\ journal' = jr
  BY DEF Prune, Write
<1>2. DOMAIN jr = DOMAIN journal \ S
  BY WithoutKeys
<1>3. \A k \in DOMAIN journal \ S : jr[k] = journal[k]
  BY WithoutRow
<1>4. u \in Nat /\ horizon < u
  BY <1>0
<1> HIDE DEF jr
<1>5. \A t \in Nat : u <= t + 1 =>
        /\ Later(jr, t) = Later(journal, t)
        /\ \A k \in Later(journal, t) : journal[k] = jr[k]
  BY <1>0, <1>2, <1>3, <1>4 DEF Later
<1>6. \A t : \A k \in Later(jr, t) : k \in Later(journal, t) /\ journal[k] = jr[k]
  BY <1>2, <1>3 DEF Later
<1> HIDE DEF S
<1>7. \A t, x, v : \A kind \in Kind : Known(t, kind, x, v)' => Known(t, kind, x, v)
  BY <1>1, <1>6 DEF Known, From
<1>8. \A t \in 1..(clock - 1) : Restorable(t)' => Restorable(t) /\ u <= t + 1
  BY <1>0, <1>1, <1>4 DEF Restorable
<1>9. RowsOld'
  BY <1>1, <1>7 DEF Traces, RowsOld
<1>10. NoneMadeUp'
  BY <1>1, <1>7, <1>8 DEF Traces, NoneMadeUp
<1>11. StableRows'
  <2> SUFFICES ASSUME NEW t \in 1..(clock - 1), NEW kind \in Kind, NEW x \in DOMAIN Rows(past[t], kind),
                      Restorable(t)', fragile[x] <= t
               PROVE  Steady(t, kind, x)'
    BY <1>1 DEF StableRows
  <2>1. Restorable(t) /\ u <= t + 1 /\ t \in Nat
    BY <1>0, <1>8
  <2>2. Steady(t, kind, x)
    BY <2>1 DEF Traces, StableRows
  <2>3. /\ Later(jr, t) = Later(journal, t)
        /\ \A k \in Later(journal, t) : journal[k] = jr[k]
    BY <1>5, <2>1
  <2>4. \A v : Known(t, kind, x, v)' => v <= t
    BY <1>7, <2>2 DEF Steady
  <2>5. Brought(jr, t, graph, kind, x, 0)
    BY <2>2, <2>3 DEF Steady, Brought
  <2>6. \A n \in EndsOf(kind, x) : \A k \in Later(jr, t) :
          Removed(jr[k], kind, x) => Recoverable(jr, t, graph, n, k)
    BY <2>2, <2>3 DEF Steady, Recoverable
  <2> QED
    BY <1>1, <2>4, <2>5, <2>6 DEF Steady
<1> QED
  BY <1>9, <1>10, <1>11 DEF Traces

-----------------------------------------------------------------------------
(* What a rollback makes of them *)

\* The rows of a graph that a cleanup leaves: those not newer, of nodes not newer.
LEMMA CleanupRows ==
  ASSUME NEW g \in Graphs, NEW t, NEW kind \in Kind
  PROVE  /\ \A x \in DOMAIN Rows(Cleanup(g, t), kind) :
              /\ x \in DOMAIN Rows(g, kind) /\ Rows(Cleanup(g, t), kind)[x] = Rows(g, kind)[x]
              /\ ~ (Rows(g, kind)[x] > t)
         /\ \A x \in DOMAIN Rows(g, kind) :
              ~ (Rows(g, kind)[x] > t) /\ EndsOf(kind, x) \cap NewerNodes(g.node, t) = {}
                => x \in DOMAIN Rows(Cleanup(g, t), kind)
<1> DEFINE N == NewerNodes(g.node, t)
           h == DeleteNodes(g, N)
           T == Touching(g.link, N)
           C == Cleanup(g, t)
<1>1. C.link = Without(h.link, Newer(h.link, t)) /\ C.bridge = Without(h.bridge, Newer(h.bridge, t))
  BY DEF Cleanup
<1>2. h.link = Without(g.link, T) /\ h.bridge = g.bridge
  BY NodesDeleted
<1>3. \A x \in DOMAIN g.link : x \in T <=> Ends(x) \cap N # {}
  BY DEF Touching
<1> HIDE DEF C, h, T, N
<1>4. DOMAIN h.link = DOMAIN g.link \ T
  BY <1>2, WithoutKeys
<1>5. \A x \in DOMAIN g.link \ T : h.link[x] = g.link[x]
  BY <1>2, WithoutRow
<1>6. DOMAIN C.link = DOMAIN h.link \ Newer(h.link, t)
  BY <1>1, WithoutKeys
<1>7. \A x \in DOMAIN h.link \ Newer(h.link, t) : C.link[x] = h.link[x]
  BY <1>1, WithoutRow
<1>8. DOMAIN C.bridge = DOMAIN h.bridge \ Newer(h.bridge, t)
  BY <1>1, WithoutKeys
<1>9. \A x \in DOMAIN h.bridge \ Newer(h.bridge, t) : C.bridge[x] = h.bridge[x]
  BY <1>1, WithoutRow
<1>10. /\ \A x \in DOMAIN Rows(C, kind) :
            /\ x \in DOMAIN Rows(g, kind) /\ Rows(C, kind)[x] = Rows(g, kind)[x]
            /\ ~ (Rows(g, kind)[x] > t)
       /\ \A x \in DOMAIN Rows(g, kind) :
            ~ (Rows(g, kind)[x] > t) /\ EndsOf(kind, x) \cap N = {} => x \in DOMAIN Rows(C, kind)
  <2>1. CASE kind = "link"
    BY <1>3, <1>4, <1>5, <1>6, <1>7, <2>1 DEF Rows, EndsOf, Newer
  <2>2. CASE kind = "bridge"
    BY <1>2, <1>8, <1>9, <2>2 DEF Rows, EndsOf, Newer
  <2> QED
    BY <2>1, <2>2 DEF Kind
<1> QED
  BY <1>10 DEF C, N

\* The rows after a rollback: those cleaned up and the exported links.
LEMMA RolledBackRows ==
  ASSUME Base, NEW t, NEW kind \in Kind
  PROVE  LET C == Cleanup(Replayed(t), t)
             G == RolledBack(t)
         IN /\ \A x \in DOMAIN Rows(C, kind) :
                 x \in DOMAIN Rows(G, kind) /\ Rows(G, kind)[x] = Rows(C, kind)[x]
            /\ \A x \in DOMAIN Rows(G, kind) :
                 \/ x \in DOMAIN Rows(C, kind)
                 \/ kind = "link" /\ x \in DOMAIN rb.link /\ Rows(G, kind)[x] = rb.link[x]
<1> DEFINE C == Cleanup(Replayed(t), t)
           G == RolledBack(t)
<1>1. C \in Graphs /\ G = Reimport(C) /\ TypeOK /\ Exported
  BY RolledBackGraph DEF Base, RolledBack
<1> HIDE DEF C, G
<1>2. G.link = Ignoring(C.link, rb.link) /\ G.bridge = C.bridge
  BY <1>1, ReimportGraph
<1>3. DOMAIN Ignoring(C.link, rb.link) = DOMAIN C.link \cup DOMAIN rb.link
  BY IgnoringKeys
<1>4. \A x \in DOMAIN C.link \cup DOMAIN rb.link :
        Ignoring(C.link, rb.link)[x] = IF x \in DOMAIN C.link THEN C.link[x] ELSE rb.link[x]
  BY IgnoringRow
<1>5. /\ \A x \in DOMAIN Rows(C, kind) :
           x \in DOMAIN Rows(G, kind) /\ Rows(G, kind)[x] = Rows(C, kind)[x]
      /\ \A x \in DOMAIN Rows(G, kind) :
           \/ x \in DOMAIN Rows(C, kind)
           \/ kind = "link" /\ x \in DOMAIN rb.link /\ Rows(G, kind)[x] = rb.link[x]
  <2>1. CASE kind = "link"
    BY <1>2, <1>3, <1>4, <2>1 DEF Rows
  <2>2. CASE kind = "bridge"
    BY <1>2, <2>2 DEF Rows
  <2> QED
    BY <2>1, <2>2 DEF Kind
<1> QED
  BY <1>5 DEF C, G

\* The nodes born by a time have no INSERT later.
LEMMA BornBefore ==
  ASSUME Base, NEW u \in Nat, NEW n \in DOMAIN born, born[n] <= u
  PROVE  NoInsert(journal, u, n)
<1> SUFFICES ASSUME NEW k \in Later(journal, u), About(journal[k], n), journal[k].op = "INSERT"
             PROVE  FALSE
  BY DEF NoInsert
<1>1. Fits(journal[k], born) /\ journal[k].at > u
  BY DEF Base, Logged, Kept, Fitting, Later
<1>2. journal[k].at = born[n]
  BY <1>1 DEF Fits, About
<1>3. born \in Tables(Node, Nat)
  BY Basics DEF Base
<1>4. born[n] \in Nat
  BY <1>3, TableRows
<1> QED
  BY <1>1, <1>2, <1>4

\* Such nodes come back with a replay to that time, if they are recoverable, and are not
\* cleaned up.
LEMMA NodeComesBack ==
  ASSUME Base, NEW u \in Nat, NEW n \in DOMAIN born, born[n] <= u,
         Recoverable(journal, u, graph, n, 0)
  PROVE  n \in DOMAIN RolledBack(u).node
<1>1. /\ born \in Tables(Node, Nat) /\ graph \in Graphs /\ lastId \in Nat
      /\ Dated(graph.node, born) /\ Fitting(journal, born) /\ DOMAIN journal \subseteq 1..lastId
  BY Basics DEF Base, Births, Logged, Kept
<1>2. PICK s : Stages(s, journal, lastId, graph, u) /\ Replay(journal, lastId, graph, u) = s[0]
  BY <1>1, ReplayStages
<1>3. NoInsert(journal, u, n)
  BY BornBefore
<1>4. \A k \in 0..lastId : Recoverable(journal, u, graph, n, k) => n \in DOMAIN s[k].node
  BY <1>1, <1>2, <1>3, StagesRecover
<1>5. n \in DOMAIN Replayed(u).node
  BY <1>1, <1>2, <1>4 DEF Replayed
<1>6. n \in DOMAIN Cleanup(Replayed(u), u).node
  BY <1>5, CleanedNodes
<1>7. RolledBack(u).node = Ignoring(Cleanup(Replayed(u), u).node, rb.node)
  BY RolledBackGraph
<1> DEFINE f == Cleanup(Replayed(u), u).node
<1>8. DOMAIN Ignoring(f, rb.node) = DOMAIN f \cup DOMAIN rb.node
  BY IgnoringKeys
<1> QED
  BY <1>6, <1>7, <1>8

\* What a node needs to be recoverable at a time, it needs later too.
LEMMA RecoverableLater ==
  ASSUME Base, NEW t \in Nat, NEW u \in Nat, t <= u, NEW n, NEW k \in Later(journal, u),
         Recoverable(journal, t, graph, n, k)
  PROVE  Recoverable(journal, u, graph, n, k)
<1>1. /\ \A i, j \in DOMAIN journal : i <= j => journal[i].at <= journal[j].at
      /\ \A i \in DOMAIN journal : i \in Nat /\ journal[i].at \in Nat
  BY Basics DEF Base, Logged, Kept, Ordered
<1>2. ASSUME NEW i \in Later(journal, t), i > k PROVE i \in Later(journal, u)
  BY <1>1, <1>2 DEF Later
<1> QED
  BY <1>2 DEF Recoverable

\* A row of the graph of t comes back with a replay to a time u not before t, if it is there
\* or was deleted after u, and is not cleaned up.
LEMMA RowComesBack ==
  ASSUME Base, PastDated, NEW t \in 1..(clock - 1), NEW u \in Nat, t <= u, NEW kind \in Kind,
         NEW x \in DOMAIN Rows(past[t], kind), Steady(t, kind, x),
         Brought(journal, u, graph, kind, x, 0)
  PROVE  x \in DOMAIN Rows(RolledBack(u), kind)
<1> DEFINE R == Replayed(u)
<1>1. /\ born \in Tables(Node, Nat) /\ graph \in Graphs /\ lastId \in Nat /\ clock \in Nat
      /\ Dated(graph.node, born) /\ Fitting(journal, born) /\ DOMAIN journal \subseteq 1..lastId
      /\ past[t] \in Graphs
  BY Basics DEF Base, Births, Logged, Kept, TypeOK
<1>2. \A n \in EndsOf(kind, x) : n \in DOMAIN born /\ born[n] \in Nat /\ born[n] <= u
  <2> SUFFICES ASSUME NEW n \in EndsOf(kind, x) PROVE n \in DOMAIN born /\ born[n] \in Nat /\ born[n] <= u
    OBVIOUS
  <2>1. n \in DOMAIN past[t].node
    <3>1. \A l \in DOMAIN past[t].link : Ends(l) \subseteq DOMAIN past[t].node
      BY <1>1, GraphParts
    <3> QED
      BY <3>1 DEF EndsOf, Rows
  <2>2. n \in DOMAIN born /\ born[n] <= t
    BY <2>1 DEF PastDated, Dated
  <2>3. born[n] \in Nat
    BY <1>1, <2>2, TableRows
  <2> QED
    BY <1>1, <2>2, <2>3
<1>3. \A k \in Later(journal, u) : k \in Later(journal, t)
  BY <1>1, Basics DEF Base, Logged, Kept, Later
<1>4. Bound(journal, u, graph, kind, x)
  <2>1. \A n \in EndsOf(kind, x) : NoInsert(journal, u, n)
    BY <1>2, BornBefore
  <2>2. ASSUME NEW n \in EndsOf(kind, x), NEW k \in Later(journal, u), Removed(journal[k], kind, x)
        PROVE  Recoverable(journal, u, graph, n, k)
    <3>1. Recoverable(journal, t, graph, n, k)
      BY <1>3, <2>2 DEF Steady
    <3>2. t \in Nat
      OBVIOUS
    <3> QED
      BY <3>1, <3>2, RecoverableLater
  <2> QED
    BY <2>1, <2>2 DEF Bound
<1>5. PICK s : Stages(s, journal, lastId, graph, u) /\ Replay(journal, lastId, graph, u) = s[0]
  BY <1>1, ReplayStages
<1>6. \A k \in 0..lastId : Brought(journal, u, graph, kind, x, k) => x \in DOMAIN Rows(s[k], kind)
  BY <1>1, <1>4, <1>5, StagesBring
<1>7. x \in DOMAIN Rows(R, kind)
  BY <1>1, <1>5, <1>6 DEF Replayed
<1>8. \A k \in 0..lastId : x \in DOMAIN Rows(s[k], kind) =>
        From(journal, u, graph, kind, x, Rows(s[k], kind)[x])
  BY <1>1, <1>5, StagesFrom
<1>9. From(journal, u, graph, kind, x, Rows(R, kind)[x])
  BY <1>1, <1>5, <1>7, <1>8 DEF Replayed
<1>10. Known(t, kind, x, Rows(R, kind)[x])
  BY <1>3, <1>9 DEF Known, From
<1>11. R \in Graphs /\ Dated(R.node, born)
  BY RolledBackGraph
<1>12. Rows(R, kind)[x] \in Nat /\ ~ (Rows(R, kind)[x] > u)
  <2>1. Rows(R, kind)[x] \in Time
    BY <1>7, <1>11, RowKeys
  <2>2. Rows(R, kind)[x] <= t
    BY <1>10 DEF Steady
  <2> QED
    BY <2>1, <2>2, JournalAssumption DEF Time
<1> HIDE DEF R
<1>13. EndsOf(kind, x) \cap NewerNodes(R.node, u) = {}
  BY <1>2, <1>11 DEF NewerNodes, Dated
<1>14. x \in DOMAIN Rows(Cleanup(R, u), kind)
  BY <1>7, <1>11, <1>12, <1>13, CleanupRows
<1> QED
  BY <1>14, RolledBackRows DEF R

\* A row that a cleaned-up replay leaves is one that it brought back, and is not newer.
LEMMA CleanedFrom ==
  ASSUME Base, NEW u \in Nat, NEW kind \in Kind,
         NEW x \in DOMAIN Rows(Cleanup(Replayed(u), u), kind)
  PROVE  LET v == Rows(Cleanup(Replayed(u), u), kind)[x]
         IN From(journal, u, graph, kind, x, v) /\ v <= u
<1> DEFINE R == Replayed(u)
           v == Rows(Cleanup(R, u), kind)[x]
<1>1. /\ born \in Tables(Node, Nat) /\ graph \in Graphs /\ lastId \in Nat
      /\ Dated(graph.node, born) /\ Fitting(journal, born)
  BY Basics DEF Base, Births, Logged, Kept
<1>2. R \in Graphs
  BY RolledBackGraph
<1>3. PICK s : Stages(s, journal, lastId, graph, u) /\ Replay(journal, lastId, graph, u) = s[0]
  BY <1>1, ReplayStages
<1>4. \A k \in 0..lastId : x \in DOMAIN Rows(s[k], kind) =>
        From(journal, u, graph, kind, x, Rows(s[k], kind)[x])
  BY <1>1, <1>3, StagesFrom
<1>5. x \in DOMAIN Rows(R, kind) => From(journal, u, graph, kind, x, Rows(R, kind)[x])
  BY <1>1, <1>3, <1>4 DEF Replayed
<1> HIDE DEF R
<1>6. x \in DOMAIN Rows(R, kind) /\ v = Rows(R, kind)[x] /\ ~ (Rows(R, kind)[x] > u)
  BY <1>2, CleanupRows DEF R
<1>7. v \in Nat
  <2>1. v \in Time
    BY <1>2, <1>6, RowKeys
  <2> QED
    BY <2>1, JournalAssumption DEF Time
<1> HIDE DEF v
<1>8. From(journal, u, graph, kind, x, v) /\ v <= u
  BY <1>5, <1>6, <1>7
<1> QED
  BY <1>8 DEF v, R

\* What may be brought back from later is among what may be brought back from before.
LEMMA FromBefore ==
  ASSUME Base, NEW t \in Nat, NEW u \in Nat, t <= u, NEW kind, NEW x, NEW v,
         From(journal, u, graph, kind, x, v)
  PROVE  From(journal, t, graph, kind, x, v)
<1>1. \A k \in DOMAIN journal : journal[k].at \in Nat
  BY Basics DEF Base, Logged, Kept
<1>2. \A k \in Later(journal, u) : k \in Later(journal, t)
  BY <1>1 DEF Later
<1> QED
  BY <1>2 DEF From

\* A rollback makes up no row.
LEMMA RolledBackKnown ==
  ASSUME Base, NEW t \in Nat, rb.target \in Nat, t <= rb.target, NEW kind \in Kind,
         NEW x \in DOMAIN Rows(RolledBack(rb.target), kind)
  PROVE  Known(t, kind, x, Rows(RolledBack(rb.target), kind)[x])
<1> DEFINE u == rb.target
           C == Cleanup(Replayed(u), u)
           G == RolledBack(u)
           v == Rows(G, kind)[x]
<1>1. /\ x \in DOMAIN Rows(C, kind) => Rows(G, kind)[x] = Rows(C, kind)[x]
      /\ \/ x \in DOMAIN Rows(C, kind)
         \/ kind = "link" /\ x \in DOMAIN rb.link /\ Rows(G, kind)[x] = rb.link[x]
  BY RolledBackRows
<1>2. x \in DOMAIN Rows(C, kind) => From(journal, u, graph, kind, x, Rows(C, kind)[x])
  BY CleanedFrom
<1> HIDE DEF C, G
<1>3. x \in DOMAIN Rows(C, kind) => From(journal, t, graph, kind, x, Rows(C, kind)[x])
  BY <1>2, FromBefore
<1>4. Known(t, kind, x, v)
  BY <1>1, <1>3 DEF Known
<1> QED
  BY <1>4 DEF G

\* After a rollback to u, rows of a second by u are known and steady as they were: what the replay
\* brings back was known, and a steady row is brought back or its DELETE, by u, is kept.
LEMMA CommitTraces ==
  ASSUME Base, Base', PastDated, Traces, Commit
  PROVE  Traces'
<1> DEFINE u == rb.target
           jr == Without(journal, Later(journal, u))
           G == RolledBack(u)
<1>0. TypeOK /\ clock \in Nat
  BY Basics DEF Base
<1>1. /\ rb' = IdleRollback /\ journal' = jr /\ graph' = G
      /\ undone' = undone \cup {s \in Time : u < s /\ s < clock}
      /\ UNCHANGED <<lastId, clock, born, past, horizon, fragile>>
  BY DEF Commit
<1>2. u \in Nat
  BY <1>0, JournalAssumption DEF TypeOK, Rollbacks, Time
<1>3. DOMAIN jr = DOMAIN journal \ Later(journal, u)
  BY WithoutKeys
<1>4. \A k \in DOMAIN journal \ Later(journal, u) : jr[k] = journal[k]
  BY WithoutRow
<1>5. DOMAIN rb'.link = {}
  BY <1>1, NoRowsTable DEF IdleRollback
<1> HIDE DEF jr
<1>6. \A t : \A k \in Later(jr, t) : k \in Later(journal, t) /\ jr[k] = journal[k]
  BY <1>3, <1>4 DEF Later
<1>7. \A t : \A k \in Later(journal, t) : k \in Later(journal, u) \/ (k \in Later(jr, t) /\ jr[k] = journal[k])
  BY <1>3, <1>4 DEF Later
<1>8. ASSUME NEW t \in Nat, t <= u, NEW kind \in Kind, NEW x, NEW v, Known(t, kind, x, v)'
      PROVE  Known(t, kind, x, v)
  <2>1. From(jr, t, G, kind, x, v)
    BY <1>1, <1>5, <1>8 DEF Known
  <2>2. CASE x \in DOMAIN Rows(G, kind) /\ Rows(G, kind)[x] = v
    BY <1>2, <1>8, <2>2, RolledBackKnown
  <2>3. CASE \E k \in Later(jr, t) : Removed(jr[k], kind, x) /\ jr[k].before = v
    BY <1>6, <2>3 DEF Known, From
  <2> HIDE DEF G
  <2> QED
    BY <2>1, <2>2, <2>3 DEF From
<1>9. \A t \in 1..(clock - 1) : Restorable(t)' => Restorable(t) /\ t <= u
  <2>1. \A t \in 1..(clock - 1) : t \in Time /\ t < clock
    <3>1. clock \in 1..MaxTime /\ MaxTime \in Nat
      BY <1>0, JournalAssumption DEF TypeOK, Time
    <3> QED
      BY <3>1 DEF Time
  <2>2. \A t \in 1..(clock - 1) : Restorable(t)' => t \notin undone /\ ~ (u < t) /\ horizon <= t + 1
    <3> HIDE DEF u
    <3> QED
      BY <1>1, <2>1 DEF Restorable
  <2> QED
    BY <1>0, <1>2, <2>2 DEF Restorable
<1>10. RowsOld'
  BY <1>1, <1>2, <1>8 DEF Traces, RowsOld
<1>11. NoneMadeUp'
  <2> SUFFICES ASSUME NEW t \in 1..(clock - 1), NEW kind \in Kind, NEW x, NEW v, Restorable(t)',
                      Known(t, kind, x, v)', v <= t
               PROVE  x \in DOMAIN Rows(past[t], kind)
    BY <1>1 DEF NoneMadeUp
  <2>1. Restorable(t) /\ t <= u /\ t \in Nat
    BY <1>9
  <2>2. Known(t, kind, x, v)
    BY <1>8, <2>1
  <2> QED
    BY <2>1, <2>2 DEF Traces, NoneMadeUp
<1>12. StableRows'
  <2> SUFFICES ASSUME NEW t \in 1..(clock - 1), NEW kind \in Kind, NEW x \in DOMAIN Rows(past[t], kind),
                      Restorable(t)', fragile[x] <= t
               PROVE  Steady(t, kind, x)'
    BY <1>1 DEF StableRows
  <2>1. Restorable(t) /\ t <= u /\ t \in Nat
    BY <1>9
  <2>2. Steady(t, kind, x)
    BY <2>1 DEF Traces, StableRows
  <2>3. \A v : Known(t, kind, x, v)' => v <= t
    BY <1>8, <2>1, <2>2 DEF Steady
  <2>4. Brought(jr, t, G, kind, x, 0)
    <3>1. Brought(journal, t, graph, kind, x, 0)
      BY <2>2 DEF Steady
    <3>2. CASE Brought(journal, u, graph, kind, x, 0)
      <4>1. x \in DOMAIN Rows(G, kind)
        BY <1>2, <2>1, <2>2, <3>2, RowComesBack
      <4> QED
        BY <4>1 DEF Brought
    <3>3. CASE ~ Brought(journal, u, graph, kind, x, 0)
      BY <1>7, <3>1, <3>3 DEF Brought
    <3> QED
      BY <3>2, <3>3
  <2>5. ASSUME NEW n \in EndsOf(kind, x), NEW k \in Later(jr, t), Removed(jr[k], kind, x)
        PROVE  Recoverable(jr, t, G, n, k)
    <3>1. Recoverable(journal, t, graph, n, k) /\ k > 0
      <4>1. k \in Later(journal, t) /\ Removed(journal[k], kind, x)
        BY <1>6, <2>5
      <4>2. k > 0
        BY <4>1, Basics DEF Base, Logged, Kept, Later
      <4> QED
        BY <2>2, <4>1, <4>2 DEF Steady
    <3>2. n \in DOMAIN born /\ born[n] <= u
      <4>1. past[t] \in Graphs
        BY <1>0 DEF TypeOK
      <4>2. n \in DOMAIN past[t].node
        <5>1. \A l \in DOMAIN past[t].link : Ends(l) \subseteq DOMAIN past[t].node
          BY <4>1, GraphParts
        <5> QED
          BY <5>1 DEF EndsOf, Rows
      <4>3. n \in DOMAIN born /\ born[n] <= t
        BY <4>2 DEF PastDated, Dated
      <4>4. born \in Tables(Node, Nat)
        BY <1>0, Basics
      <4>5. born[n] \in Nat
        BY <4>3, <4>4, TableRows
      <4> QED
        BY <1>2, <2>1, <4>3, <4>5
    <3>3. CASE Recoverable(journal, u, graph, n, 0)
      <4>1. n \in DOMAIN G.node
        BY <1>2, <3>2, <3>3, NodeComesBack
      <4> QED
        BY <4>1 DEF Recoverable
    <3>4. CASE ~ Recoverable(journal, u, graph, n, 0)
      <4>1. PICK i \in Later(journal, t) : i > k /\ About(journal[i], n) /\ journal[i].op = "DELETE"
        BY <3>1, <3>4 DEF Recoverable
      <4>2. i > 0
        BY <4>1, Basics DEF Base, Logged, Kept, Later
      <4>3. i \in Later(jr, t) /\ jr[i] = journal[i]
        BY <1>7, <3>4, <4>1, <4>2 DEF Recoverable
      <4> QED
        BY <4>1, <4>3 DEF Recoverable
    <3> QED
      BY <3>3, <3>4
  <2> HIDE DEF G
  <2> QED
    BY <1>1, <2>3, <2>4, <2>5 DEF Steady
<1> QED
  BY <1>10, <1>11, <1>12 DEF Traces

\* What a rollback leaves of links and bridges.
LEMMA RestoresLinksStep ==
  ASSUME Base, PastDated, Traces, Commit, Restorable(rb.target), NEW kind \in Kind, NEW x
  PROVE  /\ x \in DOMAIN Rows(graph', kind) =>
              \/ x \in DOMAIN Rows(past[rb.target], kind)
              \/ kind = "link" /\ x \in DOMAIN rb.link
         /\ x \in DOMAIN Rows(past[rb.target], kind) /\ fragile[x] <= rb.target
              => x \in DOMAIN Rows(graph', kind)
<1> DEFINE u == rb.target
           C == Cleanup(Replayed(u), u)
<1>0. TypeOK /\ Exported /\ rb.pc = "replay" /\ graph' = RolledBack(u) /\ clock \in Nat
  BY Basics DEF Base, Commit
<1>1. u \in Nat /\ u \in 1..(clock - 1) /\ u <= u
  BY <1>0, JournalAssumption DEF TypeOK, Rollbacks, Time, Exported
<1>2. ASSUME x \in DOMAIN Rows(C, kind) PROVE x \in DOMAIN Rows(past[u], kind)
  <2>1. /\ From(journal, u, graph, kind, x, Rows(C, kind)[x]) /\ Rows(C, kind)[x] <= u
    BY <1>1, <1>2, CleanedFrom
  <2> HIDE DEF C
  <2>2. Known(u, kind, x, Rows(C, kind)[x])
    BY <2>1 DEF Known
  <2> QED
    BY <1>1, <2>1, <2>2 DEF Traces, NoneMadeUp
<1>3. x \in DOMAIN Rows(RolledBack(u), kind) =>
        x \in DOMAIN Rows(C, kind) \/ (kind = "link" /\ x \in DOMAIN rb.link)
  BY RolledBackRows
<1>4. ASSUME x \in DOMAIN Rows(past[u], kind), fragile[x] <= u
      PROVE  x \in DOMAIN Rows(RolledBack(u), kind)
  <2>1. Steady(u, kind, x)
    BY <1>1, <1>4 DEF Traces, StableRows
  <2>2. Brought(journal, u, graph, kind, x, 0)
    BY <2>1 DEF Steady
  <2> QED
    BY <1>1, <1>4, <2>1, <2>2, RowComesBack
<1> QED
  BY <1>0, <1>2, <1>3, <1>4

\* The beginning: links of the first second are of 1, the others of 2, and none was deleted.
LEMMA InitTraces ==
  ASSUME Init
  PROVE  Traces
<1>1. PICK old, new : Beginning(old, new)
  BY InitBegins
<1>2. clock = 2 /\ rb = IdleRollback /\ DOMAIN rb.link = {}
  BY NoRowsTable DEF Init, IdleRollback
<1> DEFINE O == OldLinks(old, new)
           A == AllLinks(old, new)
<1>3. graph.link = Ignoring(O, A) /\ graph.bridge = NoRows
  BY <1>1 DEF Beginning
<1>4. past[1].link = O /\ past[1].bridge = NoRows /\ 1..(clock - 1) = {1}
  BY <1>1, <1>2 DEF Beginning
<1>5. \A k \in DOMAIN journal : journal[k].op = "INSERT"
  <2>1. \A k \in 1..lastId : journal[k] \in NodeEntries(new) \cup LinkEntries(old, new)
    BY <1>1, FirstEntries
  <2>2. DOMAIN journal = 1..lastId
    BY <1>1, FirstEntries
  <2> QED
    BY <2>1, <2>2 DEF NodeEntries, LinkEntries, FirstEntry
<1>6. /\ \A x \in DOMAIN O : O[x] = 1
      /\ \A x \in DOMAIN A : A[x] = 1 \/ A[x] = 2
      /\ \A x \in DOMAIN A : A[x] = 1 => x \in DOMAIN O
  BY DEF OldLinks, AllLinks, LinkAt
<1> HIDE DEF O, A
<1>7. DOMAIN Ignoring(O, A) = DOMAIN O \cup DOMAIN A
  BY IgnoringKeys
<1>8. \A x \in DOMAIN O \cup DOMAIN A : Ignoring(O, A)[x] = IF x \in DOMAIN O THEN O[x] ELSE A[x]
  BY IgnoringRow
<1>9. DOMAIN NoRows = {}
  BY NoRowsTable
<1>10. \A t, x : \A kind \in Kind : \A k \in Later(journal, t) : ~ Removed(journal[k], kind, x)
  BY <1>5 DEF Later, Removed
<1>11. ASSUME NEW t, NEW kind \in Kind, NEW x, NEW v, Known(t, kind, x, v)
       PROVE  kind = "link" /\ x \in DOMAIN graph.link /\ v = graph.link[x]
  BY <1>2, <1>3, <1>9, <1>10, <1>11 DEF Known, From, Rows, Kind
<1>12. RowsOld
  BY <1>2, <1>3, <1>6, <1>7, <1>8, <1>11 DEF RowsOld
<1>13. NoneMadeUp
  <2> SUFFICES ASSUME NEW kind \in Kind, NEW x, NEW v, Known(1, kind, x, v), v <= 1
               PROVE  x \in DOMAIN Rows(past[1], kind)
    BY <1>4 DEF NoneMadeUp
  <2>1. kind = "link" /\ x \in DOMAIN graph.link /\ v = graph.link[x]
    BY <1>11
  <2> QED
    BY <1>3, <1>4, <1>6, <1>7, <1>8, <2>1 DEF Rows
<1>14. StableRows
  <2> SUFFICES ASSUME NEW kind \in Kind, NEW x \in DOMAIN Rows(past[1], kind)
               PROVE  Steady(1, kind, x)
    BY <1>4 DEF StableRows
  <2>1. kind = "link" /\ x \in DOMAIN O
    BY <1>4, <1>9 DEF Rows, Kind
  <2>2. x \in DOMAIN graph.link /\ graph.link[x] = 1
    BY <1>3, <1>6, <1>7, <1>8, <2>1
  <2>3. \A v : Known(1, kind, x, v) => v <= 1
    BY <1>11, <2>2
  <2>4. Brought(journal, 1, graph, kind, x, 0)
    BY <2>1, <2>2 DEF Brought, Rows
  <2> QED
    BY <1>10, <2>3, <2>4 DEF Steady
<1> QED
  BY <1>12, <1>13, <1>14 DEF Traces

\* Whatever step is taken.
LEMMA NextTraces ==
  ASSUME Base, PastDated, Traces, [Next]_vars
  PROVE  Traces'
<1>0. Base'
  BY NextKeeps
<1>s. ASSUME UNCHANGED <<graph, log, clock, past, undone, horizon, fragile, rb>> PROVE Traces'
  BY <1>s, StillTraces
<1>1. CASE Tick
  BY <1>1, TickTraces
<1>2. ASSUME NEW n \in Node, WriteNode(n) PROVE Traces'
  <2>1. ASSUME NEW v \in Version, CreateNode(n, v) \/ UpdateNode(n, v) PROVE Traces'
    BY <1>0, <2>1, CreateNodeTraces, UpdateNodeTraces
  <2>2. CASE RemoveEdges(n) \/ RemoveNode(n)
    BY <1>0, <2>2, RemoveEdgesTraces, RemoveNodeTraces
  <2>3. CASE RemovalFails(n) \/ Enqueue(n) \/ ClaimOrRelease(n) \/ Pin(n) \/ Unpin(n)
    <3>1. UNCHANGED <<graph, log, clock, past, undone, horizon, fragile, rb>>
      BY <2>3 DEF RemovalFails, Enqueue, ClaimOrRelease, Pin, Unpin, Write, database, history
    <3> QED
      BY <1>s, <3>1
  <2> QED
    BY <1>2, <2>1, <2>2, <2>3 DEF WriteNode
<1>3. ASSUME NEW l \in Link, CreateEdge(l) PROVE Traces'
  BY <1>0, <1>3, CreateEdgeTraces
<1>4. ASSUME NEW b \in Bridge, CreateBridge(b) \/ DeleteBridge(b) PROVE Traces'
  BY <1>0, <1>4, CreateBridgeTraces, DeleteBridgeTraces
<1>5. ASSUME NEW t \in (horizon + 1)..(clock + 1), Prune(t) PROVE Traces'
  BY <1>5, PruneTraces
<1>6. CASE Rollback
  <2>t. rb \in [pc : {"idle", "walk", "nodes", "links", "replay"}, target : Time,
            ids : SUBSET Node, frontier : SUBSET Node,
            node : Tables(Node, Row), link : Tables(Link, Time), ops : 0..MaxOps]
    BY DEF Base, TypeOK, Rollbacks
  <2>0. ASSUME UNCHANGED <<database, clock, history>>
        PROVE  UNCHANGED <<graph, log, clock, past, undone, horizon, fragile>>
    BY <2>0 DEF database, history
  <2>1. ASSUME NEW t \in 1..(clock - 1), BeginRollback(t) PROVE Traces'
    <3>1. DOMAIN rb'.link = {}
      BY <2>1, NoRowsTable DEF BeginRollback, IdleRollback
    <3>2. UNCHANGED <<database, clock, history>>
      BY <2>1 DEF BeginRollback
    <3> QED
      BY <2>0, <3>1, <3>2, StillTraces
  <2>2. CASE WalkUp \/ ExportNodes
    <3>1. rb'.link = rb.link /\ rb'.target = rb.target
      BY <2>t, <2>2 DEF WalkUp, ExportNodes
    <3>2. UNCHANGED <<database, clock, history>>
      BY <2>2 DEF WalkUp, ExportNodes
    <3> QED
      BY <2>0, <3>1, <3>2, StillTraces
  <2>3. CASE ExportLinks
    <3> DEFINE L == {l \in DOMAIN graph.link : Ends(l) \subseteq rb.ids}
               f == Restrict(graph.link, L)
    <3>1. rb' = [rb EXCEPT !.pc = "replay", !.link = f]
      BY <2>3 DEF ExportLinks
    <3>2. \A x \in DOMAIN f : x \in DOMAIN graph.link /\ f[x] = graph.link[x]
      BY DEF Restrict
    <3> HIDE DEF f
    <3>3. rb'.link = f
      BY <2>t, <3>1
    <3>4. UNCHANGED <<database, clock, history>>
      BY <2>3 DEF ExportLinks
    <3> QED
      BY <2>0, <3>2, <3>3, <3>4, StillTraces
  <2>4. CASE Commit
    BY <1>0, <2>4, CommitTraces
  <2>5. CASE RollbackFails
    <3>1. DOMAIN rb'.link = {}
      BY <2>5, NoRowsTable DEF RollbackFails, IdleRollback
    <3>2. UNCHANGED <<database, clock, history>>
      BY <2>5 DEF RollbackFails
    <3> QED
      BY <2>0, <3>1, <3>2, StillTraces
  <2> QED
    BY <1>6, <2>1, <2>2, <2>3, <2>4, <2>5 DEF Rollback
<1>7. CASE UNCHANGED vars
  <2>1. UNCHANGED <<graph, log, clock, past, undone, horizon, fragile, rb>>
    BY <1>7 DEF vars, database, history
  <2> QED
    BY <1>s, <2>1
<1> QED
  BY <1>1, <1>2, <1>3, <1>4, <1>5, <1>6, <1>7 DEF Next

\* Links and bridges are restored: executeRollback leaves no link that the target second did
\* not have, but for the exported ones, and loses none but those re-created or cascaded since.
THEOREM LinksRestored == Spec => RestoresLinks
<1> DEFINE Ind == Base /\ Memory /\ Traces
<1>1. Init => Ind
  BY InitKeeps, InitMemory, InitTraces
<1>2. Ind /\ [Next]_vars => Ind'
  BY NextKeeps, NextMemory, NextTraces DEF Memory
<1>3. Ind /\ [Next]_vars =>
        [Commit /\ Restorable(rb.target) =>
           LET was == past[rb.target]
               stable(x) == fragile[x] <= rb.target
           IN /\ \A l \in Link :
                   /\ l \in DOMAIN graph'.link => l \in DOMAIN was.link \cup DOMAIN rb.link
                   /\ l \in DOMAIN was.link /\ stable(l) => l \in DOMAIN graph'.link
              /\ \A b \in Bridge :
                   /\ b \in DOMAIN graph'.bridge => b \in DOMAIN was.bridge
                   /\ b \in DOMAIN was.bridge /\ stable(b) => b \in DOMAIN graph'.bridge]_vars
  <2> SUFFICES ASSUME Base, Memory, Traces, Commit, Restorable(rb.target)
               PROVE  /\ \A l \in Link :
                           /\ l \in DOMAIN graph'.link =>
                                l \in DOMAIN past[rb.target].link \cup DOMAIN rb.link
                           /\ l \in DOMAIN past[rb.target].link /\ fragile[l] <= rb.target
                                => l \in DOMAIN graph'.link
                      /\ \A b \in Bridge :
                           /\ b \in DOMAIN graph'.bridge => b \in DOMAIN past[rb.target].bridge
                           /\ b \in DOMAIN past[rb.target].bridge /\ fragile[b] <= rb.target
                                => b \in DOMAIN graph'.bridge
    OBVIOUS
  <2>1. PastDated /\ "link" \in Kind /\ "bridge" \in Kind
    BY DEF Memory, Kind
  <2>2. \A g : Rows(g, "link") = g.link /\ Rows(g, "bridge") = g.bridge
    BY DEF Rows
  <2>3. \A l \in Link :
          /\ l \in DOMAIN Rows(graph', "link") =>
               l \in DOMAIN Rows(past[rb.target], "link") \/ l \in DOMAIN rb.link
          /\ l \in DOMAIN Rows(past[rb.target], "link") /\ fragile[l] <= rb.target
               => l \in DOMAIN Rows(graph', "link")
    BY <2>1, RestoresLinksStep
  <2>4. \A b \in Bridge :
          /\ b \in DOMAIN Rows(graph', "bridge") => b \in DOMAIN Rows(past[rb.target], "bridge")
          /\ b \in DOMAIN Rows(past[rb.target], "bridge") /\ fragile[b] <= rb.target
               => b \in DOMAIN Rows(graph', "bridge")
    BY <2>1, RestoresLinksStep
  <2> QED
    BY <2>2, <2>3, <2>4
<1> HIDE DEF Ind
<1> QED
  BY <1>1, <1>2, <1>3, PTL DEF Spec, RestoresLinks
=============================================================================
