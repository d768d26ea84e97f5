----------------------- MODULE ModelSemaphore_proofs -----------------------
(***************************************************************************)
(* Proofs about ModelSemaphore for every number of callers, semaphores and *)
(* configurations: the type invariant, that no wake-up is lost, that the   *)
(* timing section has one owner, and that dispatches keep their pause.     *)
(*                                                                         *)
(* None of these is inductive alone.  Fit relates one semaphore to the     *)
(* callers that name it: the waiters of its two queues are callers that    *)
(* wait there, once each, the lock is on while somebody is in the section, *)
(* the slots counted are those held, and a running timer covers what is    *)
(* left of the pause.  Fit takes the semaphore and the callers as values,  *)
(* so that a lemma can speak of the states between the steps of one action *)
(* (a slot taken, the section entered, the call dispatched).               *)
(***************************************************************************)
EXTENDS ModelSemaphore, SequenceTheorems, FiniteSetTheorems, TLAPS

Callers == [Caller -> [pc : CallerPC, sem : 0..MaxSems, left : Nat]]

\* The points of acquire at which a caller holds a slot
Holding == {"pauseQueued", "pauseWoken", "cooling", "pacing", "using"}

\* The callers f has at semaphore i, at one of the points P: Where, of a value
Among(f, i, P) == {c \in Caller : f[c].sem = i /\ f[c].pc \in P}

\* Nobody but c moves between f and g.
Moves(c, f, g) == \A d \in Caller \ {c} : g[d] = f[d]

\* A queue of semaphore i holds callers that wait at p, each once.
Line(q, p, f, i) ==
  /\ \A k \in 1..Len(q) : f[q[k]].pc = p /\ f[q[k]].sem = i
  /\ \A j, k \in 1..Len(q) : q[j] = q[k] => j = k

\* The lock of a semaphore is held on behalf of the one caller in the section.
Locked(S, f, i) ==
  /\ S.locked <=> Among(f, i, Timing) # {}
  /\ \A c, d \in Among(f, i, Timing) : c = d
  /\ S.pauseQueue # <<>> => S.locked

\* A running pause timer covers what is left of the pause.
Timed(S, f, i) == \A c \in Among(f, i, {"pacing"}) : S.since + f[c].left >= S.pause

\* What relates semaphore S, number i, to the callers f.
Fit(S, f, i) ==
  /\ Line(S.queue, "queued", f, i)
  /\ Line(S.pauseQueue, "pauseQueued", f, i)
  /\ Locked(S, f, i)
  /\ S.active = Cardinality(Among(f, i, Holding))
  /\ Timed(S, f, i)

\* While somebody waits for a slot, those taken or promised are all there are.
Promised(S, f, i) ==
  S.queue # <<>> => S.active + Cardinality(Among(f, i, {"woken"})) >= S.max

Good(S, f, i) == Fit(S, f, i) /\ Promised(S, f, i)

\* A caller is at a semaphore that was created, or at none.
Known ==
  /\ \A c \in Caller : caller[c].pc = "idle" <=> caller[c].sem = 0
  /\ \A c \in Caller : caller[c].sem <= current
  /\ \A i \in Sems : i > current => sems[i] = NoSem

IInv ==
  /\ TypeOK
  /\ Known
  /\ \A i \in Sems : Good(sems[i], caller, i)
-----------------------------------------------------------------------------
(* Sets of callers *)

\* Sets of callers are finite, and their cardinality is a number.
LEMMA AmongFinite ==
  ASSUME NEW f, NEW i, NEW P
  PROVE  IsFiniteSet(Among(f, i, P)) /\ Cardinality(Among(f, i, P)) \in Nat
<1>1. Among(f, i, P) \subseteq Caller
  BY DEF Among
<1>2. IsFiniteSet(Among(f, i, P))
  BY <1>1, FS_Subset, ConfigAssumption
<1> QED
  BY <1>2, FS_CardinalityType

\* A caller that moves to a point of P, from elsewhere, makes the set one larger.
LEMMA AmongJoins ==
  ASSUME NEW f, NEW g, NEW i, NEW P, NEW c \in Caller,
         Moves(c, f, g),
         c \notin Among(f, i, P), c \in Among(g, i, P)
  PROVE  /\ Among(g, i, P) = Among(f, i, P) \cup {c}
         /\ Cardinality(Among(g, i, P)) = Cardinality(Among(f, i, P)) + 1
<1>1. Among(g, i, P) = Among(f, i, P) \cup {c}
  BY DEF Among, Moves
<1> QED
  BY <1>1, AmongFinite, FS_AddElement

\* A caller that leaves the points of P makes the set one smaller.
LEMMA AmongLeaves ==
  ASSUME NEW f, NEW g, NEW i, NEW P, NEW c \in Caller,
         Moves(c, f, g),
         c \in Among(f, i, P), c \notin Among(g, i, P)
  PROVE  /\ Among(g, i, P) = Among(f, i, P) \ {c}
         /\ Cardinality(Among(g, i, P)) = Cardinality(Among(f, i, P)) - 1
<1>1. Among(g, i, P) = Among(f, i, P) \ {c}
  BY DEF Among, Moves
<1> QED
  BY <1>1, AmongFinite, FS_RemoveElement

\* A caller that stays among them, or out of them, changes nothing.
LEMMA AmongStays ==
  ASSUME NEW f, NEW g, NEW i, NEW P, NEW c \in Caller,
         Moves(c, f, g),
         c \in Among(f, i, P) <=> c \in Among(g, i, P)
  PROVE  Among(g, i, P) = Among(f, i, P)
BY DEF Among, Moves
-----------------------------------------------------------------------------
(* Queues *)

\* A queue stays one when callers that are not in it move.
LEMMA LineStays ==
  ASSUME NEW q \in Seq(Caller), NEW p, NEW i, NEW f, NEW g, NEW c \in Caller,
         Line(q, p, f, i),
         Moves(c, f, g),
         f[c].pc # p
  PROVE  Line(q, p, g, i)
<1>1. \A k \in 1..Len(q) : q[k] \in Caller
  BY ElementOfSeq
<1> QED
  BY <1>1 DEF Line, Moves

\* A caller that joins at the end.
LEMMA LineJoined ==
  ASSUME NEW q \in Seq(Caller), NEW p, NEW i, NEW f, NEW g, NEW c \in Caller,
         Line(q, p, f, i),
         Moves(c, f, g),
         f[c].pc # p, g[c].pc = p, g[c].sem = i
  PROVE  Append(q, c) \in Seq(Caller) /\ Line(Append(q, c), p, g, i)
<1> DEFINE r == Append(q, c)
<1>1. /\ r \in Seq(Caller) /\ Len(r) = Len(q) + 1 /\ Len(q) \in Nat
      /\ \A k \in 1..Len(q) : r[k] = q[k]
      /\ r[Len(q) + 1] = c
  BY AppendProperties, LenProperties
<1>2. \A k \in 1..Len(q) : q[k] \in Caller /\ q[k] # c
  BY ElementOfSeq DEF Line, Moves
<1>3. \A k \in 1..Len(r) : k \in 1..Len(q) \/ k = Len(q) + 1
  BY <1>1
<1> HIDE DEF r
<1>4. \A k \in 1..Len(r) : g[r[k]].pc = p /\ g[r[k]].sem = i
  BY <1>1, <1>2, <1>3 DEF Line, Moves
<1>5. \A j, k \in 1..Len(r) : r[j] = r[k] => j = k
  BY <1>1, <1>2, <1>3 DEF Line, Moves
<1> QED
  BY <1>1, <1>4, <1>5 DEF Line, Moves, r

\* The first waiter of a queue waits there, and the others do when it moves.
LEMMA LineServed ==
  ASSUME NEW q \in Seq(Caller), q # <<>>, NEW p, NEW i, NEW f, NEW g,
         Line(q, p, f, i),
         Moves(Head(q), f, g)
  PROVE  /\ Head(q) \in Caller /\ f[Head(q)].pc = p /\ f[Head(q)].sem = i
         /\ Tail(q) \in Seq(Caller)
         /\ Line(Tail(q), p, g, i)
<1> DEFINE t == Tail(q)
<1>1. /\ Head(q) \in Caller /\ t \in Seq(Caller) /\ Len(t) = Len(q) - 1
      /\ \A k \in 1..Len(t) : t[k] = q[k + 1]
  BY HeadTailProperties
<1>2. Len(q) \in Nat \ {0} /\ Head(q) = q[1]
  BY EmptySeq
<1> HIDE DEF t
<1>3. \A k \in 1..Len(t) : k + 1 \in 1..Len(q) /\ t[k] = q[k + 1] /\ q[k + 1] # Head(q) /\ q[k+1] \in Caller
  BY <1>1, <1>2, ElementOfSeq DEF Line, Moves
<1>4. f[Head(q)].pc = p /\ f[Head(q)].sem = i
  BY <1>2 DEF Line, Moves
<1>5. Line(t, p, g, i)
  <2>1. \A k \in 1..Len(t) : g[t[k]].pc = p /\ g[t[k]].sem = i
    BY <1>3 DEF Line, Moves
  <2>2. \A j, k \in 1..Len(t) : t[j] = t[k] => j = k
    BY <1>1, <1>2, <1>3 DEF Line, Moves
  <2> QED
    BY <2>1, <2>2 DEF Line, Moves
<1> QED
  BY <1>1, <1>4, <1>5 DEF t

\* A slot that is taken by a caller that was promised it, or that came by, leaves as many
\* taken or promised.
LEMMA TakenStillPromised ==
  ASSUME NEW i \in Sems, NEW c \in Caller, NEW S \in Semaphore, NEW T \in Semaphore,
         NEW f, NEW g,
         Promised(S, f, i),
         Moves(c, f, g), g[c].pc # "woken",
         T.active = S.active + 1, T.queue = S.queue, T.max = S.max
  PROVE  Promised(T, g, i)
<1>0. S.active \in Nat /\ S.max \in Nat
  BY DEF Semaphore
<1>1. /\ Cardinality(Among(f, i, {"woken"})) \in Nat
      /\ Cardinality(Among(g, i, {"woken"})) \in Nat
  BY AmongFinite
<1>2. c \notin Among(g, i, {"woken"})
  BY DEF Among
<1>3. CASE c \in Among(f, i, {"woken"})
  <2>1. Cardinality(Among(g, i, {"woken"})) = Cardinality(Among(f, i, {"woken"})) - 1
    BY <1>2, <1>3, AmongLeaves
  <2> QED
    BY <1>0, <1>1, <2>1 DEF Promised
<1>4. CASE c \notin Among(f, i, {"woken"})
  <2>1. Among(g, i, {"woken"}) = Among(f, i, {"woken"})
    BY <1>2, <1>4, AmongStays
  <2> QED
    BY <1>0, <1>1, <2>1 DEF Promised
<1> QED
  BY <1>3, <1>4
-----------------------------------------------------------------------------
(* What one step of a caller does to the semaphore it is at.  T and g are   *)
(* the semaphore and the callers after it, given by what changed.           *)

\* A slot is taken and the call begins at once.
LEMMA TakeUses ==
  ASSUME NEW i \in Sems, NEW c \in Caller, NEW S \in Semaphore, NEW T \in Semaphore,
         NEW f \in Callers, NEW g \in Callers,
         Good(S, f, i), f[c].pc \in {"idle", "woken"},
         Moves(c, f, g),
         g[c].pc = "using", g[c].sem = i,
         T.active = S.active + 1, T.max = S.max, T.queue = S.queue, T.locked = S.locked,
         T.pauseQueue = S.pauseQueue, T.since = S.since, T.pause = S.pause
  PROVE  Good(T, g, i)
<1>0. S.queue \in Seq(Caller) /\ S.pauseQueue \in Seq(Caller) /\ S.active \in Nat /\ S.max \in Nat
  BY DEF Semaphore
<1>1. Line(T.queue, "queued", g, i) /\ Line(T.pauseQueue, "pauseQueued", g, i)
  <2>1. Line(S.queue, "queued", f, i) /\ Line(S.pauseQueue, "pauseQueued", f, i)
    BY DEF Good, Fit
  <2>0. f[c].pc # "queued" /\ f[c].pc # "pauseQueued"
    OBVIOUS
  <2>2. Line(S.queue, "queued", g, i)
    BY <1>0, <2>0, <2>1, LineStays
  <2>3. Line(S.pauseQueue, "pauseQueued", g, i)
    BY <1>0, <2>0, <2>1, LineStays
  <2> QED
    BY <2>2, <2>3
<1>2. Among(g, i, Timing) = Among(f, i, Timing) /\ Among(g, i, {"pacing"}) = Among(f, i, {"pacing"})
  BY DEF Among, Timing, Moves
<1>3. Locked(T, g, i)
  BY <1>2 DEF Good, Fit, Locked
<1>4. Timed(T, g, i)
  <2>1. \A d \in Among(f, i, {"pacing"}) : d \in Caller \ {c}
    BY DEF Among
  <2> QED
    BY <1>2, <2>1 DEF Good, Fit, Timed, Moves
<1>5. T.active = Cardinality(Among(g, i, Holding))
  <2>1. c \notin Among(f, i, Holding) /\ c \in Among(g, i, Holding)
    BY DEF Among, Holding
  <2> QED
    BY <2>1, AmongJoins DEF Good, Fit
<1>6. Promised(T, g, i)
  BY <1>0, TakenStillPromised DEF Good
<1> QED
  BY <1>1, <1>3, <1>4, <1>5, <1>6 DEF Good, Fit

\* A slot is taken and the section, which is free, entered.
LEMMA TakeEnters ==
  ASSUME NEW i \in Sems, NEW c \in Caller, NEW S \in Semaphore, NEW T \in Semaphore,
         NEW f \in Callers, NEW g \in Callers,
         Good(S, f, i), f[c].pc \in {"idle", "woken"}, ~S.locked,
         Moves(c, f, g),
         g[c].pc = "pauseWoken", g[c].sem = i,
         T.active = S.active + 1, T.max = S.max, T.queue = S.queue, T.locked,
         T.pauseQueue = S.pauseQueue, T.since = S.since, T.pause = S.pause
  PROVE  Good(T, g, i)
<1>0. S.queue \in Seq(Caller) /\ S.pauseQueue \in Seq(Caller) /\ S.active \in Nat /\ S.max \in Nat
  BY DEF Semaphore
<1>1. Line(T.queue, "queued", g, i) /\ Line(T.pauseQueue, "pauseQueued", g, i)
  <2>1. Line(S.queue, "queued", f, i) /\ Line(S.pauseQueue, "pauseQueued", f, i)
    BY DEF Good, Fit
  <2>0. f[c].pc # "queued" /\ f[c].pc # "pauseQueued"
    OBVIOUS
  <2>2. Line(S.queue, "queued", g, i)
    BY <1>0, <2>0, <2>1, LineStays
  <2>3. Line(S.pauseQueue, "pauseQueued", g, i)
    BY <1>0, <2>0, <2>1, LineStays
  <2> QED
    BY <2>2, <2>3
<1>2. Among(f, i, Timing) = {}
  BY DEF Good, Fit, Locked
<1>3. c \in Among(g, i, Timing) /\ \A d \in Among(g, i, Timing) : d = c
  BY <1>2 DEF Among, Timing, Moves
<1>4. Locked(T, g, i)
  BY <1>3 DEF Locked
<1>5. Timed(T, g, i)
  BY <1>3 DEF Timed, Among, Timing, Moves
<1>6. T.active = Cardinality(Among(g, i, Holding))
  <2>1. c \notin Among(f, i, Holding) /\ c \in Among(g, i, Holding)
    BY DEF Among, Holding
  <2> QED
    BY <2>1, AmongJoins DEF Good, Fit
<1>7. Promised(T, g, i)
  BY <1>0, TakenStillPromised DEF Good
<1> QED
  BY <1>1, <1>4, <1>5, <1>6, <1>7 DEF Good, Fit

\* A slot is taken and the caller waits for the section.
LEMMA TakeWaits ==
  ASSUME NEW i \in Sems, NEW c \in Caller, NEW S \in Semaphore, NEW T \in Semaphore,
         NEW f \in Callers, NEW g \in Callers,
         Good(S, f, i), f[c].pc \in {"idle", "woken"}, S.locked,
         Moves(c, f, g),
         g[c].pc = "pauseQueued", g[c].sem = i,
         T.active = S.active + 1, T.max = S.max, T.queue = S.queue, T.locked = S.locked,
         T.pauseQueue = Append(S.pauseQueue, c), T.since = S.since, T.pause = S.pause
  PROVE  Good(T, g, i)
<1>0. S.queue \in Seq(Caller) /\ S.pauseQueue \in Seq(Caller) /\ S.active \in Nat /\ S.max \in Nat
  BY DEF Semaphore
<1>1. Line(T.queue, "queued", g, i)
  <2>1. Line(S.queue, "queued", f, i)
    BY DEF Good, Fit
  <2>0. f[c].pc # "queued" /\ f[c].pc # "pauseQueued"
    OBVIOUS
  <2>2. Line(S.queue, "queued", g, i)
    BY <1>0, <2>0, <2>1, LineStays
  <2> QED
    BY <2>2
<1>2. Line(T.pauseQueue, "pauseQueued", g, i)
  <2>1. Line(S.pauseQueue, "pauseQueued", f, i) /\ f[c].pc # "pauseQueued"
    BY DEF Good, Fit
  <2>2. Line(Append(S.pauseQueue, c), "pauseQueued", g, i)
    BY <1>0, <2>1, LineJoined
  <2> QED
    BY <2>2
<1>3. Among(g, i, Timing) = Among(f, i, Timing) /\ Among(g, i, {"pacing"}) = Among(f, i, {"pacing"})
  BY DEF Among, Timing, Moves
<1>4. Locked(T, g, i)
  BY <1>3 DEF Good, Fit, Locked
<1>5. Timed(T, g, i)
  <2>1. \A d \in Among(f, i, {"pacing"}) : d \in Caller \ {c}
    BY DEF Among
  <2> QED
    BY <1>3, <2>1 DEF Good, Fit, Timed, Moves
<1>6. T.active = Cardinality(Among(g, i, Holding))
  <2>1. c \notin Among(f, i, Holding) /\ c \in Among(g, i, Holding)
    BY DEF Among, Holding
  <2> QED
    BY <2>1, AmongJoins DEF Good, Fit
<1>7. Promised(T, g, i)
  BY <1>0, TakenStillPromised DEF Good
<1> QED
  BY <1>1, <1>2, <1>4, <1>5, <1>6, <1>7 DEF Good, Fit

\* No slot is free: the caller waits for one.
LEMMA Waits ==
  ASSUME NEW i \in Sems, NEW c \in Caller, NEW S \in Semaphore, NEW T \in Semaphore,
         NEW f \in Callers, NEW g \in Callers,
         Good(S, f, i), f[c].pc = "idle", S.active >= S.max,
         Moves(c, f, g),
         g[c].pc = "queued", g[c].sem = i,
         T.active = S.active, T.max = S.max, T.queue = Append(S.queue, c), T.locked = S.locked,
         T.pauseQueue = S.pauseQueue, T.since = S.since, T.pause = S.pause
  PROVE  Good(T, g, i)
<1>0. S.queue \in Seq(Caller) /\ S.pauseQueue \in Seq(Caller) /\ S.active \in Nat /\ S.max \in Nat
  BY DEF Semaphore
<1>1. Line(T.pauseQueue, "pauseQueued", g, i)
  <2>1. Line(S.pauseQueue, "pauseQueued", f, i)
    BY DEF Good, Fit
  <2>0. f[c].pc # "queued" /\ f[c].pc # "pauseQueued"
    OBVIOUS
  <2>2. Line(S.pauseQueue, "pauseQueued", g, i)
    BY <1>0, <2>0, <2>1, LineStays
  <2> QED
    BY <2>2
<1>2. Line(T.queue, "queued", g, i)
  <2>1. Line(S.queue, "queued", f, i) /\ f[c].pc # "queued"
    BY DEF Good, Fit
  <2>2. Line(Append(S.queue, c), "queued", g, i)
    BY <1>0, <2>1, LineJoined
  <2> QED
    BY <2>2
<1>3. /\ Among(g, i, Timing) = Among(f, i, Timing)
      /\ Among(g, i, {"pacing"}) = Among(f, i, {"pacing"})
      /\ Among(g, i, Holding) = Among(f, i, Holding)
  BY DEF Among, Timing, Holding, Moves
<1>4. Locked(T, g, i)
  BY <1>3 DEF Good, Fit, Locked
<1>5. Timed(T, g, i)
  <2>1. \A d \in Among(f, i, {"pacing"}) : d \in Caller \ {c}
    BY DEF Among
  <2> QED
    BY <1>3, <2>1 DEF Good, Fit, Timed, Moves
<1>6. Promised(T, g, i)
  BY <1>0, AmongFinite DEF Promised
<1> QED
  BY <1>1, <1>2, <1>3, <1>4, <1>5, <1>6 DEF Good, Fit

\* The caller in the section waits there for a timer.
LEMMA InSection ==
  ASSUME NEW i \in Sems, NEW c \in Caller, NEW S \in Semaphore,
         NEW f \in Callers, NEW g \in Callers,
         Good(S, f, i), c \in Among(f, i, Timing),
         Moves(c, f, g),
         g[c].sem = i, g[c].pc \in {"cooling", "pacing"},
         g[c].pc = "pacing" => S.since + g[c].left >= S.pause
  PROVE  Good(S, g, i)
<1>0. S.queue \in Seq(Caller) /\ S.pauseQueue \in Seq(Caller)
  BY DEF Semaphore
<1>1. Line(S.queue, "queued", g, i) /\ Line(S.pauseQueue, "pauseQueued", g, i)
  <2>1. f[c].pc # "queued" /\ f[c].pc # "pauseQueued"
    BY DEF Among, Timing
  <2> QED
    BY <1>0, <2>1, LineStays DEF Good, Fit
<1>2. /\ Among(g, i, Timing) = Among(f, i, Timing)
      /\ Among(g, i, Holding) = Among(f, i, Holding)
      /\ Among(g, i, {"woken"}) = Among(f, i, {"woken"})
  BY DEF Among, Timing, Holding, Moves
<1>3. Locked(S, g, i)
  BY <1>2 DEF Good, Fit, Locked
<1>4. \A d \in Among(g, i, {"pacing"}) : d = c
  BY <1>2 DEF Good, Fit, Locked, Among, Timing
<1>5. Timed(S, g, i)
  BY <1>4 DEF Timed, Among, Moves
<1> QED
  BY <1>1, <1>2, <1>3, <1>5 DEF Good, Fit, Promised

\* The caller in the section dispatches its call, and nobody waits for the section.
LEMMA Leaves ==
  ASSUME NEW i \in Sems, NEW c \in Caller, NEW S \in Semaphore, NEW T \in Semaphore,
         NEW f \in Callers, NEW g \in Callers,
         Good(S, f, i), c \in Among(f, i, Timing), S.pauseQueue = <<>>,
         Moves(c, f, g),
         g[c].sem = i, g[c].pc = "using",
         T.active = S.active, T.max = S.max, T.queue = S.queue, ~T.locked,
         T.pauseQueue = S.pauseQueue
  PROVE  Good(T, g, i)
<1>0. S.queue \in Seq(Caller) /\ S.pauseQueue \in Seq(Caller)
  BY DEF Semaphore
<1>1. Line(T.queue, "queued", g, i) /\ Line(T.pauseQueue, "pauseQueued", g, i)
  <2>1. Line(S.queue, "queued", f, i) /\ Line(S.pauseQueue, "pauseQueued", f, i)
    BY DEF Good, Fit
  <2>2. f[c].pc # "queued" /\ f[c].pc # "pauseQueued"
    BY DEF Among, Timing
  <2>3. Line(S.queue, "queued", g, i)
    BY <1>0, <2>1, <2>2, LineStays
  <2>4. Line(S.pauseQueue, "pauseQueued", g, i)
    BY <1>0, <2>1, <2>2, LineStays
  <2> QED
    BY <2>3, <2>4
<1>2. /\ Among(g, i, Timing) = {}
      /\ Among(g, i, Holding) = Among(f, i, Holding)
      /\ Among(g, i, {"woken"}) = Among(f, i, {"woken"})
  BY DEF Among, Timing, Holding, Moves, Good, Fit, Locked
<1>3. Locked(T, g, i)
  BY <1>2 DEF Locked
<1>4. Timed(T, g, i)
  BY <1>2 DEF Timed, Among, Timing
<1> QED
  BY <1>1, <1>2, <1>3, <1>4 DEF Good, Fit, Promised

\* The caller in the section dispatches its call and hands the section to its first waiter.
LEMMA HandsOver ==
  ASSUME NEW i \in Sems, NEW c \in Caller, NEW S \in Semaphore, NEW T \in Semaphore,
         NEW f \in Callers, NEW m \in Callers, NEW g \in Callers,
         Good(S, f, i), c \in Among(f, i, Timing), S.pauseQueue # <<>>,
         Moves(c, f, m), m[c].sem = i, m[c].pc = "using",
         Moves(Head(S.pauseQueue), m, g),
         g[Head(S.pauseQueue)].sem = i, g[Head(S.pauseQueue)].pc = "pauseWoken",
         T.active = S.active, T.max = S.max, T.queue = S.queue, T.locked,
         T.pauseQueue = Tail(S.pauseQueue)
  PROVE  Good(T, g, i)
<1> DEFINE h == Head(S.pauseQueue)
<1>0. S.queue \in Seq(Caller) /\ S.pauseQueue \in Seq(Caller)
  BY DEF Semaphore
<1>1. /\ Line(S.queue, "queued", f, i) /\ Line(S.pauseQueue, "pauseQueued", f, i)
      /\ f[c].pc # "queued" /\ f[c].pc # "pauseQueued"
  BY DEF Good, Fit, Among, Timing
<1>2. Line(S.queue, "queued", m, i)
  BY <1>0, <1>1, LineStays
<1>3. Line(S.pauseQueue, "pauseQueued", m, i)
  BY <1>0, <1>1, LineStays
<1>4. /\ h \in Caller /\ m[h].pc = "pauseQueued" /\ m[h].sem = i
      /\ Line(Tail(S.pauseQueue), "pauseQueued", g, i)
  <2> DEFINE q == S.pauseQueue
  <2>1. q \in Seq(Caller) /\ q # <<>> /\ Line(q, "pauseQueued", m, i) /\ Moves(Head(q), m, g)
    BY <1>0, <1>3
  <2> HIDE DEF q
  <2>2. /\ Head(q) \in Caller /\ m[Head(q)].pc = "pauseQueued" /\ m[Head(q)].sem = i
        /\ Line(Tail(q), "pauseQueued", g, i)
    BY <2>1, LineServed
  <2> QED
    BY <2>2 DEF q
<1>5. g[h].sem = i /\ g[h].pc = "pauseWoken" /\ Moves(h, m, g)
  OBVIOUS
<1> HIDE DEF h
<1>6. Line(S.queue, "queued", g, i)
  <2>1. m[h].pc # "queued"
    BY <1>4
  <2> QED
    BY <1>0, <1>2, <1>4, <1>5, <2>1, LineStays
<1>7. Among(m, i, Timing) = {}
  BY DEF Among, Timing, Moves, Good, Fit, Locked
<1>8. \A d \in Caller : d \in Among(g, i, Timing) <=> d = h
  BY <1>4, <1>5, <1>7 DEF Among, Timing, Moves
<1>9. /\ Among(m, i, Holding) = Among(f, i, Holding)
      /\ Among(m, i, {"woken"}) = Among(f, i, {"woken"})
  BY DEF Among, Timing, Holding, Moves
<1>10. /\ Among(g, i, Holding) = Among(m, i, Holding)
       /\ Among(g, i, {"woken"}) = Among(m, i, {"woken"})
  BY <1>4, <1>5 DEF Among, Holding, Moves
<1>11. Locked(T, g, i)
  BY <1>4, <1>8 DEF Locked, Among
<1>12. Timed(T, g, i)
  BY <1>5, <1>8 DEF Timed, Among, Timing
<1> QED
  BY <1>4, <1>6, <1>9, <1>10, <1>11, <1>12 DEF Good, Fit, Promised

\* A call ends and nobody waits for its slot.
LEMMA Gives ==
  ASSUME NEW i \in Sems, NEW c \in Caller, NEW S \in Semaphore, NEW T \in Semaphore,
         NEW f \in Callers, NEW g \in Callers,
         Good(S, f, i), f[c].pc = "using", f[c].sem = i, S.queue = <<>>,
         Moves(c, f, g), g[c] = IdleCaller,
         T.active = S.active - 1, T.max = S.max, T.queue = S.queue, T.locked = S.locked,
         T.pauseQueue = S.pauseQueue, T.since = S.since, T.pause = S.pause
  PROVE  Good(T, g, i)
<1>0. S.queue \in Seq(Caller) /\ S.pauseQueue \in Seq(Caller) /\ S.active \in Nat
  BY DEF Semaphore
<1>1. Line(T.queue, "queued", g, i) /\ Line(T.pauseQueue, "pauseQueued", g, i)
  <2>1. Line(S.queue, "queued", f, i) /\ Line(S.pauseQueue, "pauseQueued", f, i)
    BY DEF Good, Fit
  <2>2. f[c].pc # "queued" /\ f[c].pc # "pauseQueued"
    OBVIOUS
  <2>3. Line(S.queue, "queued", g, i)
    BY <1>0, <2>1, <2>2, LineStays
  <2>4. Line(S.pauseQueue, "pauseQueued", g, i)
    BY <1>0, <2>1, <2>2, LineStays
  <2> QED
    BY <2>3, <2>4
<1>2. Among(g, i, Timing) = Among(f, i, Timing) /\ Among(g, i, {"pacing"}) = Among(f, i, {"pacing"})
  BY DEF Among, Timing, Moves, IdleCaller
<1>3. Locked(T, g, i)
  BY <1>2 DEF Good, Fit, Locked
<1>4. Timed(T, g, i)
  <2>1. \A d \in Among(f, i, {"pacing"}) : d \in Caller \ {c}
    BY DEF Among
  <2> QED
    BY <1>2, <2>1 DEF Good, Fit, Timed, Moves
<1>5. T.active = Cardinality(Among(g, i, Holding))
  <2>1. c \in Among(f, i, Holding) /\ c \notin Among(g, i, Holding)
    BY DEF Among, Holding, IdleCaller
  <2> QED
    BY <2>1, AmongLeaves DEF Good, Fit
<1>6. Promised(T, g, i)
  BY DEF Promised
<1> QED
  BY <1>1, <1>3, <1>4, <1>5, <1>6 DEF Good, Fit

\* A call ends and its slot is promised to the first waiter.
LEMMA GivesOn ==
  ASSUME NEW i \in Sems, NEW c \in Caller, NEW S \in Semaphore, NEW T \in Semaphore,
         NEW f \in Callers, NEW m \in Callers, NEW g \in Callers,
         Good(S, f, i), f[c].pc = "using", f[c].sem = i, S.queue # <<>>,
         Moves(c, f, m), m[c] = IdleCaller,
         Moves(Head(S.queue), m, g),
         g[Head(S.queue)].sem = i, g[Head(S.queue)].pc = "woken",
         T.active = S.active - 1, T.max = S.max, T.queue = Tail(S.queue), T.locked = S.locked,
         T.pauseQueue = S.pauseQueue, T.since = S.since, T.pause = S.pause
  PROVE  Good(T, g, i)
<1> DEFINE h == Head(S.queue)
<1>0. S.queue \in Seq(Caller) /\ S.pauseQueue \in Seq(Caller) /\ S.active \in Nat /\ S.max \in Nat
  BY DEF Semaphore
<1>1. /\ Line(S.queue, "queued", f, i) /\ Line(S.pauseQueue, "pauseQueued", f, i)
      /\ f[c].pc # "queued" /\ f[c].pc # "pauseQueued"
  BY DEF Good, Fit
<1>2. Line(S.queue, "queued", m, i)
  BY <1>0, <1>1, LineStays
<1>3. Line(S.pauseQueue, "pauseQueued", m, i)
  BY <1>0, <1>1, LineStays
<1>4. /\ h \in Caller /\ m[h].pc = "queued" /\ m[h].sem = i
      /\ Line(Tail(S.queue), "queued", g, i)
  BY <1>0, <1>2, LineServed
<1>5. g[h].sem = i /\ g[h].pc = "woken" /\ Moves(h, m, g)
  OBVIOUS
<1> HIDE DEF h
<1>6. Line(S.pauseQueue, "pauseQueued", g, i)
  <2>1. m[h].pc # "pauseQueued"
    BY <1>4
  <2> QED
    BY <1>0, <1>3, <1>4, <1>5, <2>1, LineStays
<1>7. /\ Among(m, i, Timing) = Among(f, i, Timing)
      /\ Among(m, i, {"pacing"}) = Among(f, i, {"pacing"})
      /\ Among(m, i, {"woken"}) = Among(f, i, {"woken"})
  BY DEF Among, Timing, Moves, IdleCaller
<1>8. /\ Among(g, i, Timing) = Among(m, i, Timing)
      /\ Among(g, i, {"pacing"}) = Among(m, i, {"pacing"})
      /\ Among(g, i, Holding) = Among(m, i, Holding)
  BY <1>4, <1>5 DEF Among, Timing, Holding, Moves
<1>9. Locked(T, g, i)
  BY <1>7, <1>8 DEF Good, Fit, Locked
<1>10. Timed(T, g, i)
  <2>1. \A d \in Among(f, i, {"pacing"}) : d \in Caller \ {c} /\ d \in Caller \ {h}
    BY <1>4, <1>7 DEF Among
  <2> QED
    BY <1>5, <1>7, <1>8, <2>1 DEF Good, Fit, Timed, Moves
<1>11. T.active = Cardinality(Among(g, i, Holding))
  <2>1. c \in Among(f, i, Holding) /\ c \notin Among(m, i, Holding)
    BY DEF Among, Holding, IdleCaller
  <2> QED
    BY <1>8, <2>1, AmongLeaves DEF Good, Fit
<1>12. Promised(T, g, i)
  <2>1. h \notin Among(m, i, {"woken"}) /\ h \in Among(g, i, {"woken"})
    BY <1>4, <1>5 DEF Among
  <2>2. Cardinality(Among(g, i, {"woken"})) = Cardinality(Among(m, i, {"woken"})) + 1
    BY <1>4, <1>5, <2>1, AmongJoins
  <2>3. S.active + Cardinality(Among(f, i, {"woken"})) >= S.max
    BY DEF Good, Promised
  <2>4. Cardinality(Among(f, i, {"woken"})) \in Nat
    BY AmongFinite
  <2> QED
    BY <1>0, <1>7, <2>2, <2>3, <2>4 DEF Promised
<1> QED
  BY <1>4, <1>6, <1>9, <1>10, <1>11, <1>12 DEF Good, Fit

\* Time passes: nobody's place changes, and what a pause timer has less the pause has more.
LEMMA TimePasses ==
  ASSUME NEW i \in Sems, NEW S \in Semaphore, NEW T \in Semaphore,
         NEW f \in Callers, NEW g \in Callers,
         Good(S, f, i),
         \A d \in Caller : g[d].pc = f[d].pc /\ g[d].sem = f[d].sem /\ g[d].left = Less(f[d].left),
         T.since = IF S.since < S.pause THEN S.since + 1 ELSE S.since,
         T.active = S.active, T.max = S.max, T.queue = S.queue, T.locked = S.locked,
         T.pauseQueue = S.pauseQueue, T.pause = S.pause
  PROVE  Good(T, g, i)
<1>0. S.queue \in Seq(Caller) /\ S.pauseQueue \in Seq(Caller) /\ S.since \in Nat /\ S.pause \in Nat
  BY DEF Semaphore
<1>1. \A P : Among(g, i, P) = Among(f, i, P)
  BY DEF Among
<1>2. Line(T.queue, "queued", g, i) /\ Line(T.pauseQueue, "pauseQueued", g, i)
  <2>1. \A k \in 1..Len(S.queue) : S.queue[k] \in Caller
    BY <1>0, ElementOfSeq
  <2>2. \A k \in 1..Len(S.pauseQueue) : S.pauseQueue[k] \in Caller
    BY <1>0, ElementOfSeq
  <2> QED
    BY <2>1, <2>2 DEF Good, Fit, Line
<1>3. Timed(T, g, i)
  <2> SUFFICES ASSUME NEW d \in Among(f, i, {"pacing"}) PROVE T.since + g[d].left >= T.pause
    BY <1>1 DEF Timed
  <2>1. d \in Caller /\ f[d].left \in Nat /\ S.since + f[d].left >= S.pause
    BY DEF Good, Fit, Timed, Among, Callers
  <2> QED
    BY <1>0, <2>1 DEF Less
<1> QED
  BY <1>1, <1>2, <1>3 DEF Good, Fit, Locked, Promised

\* What callers of other semaphores do does not matter to a semaphore.
LEMMA Elsewhere ==
  ASSUME NEW j \in Sems, NEW S \in Semaphore, NEW f \in Callers, NEW g \in Callers,
         Good(S, f, j),
         \A d \in Caller : g[d] = f[d] \/ (f[d].sem # j /\ g[d].sem # j)
  PROVE  Good(S, g, j)
<1>0. S.queue \in Seq(Caller) /\ S.pauseQueue \in Seq(Caller)
  BY DEF Semaphore
<1>1. \A P : Among(g, j, P) = Among(f, j, P)
  BY DEF Among
<1>2. Line(S.queue, "queued", g, j) /\ Line(S.pauseQueue, "pauseQueued", g, j)
  <2>1. \A k \in 1..Len(S.queue) : S.queue[k] \in Caller
    BY <1>0, ElementOfSeq
  <2>2. \A k \in 1..Len(S.pauseQueue) : S.pauseQueue[k] \in Caller
    BY <1>0, ElementOfSeq
  <2> QED
    BY <2>1, <2>2 DEF Good, Fit, Line
<1>3. Timed(S, g, j)
  <2>1. \A d \in Among(f, j, {"pacing"}) : g[d] = f[d]
    BY DEF Among
  <2> QED
    BY <1>1, <2>1 DEF Good, Fit, Timed
<1> QED
  BY <1>1, <1>2, <1>3 DEF Good, Fit, Locked, Promised

\* A semaphore nobody is at, as it is created.
LEMMA NewFits ==
  ASSUME NEW i \in Sems, NEW f \in Callers, NEW cf \in [max : Nat, pause : Nat],
         \A d \in Caller : f[d].sem # i
  PROVE  New(cf) \in Semaphore /\ Good(New(cf), f, i)
<1>1. \A P : Among(f, i, P) = {}
  BY DEF Among
<1>2. New(cf) \in Semaphore
  BY EmptySeq, ConfigAssumption DEF New, Semaphore
<1>3. Cardinality({}) = 0 /\ Len(<<>>) = 0
  BY FS_EmptySet, EmptySeq
<1>4. /\ New(cf).queue = <<>> /\ New(cf).pauseQueue = <<>> /\ ~New(cf).locked
      /\ New(cf).active = 0
  BY DEF New
<1>5. Line(<<>>, "queued", f, i) /\ Line(<<>>, "pauseQueued", f, i)
  BY <1>3 DEF Line
<1>6. Locked(New(cf), f, i) /\ Timed(New(cf), f, i) /\ Promised(New(cf), f, i)
  BY <1>1, <1>4 DEF Locked, Timed, Promised
<1> QED
  BY <1>1, <1>2, <1>3, <1>4, <1>5, <1>6 DEF Good, Fit
-----------------------------------------------------------------------------
(* From the values to the steps of a caller *)

\* What a step of c at semaphore i, which was S before it, leaves.
Stepped(c, i, S) ==
  /\ sems' \in [Sems -> Semaphore] /\ caller' \in Callers
  /\ Good(sems'[i], caller', i)
  /\ \A j \in Sems \ {i} : sems'[j] = sems[j]
  /\ \A d \in Caller \ {c} :
       caller'[d] = caller[d]
         \/ (caller[d].sem = i /\ caller'[d].sem = i /\ caller'[d].pc \notin {"idle", "using"})
  /\ caller'[c].sem = i /\ caller'[c].pc # "idle"
  /\ caller'[c].pc = "using" => S.since >= S.pause

\* The fields of a semaphore after an assignment to one of them.
LEMMA Assigned ==
  ASSUME NEW S \in Semaphore
  PROVE  /\ \A n \in Nat : /\ [S EXCEPT !.active = n] \in Semaphore
                           /\ [S EXCEPT !.active = n].active = n
                           /\ [S EXCEPT !.active = n].max = S.max
                           /\ [S EXCEPT !.active = n].pause = S.pause
                           /\ [S EXCEPT !.active = n].queue = S.queue
                           /\ [S EXCEPT !.active = n].locked = S.locked
                           /\ [S EXCEPT !.active = n].pauseQueue = S.pauseQueue
                           /\ [S EXCEPT !.active = n].since = S.since
                           /\ [S EXCEPT !.active = n].cooldown = S.cooldown
         /\ \A n \in Nat : /\ [S EXCEPT !.since = n] \in Semaphore
                           /\ [S EXCEPT !.since = n].active = S.active
                           /\ [S EXCEPT !.since = n].max = S.max
                           /\ [S EXCEPT !.since = n].pause = S.pause
                           /\ [S EXCEPT !.since = n].queue = S.queue
                           /\ [S EXCEPT !.since = n].locked = S.locked
                           /\ [S EXCEPT !.since = n].pauseQueue = S.pauseQueue
                           /\ [S EXCEPT !.since = n].since = n
         /\ \A b \in BOOLEAN : /\ [S EXCEPT !.locked = b] \in Semaphore
                               /\ [S EXCEPT !.locked = b].active = S.active
                               /\ [S EXCEPT !.locked = b].max = S.max
                               /\ [S EXCEPT !.locked = b].pause = S.pause
                               /\ [S EXCEPT !.locked = b].queue = S.queue
                               /\ [S EXCEPT !.locked = b].locked = b
                               /\ [S EXCEPT !.locked = b].pauseQueue = S.pauseQueue
                               /\ [S EXCEPT !.locked = b].since = S.since
                               /\ [S EXCEPT !.locked = b].cooldown = S.cooldown
         /\ \A q \in Seq(Caller) : /\ [S EXCEPT !.queue = q] \in Semaphore
                                   /\ [S EXCEPT !.queue = q].active = S.active
                                   /\ [S EXCEPT !.queue = q].max = S.max
                                   /\ [S EXCEPT !.queue = q].pause = S.pause
                                   /\ [S EXCEPT !.queue = q].queue = q
                                   /\ [S EXCEPT !.queue = q].locked = S.locked
                                   /\ [S EXCEPT !.queue = q].pauseQueue = S.pauseQueue
                                   /\ [S EXCEPT !.queue = q].since = S.since
         /\ \A q \in Seq(Caller) : /\ [S EXCEPT !.pauseQueue = q] \in Semaphore
                                   /\ [S EXCEPT !.pauseQueue = q].active = S.active
                                   /\ [S EXCEPT !.pauseQueue = q].max = S.max
                                   /\ [S EXCEPT !.pauseQueue = q].pause = S.pause
                                   /\ [S EXCEPT !.pauseQueue = q].queue = S.queue
                                   /\ [S EXCEPT !.pauseQueue = q].locked = S.locked
                                   /\ [S EXCEPT !.pauseQueue = q].pauseQueue = q
                                   /\ [S EXCEPT !.pauseQueue = q].since = S.since
         /\ \A n \in 0..MaxCooldown : /\ [S EXCEPT !.cooldown = n] \in Semaphore
                                      /\ [S EXCEPT !.cooldown = n].active = S.active
                                      /\ [S EXCEPT !.cooldown = n].max = S.max
                                      /\ [S EXCEPT !.cooldown = n].pause = S.pause
                                      /\ [S EXCEPT !.cooldown = n].queue = S.queue
                                      /\ [S EXCEPT !.cooldown = n].locked = S.locked
                                      /\ [S EXCEPT !.cooldown = n].pauseQueue = S.pauseQueue
                                      /\ [S EXCEPT !.cooldown = n].since = S.since
BY DEF Semaphore

\* The callers after one of them has gone on, to point p of semaphore i.
LEMMA Gone ==
  ASSUME NEW f \in Callers, NEW c \in Caller, NEW i \in Sems, NEW p \in CallerPC, NEW n \in Nat
  PROVE  LET g == [f EXCEPT ![c] = At(p, i, n)] IN
         /\ g \in Callers /\ Moves(c, f, g)
         /\ g[c].pc = p /\ g[c].sem = i /\ g[c].left = n
BY DEF Callers, At, Moves, Sems

\* A caller that goes on alone, at its semaphore.
LEMMA StepsAlone ==
  ASSUME NEW i \in Sems, NEW c \in Caller, NEW S \in Semaphore, NEW T \in Semaphore,
         NEW g \in Callers,
         sems \in [Sems -> Semaphore], caller \in Callers,
         Good(T, g, i), Moves(c, caller, g), g[c].sem = i, g[c].pc # "idle",
         g[c].pc = "using" => S.since >= S.pause,
         sems' = [sems EXCEPT ![i] = T], caller' = g
  PROVE  Stepped(c, i, S)
BY DEF Stepped, Moves

\* The dispatch of the caller in the section, when the pause has passed.
LEMMA Dispatches ==
  ASSUME NEW i \in Sems, NEW c \in Caller, NEW S \in Semaphore, NEW f \in Callers,
         sems \in [Sems -> Semaphore], caller \in Callers,
         Moves(c, caller, f), Good(S, f, i), c \in Among(f, i, Timing),
         S.since >= S.pause,
         Dispatch(c, i, S)
  PROVE  Stepped(c, i, S)
<1> DEFINE out == [S EXCEPT !.since = 0]
           m == [caller EXCEPT ![c] = At("using", i, 0)]
<1>1. /\ out \in Semaphore /\ out.active = S.active /\ out.max = S.max /\ out.pause = S.pause
      /\ out.queue = S.queue /\ out.locked = S.locked /\ out.pauseQueue = S.pauseQueue
  BY Assigned
<1>2. /\ m \in Callers /\ Moves(c, caller, m)
      /\ m[c].pc = "using" /\ m[c].sem = i
  <2>1. "using" \in CallerPC /\ 0 \in Nat
    BY DEF CallerPC
  <2> QED
    BY <2>1, Gone
<1>3. Moves(c, f, m)
  BY <1>2 DEF Moves
<1>4. CASE S.pauseQueue = <<>>
  <2> DEFINE T == [out EXCEPT !.locked = FALSE]
  <2>1. sems' = [sems EXCEPT ![i] = T] /\ caller' = m
    BY <1>4 DEF Dispatch
  <2> HIDE DEF out, m
  <2>2. /\ T \in Semaphore /\ T.active = S.active /\ T.max = S.max
        /\ T.queue = S.queue /\ ~T.locked /\ T.pauseQueue = S.pauseQueue
    BY <1>1, Assigned
  <2> HIDE DEF T
  <2>3. Good(T, m, i)
    BY <1>2, <1>3, <1>4, <2>2, Leaves
  <2> QED
    BY <1>2, <2>1, <2>2, <2>3, StepsAlone
<1>5. CASE S.pauseQueue # <<>>
  <2> DEFINE h == Head(S.pauseQueue)
             T == [out EXCEPT !.pauseQueue = Tail(@)]
             g == [m EXCEPT ![h].pc = "pauseWoken"]
  <2>1. sems' = [sems EXCEPT ![i] = T] /\ caller' = g
    BY <1>5 DEF Dispatch
  <2>2. S.pauseQueue \in Seq(Caller) /\ Line(S.pauseQueue, "pauseQueued", f, i) /\ S.locked
    BY <1>5 DEF Semaphore, Good, Fit, Locked
  <2>3. h \in Caller /\ f[h].pc = "pauseQueued" /\ f[h].sem = i /\ Tail(S.pauseQueue) \in Seq(Caller)
    <3> DEFINE q == S.pauseQueue
    <3>1. q \in Seq(Caller) /\ q # <<>> /\ Line(q, "pauseQueued", f, i)
      BY <1>5, <2>2
    <3> HIDE DEF q
    <3>2. Head(q) \in Caller /\ Tail(q) \in Seq(Caller) /\ Head(q) = q[1] /\ 1 \in 1..Len(q)
      BY <3>1, HeadTailProperties, EmptySeq, LenProperties
    <3>3. f[Head(q)].pc = "pauseQueued" /\ f[Head(q)].sem = i
      BY <3>1, <3>2 DEF Line
    <3> QED
      BY <3>2, <3>3 DEF q
  <2> HIDE DEF out, m
  <2>4. /\ T \in Semaphore /\ T.active = S.active /\ T.max = S.max
        /\ T.queue = S.queue /\ T.locked /\ T.pauseQueue = Tail(S.pauseQueue)
    <3> DEFINE q == Tail(S.pauseQueue)
    <3>1. T = [out EXCEPT !.pauseQueue = q] /\ q \in Seq(Caller)
      BY <1>1, <2>3
    <3> HIDE DEF T, q
    <3>2. /\ T \in Semaphore /\ T.active = out.active /\ T.max = out.max
          /\ T.queue = out.queue /\ T.locked = out.locked /\ T.pauseQueue = q
      BY <1>1, <3>1, Assigned
    <3> QED
      BY <1>1, <2>2, <3>2 DEF q
  <2>5. h # c
    BY <2>3 DEF Among, Timing
  <2>6. m[h] = f[h] /\ m[h] = caller[h]
    BY <1>2, <1>3, <2>3, <2>5 DEF Moves
  <2> HIDE DEF h, T
  <2>7. /\ g \in Callers /\ Moves(h, m, g)
        /\ g[h].sem = i /\ g[h].pc = "pauseWoken"
    BY <1>2, <2>3, <2>6 DEF Callers, CallerPC, Moves
  <2> HIDE DEF g
  <2>8. Good(T, g, i)
    BY <1>2, <1>3, <1>5, <2>4, <2>7, HandsOver DEF h
  <2>9. g[c].sem = i /\ g[c].pc = "using" /\ \A d \in Caller \ {c, h} : g[d] = caller[d]
    BY <1>2, <2>5, <2>7 DEF Moves
  <2> QED
    BY <2>1, <2>3, <2>4, <2>6, <2>7, <2>8, <2>9 DEF Stepped
<1> QED
  BY <1>4, <1>5

\* The section after the cooldown: the call is dispatched, or the pause waited for.
LEMMA Paces ==
  ASSUME NEW i \in Sems, NEW c \in Caller, NEW S \in Semaphore, NEW f \in Callers,
         sems \in [Sems -> Semaphore], caller \in Callers,
         Moves(c, caller, f), Good(S, f, i), c \in Among(f, i, Timing),
         Pace(c, i, S)
  PROVE  Stepped(c, i, S)
<1>1. S.since \in Nat /\ S.pause \in Nat
  BY DEF Semaphore
<1>2. CASE S.since >= S.pause
  BY <1>1, <1>2, Dispatches DEF Pace
<1>3. CASE S.since < S.pause
  <2> DEFINE g == [caller EXCEPT ![c] = At("pacing", i, S.pause - S.since)]
  <2>1. sems' = [sems EXCEPT ![i] = S] /\ caller' = g
    BY <1>1, <1>3 DEF Pace
  <2>2. /\ g \in Callers /\ Moves(c, caller, g)
        /\ g[c].pc = "pacing" /\ g[c].sem = i /\ g[c].left = S.pause - S.since
    <3>1. S.pause - S.since \in Nat
      BY <1>1, <1>3
    <3> QED
      BY <3>1, Gone DEF CallerPC
  <2> HIDE DEF g
  <2>3. Moves(c, f, g) /\ S.since + g[c].left >= S.pause
    BY <1>1, <2>2 DEF Moves
  <2>4. Good(S, g, i)
    BY <2>2, <2>3, InSection
  <2> QED
    BY <2>1, <2>2, <2>4, StepsAlone
<1> QED
  BY <1>1, <1>2, <1>3

\* The section from its beginning, in the state in which it is locked for the caller.
LEMMA Cools ==
  ASSUME NEW i \in Sems, NEW c \in Caller, NEW S \in Semaphore, NEW f \in Callers,
         sems \in [Sems -> Semaphore], caller \in Callers,
         Moves(c, caller, f), Good([S EXCEPT !.locked = TRUE], f, i), c \in Among(f, i, Timing),
         Cool(c, i, S)
  PROVE  Stepped(c, i, S)
<1> DEFINE in == [S EXCEPT !.locked = TRUE]
<1>1. in \in Semaphore /\ in.since = S.since /\ in.pause = S.pause /\ Good(in, f, i)
  BY Assigned
<1>2. CASE S.cooldown = 0 /\ Pace(c, i, in)
  <2> HIDE DEF in
  <2>1. Stepped(c, i, in)
    BY <1>1, <1>2, Paces
  <2> QED
    BY <1>1, <2>1 DEF Stepped
<1>3. CASE /\ S.cooldown > 0
           /\ sems' = [sems EXCEPT ![i] = in]
           /\ caller' = [caller EXCEPT ![c] = At("cooling", i, S.cooldown)]
  <2> DEFINE g == [caller EXCEPT ![c] = At("cooling", i, S.cooldown)]
  <2>1. /\ g \in Callers /\ Moves(c, caller, g)
        /\ g[c].pc = "cooling" /\ g[c].sem = i
    <3>1. S.cooldown \in Nat
      BY ConfigAssumption DEF Semaphore
    <3> QED
      BY <3>1, Gone DEF CallerPC
  <2>2. sems' = [sems EXCEPT ![i] = in] /\ caller' = g
    BY <1>3
  <2> HIDE DEF g, in
  <2>3. Moves(c, f, g)
    BY <2>1 DEF Moves
  <2>4. Good(in, g, i)
    BY <1>1, <2>1, <2>3, InSection
  <2> QED
    BY <1>1, <2>1, <2>2, <2>4, StepsAlone
<1> QED
  BY <1>2, <1>3 DEF Cool

\* The slot is taken by a caller that waits no more, or never did.
LEMMA Takes ==
  ASSUME NEW i \in Sems, NEW c \in Caller, NEW S \in Semaphore,
         sems \in [Sems -> Semaphore], caller \in Callers,
         Good(S, caller, i), caller[c].pc \in {"idle", "woken"},
         TakeSlot(c, i, S)
  PROVE  Stepped(c, i, S)
<1> DEFINE taken == [S EXCEPT !.active = @ + 1]
           timing == S.pause > 0 \/ S.cooldown > 0
<1>0. S.since \in Nat /\ S.pause \in Nat /\ S.locked \in BOOLEAN /\ S.cooldown \in Nat
  BY ConfigAssumption DEF Semaphore
<1>1. /\ taken \in Semaphore /\ taken.active = S.active + 1 /\ taken.max = S.max
      /\ taken.queue = S.queue /\ taken.locked = S.locked /\ taken.pauseQueue = S.pauseQueue
      /\ taken.since = S.since /\ taken.pause = S.pause /\ taken.cooldown = S.cooldown
  <2>1. S.active + 1 \in Nat
    BY DEF Semaphore
  <2> QED
    BY <2>1, Assigned
<1>2. CASE ~timing
  <2> DEFINE g == [caller EXCEPT ![c] = At("using", i, 0)]
  <2>1. /\ g \in Callers /\ Moves(c, caller, g)
        /\ g[c].pc = "using" /\ g[c].sem = i
    BY Gone DEF CallerPC
  <2>2. sems' = [sems EXCEPT ![i] = taken] /\ caller' = g
    BY <1>2 DEF TakeSlot
  <2>3. S.since >= S.pause
    BY <1>0, <1>2
  <2> HIDE DEF g, taken
  <2>4. Good(taken, g, i)
    BY <1>1, <2>1, TakeUses
  <2> QED
    BY <1>1, <2>1, <2>2, <2>3, <2>4, StepsAlone
<1>3. CASE timing /\ ~S.locked
  <2> DEFINE f == [caller EXCEPT ![c] = At("pauseWoken", i, 0)]
             in == [taken EXCEPT !.locked = TRUE]
  <2>1. /\ f \in Callers /\ Moves(c, caller, f)
        /\ f[c].pc = "pauseWoken" /\ f[c].sem = i
    BY Gone DEF CallerPC
  <2>2. Cool(c, i, taken)
    BY <1>3 DEF TakeSlot
  <2> HIDE DEF f, taken
  <2>3. /\ in \in Semaphore /\ in.active = S.active + 1 /\ in.max = S.max
        /\ in.queue = S.queue /\ in.locked /\ in.pauseQueue = S.pauseQueue
        /\ in.since = S.since /\ in.pause = S.pause
    BY <1>1, Assigned
  <2> HIDE DEF in
  <2>4. Good(in, f, i) /\ c \in Among(f, i, Timing)
    BY <1>3, <2>1, <2>3, TakeEnters DEF Among, Timing
  <2>5. Stepped(c, i, taken)
    BY <1>1, <2>1, <2>2, <2>4, Cools DEF in
  <2> QED
    BY <1>1, <2>5 DEF Stepped
<1>4. CASE timing /\ S.locked
  <2> DEFINE g == [caller EXCEPT ![c] = At("pauseQueued", i, 0)]
             T == [taken EXCEPT !.pauseQueue = Append(@, c)]
  <2>1. /\ g \in Callers /\ Moves(c, caller, g)
        /\ g[c].pc = "pauseQueued" /\ g[c].sem = i
    BY Gone DEF CallerPC
  <2>2. sems' = [sems EXCEPT ![i] = T] /\ caller' = g
    BY <1>4 DEF TakeSlot
  <2> HIDE DEF g, taken
  <2>3. Append(S.pauseQueue, c) \in Seq(Caller)
    BY AppendProperties DEF Semaphore
  <2>4. /\ T \in Semaphore /\ T.active = S.active + 1 /\ T.max = S.max
        /\ T.queue = S.queue /\ T.locked = S.locked /\ T.pauseQueue = Append(S.pauseQueue, c)
        /\ T.since = S.since /\ T.pause = S.pause
    <3> DEFINE q == Append(S.pauseQueue, c)
    <3>1. T = [taken EXCEPT !.pauseQueue = q] /\ q \in Seq(Caller)
      BY <1>1, <2>3
    <3> HIDE DEF T, q
    <3>2. /\ T \in Semaphore /\ T.active = taken.active /\ T.max = taken.max
          /\ T.queue = taken.queue /\ T.locked = taken.locked /\ T.pauseQueue = q
          /\ T.since = taken.since /\ T.pause = taken.pause
      BY <1>1, <3>1, Assigned
    <3> QED
      BY <1>1, <3>2 DEF q
  <2> HIDE DEF T
  <2>5. Good(T, g, i)
    BY <1>4, <2>1, <2>4, TakeWaits
  <2> QED
    BY <2>1, <2>2, <2>4, <2>5, StepsAlone
<1> QED
  BY <1>0, <1>2, <1>3, <1>4

\* acquire, from its beginning.
LEMMA Enters ==
  ASSUME NEW i \in Sems, NEW c \in Caller, NEW S \in Semaphore,
         sems \in [Sems -> Semaphore], caller \in Callers,
         Good(S, caller, i), caller[c].pc = "idle",
         Enter(c, i, S)
  PROVE  Stepped(c, i, S)
<1>1. CASE S.active < S.max /\ TakeSlot(c, i, S)
  BY <1>1, Takes
<1>2. CASE /\ S.active >= S.max
           /\ sems' = [sems EXCEPT ![i] = [S EXCEPT !.queue = Append(@, c)]]
           /\ caller' = [caller EXCEPT ![c] = At("queued", i, 0)]
  <2> DEFINE g == [caller EXCEPT ![c] = At("queued", i, 0)]
             T == [S EXCEPT !.queue = Append(@, c)]
  <2>1. /\ g \in Callers /\ Moves(c, caller, g)
        /\ g[c].pc = "queued" /\ g[c].sem = i
    BY Gone DEF CallerPC
  <2>2. sems' = [sems EXCEPT ![i] = T] /\ caller' = g
    BY <1>2
  <2> HIDE DEF g
  <2>3. Append(S.queue, c) \in Seq(Caller)
    BY AppendProperties DEF Semaphore
  <2>4. /\ T \in Semaphore /\ T.active = S.active /\ T.max = S.max
        /\ T.queue = Append(S.queue, c) /\ T.locked = S.locked /\ T.pauseQueue = S.pauseQueue
        /\ T.since = S.since /\ T.pause = S.pause
    <3> DEFINE q == Append(S.queue, c)
    <3>1. T = [S EXCEPT !.queue = q] /\ q \in Seq(Caller)
      BY <2>3
    <3> HIDE DEF T, q
    <3>2. /\ T \in Semaphore /\ T.active = S.active /\ T.max = S.max
          /\ T.queue = q /\ T.locked = S.locked /\ T.pauseQueue = S.pauseQueue
          /\ T.since = S.since /\ T.pause = S.pause
      BY <3>1, Assigned
    <3> QED
      BY <3>2 DEF q
  <2> HIDE DEF T
  <2>5. Good(T, g, i)
    BY <1>2, <2>1, <2>4, Waits
  <2> QED
    BY <2>1, <2>2, <2>4, <2>5, StepsAlone
<1> QED
  BY <1>1, <1>2 DEF Enter
-----------------------------------------------------------------------------
(* The inductive invariant *)

\* Nobody is dispatched to a semaphore whose pause has not passed: the step of Paced.
PacedStep ==
  \A c \in Caller : caller'[c].pc = "using" /\ caller[c].pc # "using" =>
    LET i == caller'[c].sem IN sems[i].max # 0 => sems[i].since >= sems[i].pause

\* The initial states satisfy the inductive invariant.
LEMMA InitIInv == Init => IInv
<1> SUFFICES ASSUME Init PROVE IInv
  OBVIOUS
<1>1. caller \in Callers /\ \A c \in Caller : caller[c].pc = "idle" /\ caller[c].sem = 0
  BY ConfigAssumption DEF Init, Callers, IdleCaller, CallerPC
<1>2. ASSUME NEW i \in Sems PROVE sems[i] \in Semaphore /\ Good(sems[i], caller, i) /\ sems[i] = NoSem
  <2> DEFINE cf == [max |-> 0, pause |-> 0]
  <2>1. cf \in [max : Nat, pause : Nat] /\ sems[i] = New(cf)
    BY DEF Init, NoSem
  <2>2. \A c \in Caller : caller[c].sem # i
    BY <1>1 DEF Sems
  <2> QED
    BY <1>1, <2>1, <2>2, NewFits DEF NoSem
<1>3. sems \in [Sems -> Semaphore] /\ current = 0 /\ 0 \in 0..MaxSems
  BY <1>2, ConfigAssumption DEF Init
<1> QED
  BY <1>1, <1>2, <1>3 DEF IInv, TypeOK, Known, Callers

\* A step of a caller at its semaphore, or at the one it arrives at, keeps the invariant,
\* and the pause when S was that semaphore.
LEMMA SteppedKeeps ==
  ASSUME TypeOK, Known, \A j \in Sems : Good(sems[j], caller, j),
         NEW i \in Sems, NEW c \in Caller, NEW S, Stepped(c, i, S),
         caller[c].sem \in {0, i}, i <= current',
         current' \in 0..MaxSems, current <= current',
         S = sems[i] \/ sems[i] = NoSem
  PROVE  IInv' /\ PacedStep
<1>0. caller \in Callers /\ sems \in [Sems -> Semaphore] /\ current \in Nat /\ current' \in Nat
  BY ConfigAssumption DEF TypeOK, Callers
<1>1. \A j \in Sems \ {i} : sems'[j] = sems[j] /\ Good(sems'[j], caller', j)
  <2> SUFFICES ASSUME NEW j \in Sems \ {i} PROVE sems'[j] = sems[j] /\ Good(sems'[j], caller', j)
    OBVIOUS
  <2>1. \A d \in Caller : caller'[d] = caller[d] \/ (caller[d].sem # j /\ caller'[d].sem # j)
    BY DEF Stepped, Sems
  <2>2. sems[j] \in Semaphore /\ caller' \in Callers /\ sems'[j] = sems[j]
    BY <1>0 DEF Stepped
  <2>3. Good(sems[j], caller', j)
    BY <1>0, <2>1, <2>2, Elsewhere
  <2> QED
    BY <2>2, <2>3
<1>2. Known'
  <2>1. \A d \in Caller : caller'[d].pc = "idle" <=> caller'[d].sem = 0
    BY DEF Known, Stepped, Sems
  <2>2. \A d \in Caller : caller'[d].sem <= current'
    <3> SUFFICES ASSUME NEW d \in Caller PROVE caller'[d].sem <= current'
      OBVIOUS
    <3>1. caller[d].sem \in Nat /\ caller[d].sem <= current
      BY <1>0, ConfigAssumption DEF Callers, Known
    <3> QED
      BY <1>0, <3>1 DEF Stepped
  <2>3. \A j \in Sems : j > current' => sems'[j] = NoSem
    BY <1>0, <1>1 DEF Known, Sems
  <2> QED
    BY <2>1, <2>2, <2>3 DEF Known
<1>3. TypeOK'
  BY DEF Stepped, TypeOK, Callers
<1>4. PacedStep
  <2> SUFFICES ASSUME NEW d \in Caller, caller'[d].pc = "using", caller[d].pc # "using",
                      sems[caller'[d].sem].max # 0
               PROVE  sems[caller'[d].sem].since >= sems[caller'[d].sem].pause
    BY DEF PacedStep
  <2>1. d = c /\ caller'[d].sem = i /\ S.since >= S.pause
    BY DEF Stepped
  <2>2. NoSem.max = 0
    BY DEF NoSem, New
  <2> QED
    BY <2>1, <2>2
<1> QED
  BY <1>1, <1>2, <1>3, <1>4 DEF IInv, Stepped

\* Every step of acquire, at the semaphore of the caller or the one it arrives at.
LEMMA AcquireKeeps ==
  ASSUME IInv, NEW c \in Caller,
         \/ Acquire(c) \/ \E cf \in Configs : AcquireNew(c, cf)
         \/ Woken(c) \/ PauseWoken(c) \/ Timer(c)
  PROVE  IInv' /\ PacedStep
<1>0. /\ caller \in Callers /\ sems \in [Sems -> Semaphore] /\ current \in 0..MaxSems /\ current \in Nat
      /\ TypeOK /\ Known /\ \A j \in Sems : Good(sems[j], caller, j) /\ sems[j] \in Semaphore
  BY ConfigAssumption DEF IInv, TypeOK, Callers
<1> DEFINE i == caller[c].sem
<1>1. caller[c].pc # "idle" => i \in Sems /\ i <= current
  BY <1>0, ConfigAssumption DEF Known, Callers, Sems
<1>2. CASE Acquire(c)
  <2>1. current \in Sems /\ caller[c].sem = 0 /\ current' = current
    BY <1>0, <1>2 DEF Acquire, Sems, Known
  <2>2. Stepped(c, current, sems[current])
    BY <1>0, <1>2, <2>1, Enters DEF Acquire
  <2> QED
    BY <1>0, <2>1, <2>2, SteppedKeeps
<1>3. ASSUME NEW cf \in Configs, AcquireNew(c, cf) PROVE IInv' /\ PacedStep
  <2> DEFINE k == current + 1
  <2>1. k \in Sems /\ caller[c].sem = 0 /\ current' = k /\ k > current /\ k \in 0..MaxSems
    BY <1>0, <1>3, ConfigAssumption DEF AcquireNew, Sems, Known
  <2>2. sems[k] = NoSem /\ \A d \in Caller : caller[d].sem # k
    BY <1>0, <2>1, ConfigAssumption DEF Known, Callers
  <2>3. cf \in [max : Nat, pause : Nat]
    BY ConfigAssumption
  <2>4. Enter(c, k, New(cf)) /\ caller[c].pc = "idle"
    BY <1>3 DEF AcquireNew
  <2> HIDE DEF k
  <2>5. New(cf) \in Semaphore /\ Good(New(cf), caller, k)
    BY <1>0, <2>1, <2>2, <2>3, NewFits
  <2>6. Stepped(c, k, New(cf))
    BY <1>0, <2>1, <2>4, <2>5, Enters
  <2>7. k <= current' /\ current <= current' /\ current' \in 0..MaxSems
    BY <1>0, <2>1 DEF Sems
  <2> QED
    BY <1>0, <2>1, <2>2, <2>6, <2>7, SteppedKeeps
<1>4. CASE Woken(c)
  <2>1. caller[c].pc = "woken" /\ TakeSlot(c, i, sems[i]) /\ current' = current
    BY <1>4 DEF Woken
  <2>2. i \in Sems /\ i <= current
    BY <1>1, <2>1
  <2> HIDE DEF i
  <2>3. Stepped(c, i, sems[i])
    BY <1>0, <2>1, <2>2, Takes
  <2> QED
    BY <1>0, <2>1, <2>2, <2>3, SteppedKeeps DEF i
<1>5. CASE PauseWoken(c)
  <2>1. caller[c].pc = "pauseWoken" /\ Cool(c, i, sems[i]) /\ current' = current
    BY <1>5 DEF PauseWoken
  <2>2. i \in Sems /\ i <= current
    BY <1>1, <2>1
  <2>3. c \in Among(caller, i, Timing) /\ Moves(c, caller, caller)
    BY <2>1 DEF Among, Timing, Moves
  <2> HIDE DEF i
  <2>4. Good([sems[i] EXCEPT !.locked = TRUE], caller, i)
    <3>1. sems[i].locked
      BY <1>0, <2>2, <2>3 DEF Good, Fit, Locked, Semaphore
    <3>2. [sems[i] EXCEPT !.locked = TRUE] = sems[i]
      BY <1>0, <2>2, <3>1 DEF Semaphore
    <3> QED
      BY <1>0, <2>2, <3>2
  <2>5. Stepped(c, i, sems[i])
    BY <1>0, <2>1, <2>2, <2>3, <2>4, Cools
  <2> QED
    BY <1>0, <2>1, <2>2, <2>5, SteppedKeeps DEF i
<1>6. CASE Timer(c)
  <2>1. /\ caller[c].left = 0 /\ current' = current
        /\ \/ caller[c].pc = "cooling" /\ Pace(c, i, sems[i])
           \/ caller[c].pc = "pacing" /\ Dispatch(c, i, sems[i])
    BY <1>6 DEF Timer
  <2>2. i \in Sems /\ i <= current
    BY <1>1, <2>1
  <2>3. c \in Among(caller, i, Timing) /\ Moves(c, caller, caller)
    BY <2>1 DEF Among, Timing, Moves
  <2>4. caller[c].pc = "pacing" => sems[i].since >= sems[i].pause
    <3>1. caller[c].pc = "pacing" => sems[i].since + caller[c].left >= sems[i].pause
      BY <1>0, <2>2 DEF Good, Fit, Timed, Among
    <3>2. sems[i].since \in Nat
      BY <1>0, <2>2 DEF Semaphore
    <3> QED
      BY <2>1, <3>1, <3>2
  <2> HIDE DEF i
  <2>5. Stepped(c, i, sems[i])
    <3>1. CASE caller[c].pc = "cooling" /\ Pace(c, i, sems[i])
      BY <1>0, <2>2, <2>3, <3>1, Paces
    <3>2. CASE caller[c].pc = "pacing" /\ Dispatch(c, i, sems[i])
      BY <1>0, <2>2, <2>3, <2>4, <3>2, Dispatches
    <3> QED
      BY <2>1, <3>1, <3>2
  <2> QED
    BY <1>0, <2>1, <2>2, <2>5, SteppedKeeps DEF i
<1> QED
  BY <1>2, <1>3, <1>4, <1>5, <1>6

\* A release keeps the invariant: what it takes from the slots it promises to a waiter.
LEMMA ReleaseKeeps ==
  ASSUME IInv, NEW c \in Caller, Release(c)
  PROVE  IInv' /\ PacedStep
<1>0. /\ caller \in Callers /\ sems \in [Sems -> Semaphore] /\ current \in Nat /\ current' = current
      /\ TypeOK /\ Known /\ \A j \in Sems : Good(sems[j], caller, j) /\ sems[j] \in Semaphore
  BY ConfigAssumption DEF IInv, TypeOK, Callers, Release
<1> DEFINE i == caller[c].sem
           R == sems[i]
           S == [R EXCEPT !.active = @ - 1]
           m == [caller EXCEPT ![c] = IdleCaller]
<1>1. caller[c].pc = "using" /\ i \in Sems
  BY <1>0, ConfigAssumption DEF Known, Callers, Sems, Release
<1>2. R \in Semaphore /\ Good(R, caller, i) /\ R.queue \in Seq(Caller)
  BY <1>0, <1>1 DEF Semaphore
<1>3. R.active - 1 \in Nat
  <2>1. c \in Among(caller, i, Holding)
    BY <1>1 DEF Among, Holding
  <2>2. Cardinality(Among(caller, i, Holding)) # 0
    BY <2>1, AmongFinite, FS_EmptySet
  <2> QED
    BY <1>2, <2>2, AmongFinite DEF Good, Fit
<1>4. /\ S \in Semaphore /\ S.active = R.active - 1 /\ S.max = R.max /\ S.queue = R.queue
      /\ S.locked = R.locked /\ S.pauseQueue = R.pauseQueue /\ S.since = R.since /\ S.pause = R.pause
  BY <1>2, <1>3, Assigned
<1>5. m \in Callers /\ Moves(c, caller, m) /\ m[c] = IdleCaller
  BY <1>0, ConfigAssumption DEF Callers, Moves, IdleCaller, CallerPC
<1>6. PICK T, g :
        /\ T \in Semaphore /\ g \in Callers /\ sems' = [sems EXCEPT ![i] = T] /\ caller' = g
        /\ Good(T, g, i) /\ g[c] = IdleCaller
        /\ \A d \in Caller \ {c} :
             g[d] = caller[d] \/ (caller[d].sem = i /\ g[d].sem = i /\ g[d].pc = "woken")
  <2>1. CASE S.queue = <<>>
    <3>1. sems' = [sems EXCEPT ![i] = S] /\ caller' = m
      BY <2>1 DEF Release
    <3> HIDE DEF S, m, R, i
    <3>2. Good(S, m, i)
      <4>1. R.queue = <<>> /\ S.queue = R.queue /\ caller[c].sem = i
        BY <1>4, <2>1 DEF i
      <4> QED
        BY <1>0, <1>1, <1>2, <1>4, <1>5, <4>1, Gives
    <3> QED
      BY <1>4, <1>5, <3>1, <3>2 DEF Moves
  <2>2. CASE S.queue # <<>>
    <3> DEFINE h == Head(S.queue)
               T == [S EXCEPT !.queue = Tail(@)]
               g == [m EXCEPT ![h].pc = "woken"]
    <3>1. sems' = [sems EXCEPT ![i] = T] /\ caller' = g
      BY <2>2 DEF Release
    <3> HIDE DEF S, m
    <3>2. /\ h \in Caller /\ Tail(S.queue) \in Seq(Caller) /\ h = S.queue[1]
          /\ 1 \in 1..Len(S.queue)
      BY <1>2, <1>4, <2>2, HeadTailProperties, EmptySeq, LenProperties
    <3>3. caller[h].pc = "queued" /\ caller[h].sem = i /\ h # c
      <4>1. Line(R.queue, "queued", caller, i) /\ h = R.queue[1] /\ 1 \in 1..Len(R.queue)
        BY <1>2, <1>4, <3>2 DEF Good, Fit
      <4> QED
        BY <1>1, <4>1 DEF Line
    <3>4. m[h] = caller[h]
      BY <1>5, <3>2, <3>3 DEF Moves
    <3> HIDE DEF h
    <3>5. /\ g \in Callers /\ Moves(h, m, g) /\ g[h].sem = i /\ g[h].pc = "woken"
      BY <1>5, <3>2, <3>3, <3>4 DEF Callers, CallerPC, Moves
    <3>6. /\ T \in Semaphore /\ T.active = S.active /\ T.max = S.max /\ T.queue = Tail(S.queue)
          /\ T.locked = S.locked /\ T.pauseQueue = S.pauseQueue /\ T.since = S.since /\ T.pause = S.pause
      <4> DEFINE q == Tail(S.queue)
      <4>1. T = [S EXCEPT !.queue = q] /\ q \in Seq(Caller)
        BY <3>2
      <4> HIDE DEF T, q
      <4>2. /\ T \in Semaphore /\ T.active = S.active /\ T.max = S.max /\ T.queue = q
            /\ T.locked = S.locked /\ T.pauseQueue = S.pauseQueue /\ T.since = S.since /\ T.pause = S.pause
        BY <1>4, <4>1, Assigned
      <4> QED
        BY <4>2 DEF q
    <3> HIDE DEF T, g, R, i
    <3>7. Good(T, g, i)
      <4>1. R.queue # <<>> /\ S.queue = R.queue /\ caller[c].sem = i /\ h = Head(R.queue)
        BY <1>4, <2>2 DEF h, i
      <4>2. /\ T.active = R.active - 1 /\ T.max = R.max /\ T.queue = Tail(R.queue)
            /\ T.locked = R.locked /\ T.pauseQueue = R.pauseQueue /\ T.since = R.since /\ T.pause = R.pause
        BY <1>4, <3>6
      <4>3. Moves(Head(R.queue), m, g) /\ g[Head(R.queue)].sem = i /\ g[Head(R.queue)].pc = "woken"
        BY <3>5, <4>1
      <4> QED
        BY <1>0, <1>1, <1>2, <1>5, <3>5, <3>6, <4>1, <4>2, <4>3, GivesOn
    <3>8. g[c] = IdleCaller /\ \A d \in Caller \ {c, h} : g[d] = caller[d]
      BY <1>5, <3>2, <3>3, <3>5 DEF Moves
    <3> QED
      BY <3>1, <3>3, <3>5, <3>6, <3>7, <3>8
  <2> QED
    BY <2>1, <2>2
<1> HIDE DEF S, m, R
<1>7. \A j \in Sems : Good(sems'[j], caller', j) /\ sems'[j] \in Semaphore
  <2> SUFFICES ASSUME NEW j \in Sems PROVE Good(sems'[j], caller', j) /\ sems'[j] \in Semaphore
    OBVIOUS
  <2>1. CASE j = i
    BY <1>0, <1>1, <1>6, <2>1
  <2>2. CASE j # i
    <3>1. \A d \in Caller : g[d] = caller[d] \/ (caller[d].sem # j /\ g[d].sem # j)
      BY <1>6, <2>2 DEF IdleCaller, Sems
    <3>2. sems'[j] = sems[j] /\ sems[j] \in Semaphore
      BY <1>0, <1>6, <2>2
    <3>3. Good(sems[j], g, j)
      BY <1>0, <1>6, <3>1, <3>2, Elsewhere
    <3> QED
      BY <1>6, <3>2, <3>3
  <2> QED
    BY <2>1, <2>2
<1>8. TypeOK'
  BY <1>0, <1>1, <1>6 DEF TypeOK, Callers
<1>9. Known'
  <2>1. \A d \in Caller : g[d].pc = "idle" <=> g[d].sem = 0
    BY <1>0, <1>1, <1>6 DEF Known, IdleCaller, Sems
  <2>2. \A d \in Caller : g[d].sem <= current
    <3> SUFFICES ASSUME NEW d \in Caller PROVE g[d].sem <= current
      OBVIOUS
    <3>1. caller[d].sem <= current
      BY <1>0 DEF Known
    <3> QED
      BY <1>0, <1>6, <3>1 DEF IdleCaller
  <2>3. i <= current
    BY <1>0 DEF Known
  <2>4. \A j \in Sems : j > current => sems'[j] = NoSem
    BY <1>0, <1>1, <1>6, <2>3 DEF Known, Sems
  <2> QED
    BY <1>0, <1>6, <2>1, <2>2, <2>4 DEF Known
<1>10. PacedStep
  BY <1>6 DEF PacedStep, IdleCaller
<1> QED
  BY <1>7, <1>8, <1>9, <1>10 DEF IInv

\* A 429 extends a cooldown, which nothing here depends on.
LEMMA RateLimitedKeeps ==
  ASSUME IInv, NEW c \in Caller, RateLimited(c)
  PROVE  IInv' /\ PacedStep
<1>0. /\ caller \in Callers /\ sems \in [Sems -> Semaphore] /\ current \in Nat /\ current' = current
      /\ current \in 0..MaxSems /\ caller' = caller
      /\ TypeOK /\ Known /\ \A j \in Sems : Good(sems[j], caller, j) /\ sems[j] \in Semaphore
  BY ConfigAssumption DEF IInv, TypeOK, Callers, RateLimited
<1>1. current \in Sems
  BY <1>0, ConfigAssumption DEF RateLimited, Known, Callers, Sems
<1>2. PICK n \in 1..MaxCooldown : sems' = [sems EXCEPT ![current].cooldown = n]
  BY DEF RateLimited
<1> DEFINE T == [sems[current] EXCEPT !.cooldown = n]
<1>3. sems' = [sems EXCEPT ![current] = T]
  BY <1>2
<1>4. n \in 0..MaxCooldown /\ sems[current] \in Semaphore
  BY <1>0, <1>1
<1>5. /\ T \in Semaphore /\ T.active = sems[current].active /\ T.max = sems[current].max
      /\ T.queue = sems[current].queue /\ T.locked = sems[current].locked
      /\ T.pauseQueue = sems[current].pauseQueue /\ T.since = sems[current].since
      /\ T.pause = sems[current].pause
  BY <1>4, Assigned
<1> HIDE DEF T
<1>6. Good(T, caller, current)
  BY <1>0, <1>1, <1>5 DEF Good, Fit, Locked, Timed, Promised
<1>7. \A j \in Sems : Good(sems'[j], caller, j) /\ sems'[j] \in Semaphore
  BY <1>0, <1>1, <1>3, <1>5, <1>6
<1>8. TypeOK'
  BY <1>0, <1>3, <1>5, <1>1 DEF TypeOK
<1>9. Known'
  <2>1. \A j \in Sems : j > current => sems'[j] = NoSem
    BY <1>0, <1>1, <1>3 DEF Known, Sems
  <2> QED
    BY <1>0, <2>1 DEF Known
<1>10. PacedStep
  BY <1>0 DEF PacedStep
<1> QED
  BY <1>0, <1>7, <1>8, <1>9, <1>10 DEF IInv

\* Time keeps the invariant.
LEMMA TickKeeps ==
  ASSUME IInv, Tick
  PROVE  IInv' /\ PacedStep
<1>0. /\ caller \in Callers /\ sems \in [Sems -> Semaphore] /\ current \in Nat /\ current' = current
      /\ TypeOK /\ Known /\ \A j \in Sems : Good(sems[j], caller, j) /\ sems[j] \in Semaphore
  <2>1. current' = current
    BY DEF Tick
  <2> QED
    BY <2>1, ConfigAssumption DEF IInv, TypeOK, Callers
<1>1. ASSUME NEW d \in Caller
      PROVE  /\ caller'[d].pc = caller[d].pc /\ caller'[d].sem = caller[d].sem
             /\ caller'[d].left = Less(caller[d].left)
             /\ caller'[d] \in [pc : CallerPC, sem : 0..MaxSems, left : Nat]
  <2>1. caller[d] \in [pc : CallerPC, sem : 0..MaxSems, left : Nat]
    BY <1>0 DEF Callers
  <2>2. caller'[d] = [caller[d] EXCEPT !.left = Less(@)]
    BY DEF Tick
  <2>3. Less(caller[d].left) \in Nat
    BY <2>1 DEF Less
  <2> QED
    BY <2>1, <2>2, <2>3
<1>2. caller' \in Callers
  BY <1>1 DEF Tick, Callers
<1>3. ASSUME NEW j \in Sems
      PROVE  /\ sems'[j] \in Semaphore /\ sems'[j].active = sems[j].active /\ sems'[j].max = sems[j].max
             /\ sems'[j].queue = sems[j].queue /\ sems'[j].locked = sems[j].locked
             /\ sems'[j].pauseQueue = sems[j].pauseQueue /\ sems'[j].pause = sems[j].pause
             /\ sems'[j].since = IF sems[j].since < sems[j].pause THEN sems[j].since + 1 ELSE sems[j].since
             /\ j > current => sems'[j] = sems[j]
  <2> DEFINE n == Less(sems[j].cooldown)
             C == [sems[j] EXCEPT !.cooldown = n]
             k == IF sems[j].since < sems[j].pause THEN sems[j].since + 1 ELSE sems[j].since
  <2>1. sems[j] \in Semaphore
    BY <1>0
  <2>2. n \in 0..MaxCooldown /\ k \in Nat
    BY <2>1, ConfigAssumption DEF Less, Semaphore
  <2>3. sems'[j] = [C EXCEPT !.since = k]
    BY <2>1 DEF Tick, Semaphore
  <2>4. j > current => n = sems[j].cooldown /\ k = sems[j].since
    BY <1>0 DEF Known, NoSem, New, Less
  <2> HIDE DEF n, k
  <2>5. /\ C \in Semaphore /\ C.active = sems[j].active /\ C.max = sems[j].max
        /\ C.queue = sems[j].queue /\ C.locked = sems[j].locked
        /\ C.pauseQueue = sems[j].pauseQueue /\ C.pause = sems[j].pause /\ C.since = sems[j].since
    BY <2>1, <2>2, Assigned
  <2>6. j > current => C = sems[j]
    BY <2>1, <2>4 DEF Semaphore
  <2> HIDE DEF C
  <2>7. /\ sems'[j] \in Semaphore /\ sems'[j].active = C.active /\ sems'[j].max = C.max
        /\ sems'[j].queue = C.queue /\ sems'[j].locked = C.locked
        /\ sems'[j].pauseQueue = C.pauseQueue /\ sems'[j].pause = C.pause /\ sems'[j].since = k
    BY <2>2, <2>3, <2>5, Assigned
  <2>8. j > current => sems'[j] = sems[j]
    BY <2>1, <2>3, <2>4, <2>6 DEF Semaphore
  <2> QED
    BY <2>5, <2>7, <2>8 DEF k
<1>4. sems' \in [Sems -> Semaphore]
  BY <1>3 DEF Tick
<1>5. ASSUME NEW j \in Sems PROVE Good(sems'[j], caller', j)
  <2>1. sems[j] \in Semaphore /\ Good(sems[j], caller, j)
    BY <1>0
  <2> QED
    BY <1>0, <1>1, <1>2, <1>3, <2>1, TimePasses
<1>6. TypeOK'
  BY <1>0, <1>2, <1>4 DEF TypeOK, Callers
<1>7. Known'
  BY <1>0, <1>1, <1>3 DEF Known
<1>8. PacedStep
  BY <1>1 DEF PacedStep
<1> QED
  BY <1>5, <1>6, <1>7, <1>8 DEF IInv

\* Every step keeps the inductive invariant, and the pause.
LEMMA StepIInv == IInv /\ [Next]_vars => IInv' /\ PacedStep
<1> SUFFICES ASSUME IInv, [Next]_vars PROVE IInv' /\ PacedStep
  OBVIOUS
<1>1. ASSUME NEW c \in Caller, Call(c) PROVE IInv' /\ PacedStep
  BY <1>1, AcquireKeeps, ReleaseKeeps, RateLimitedKeeps DEF Call
<1>2. CASE Tick
  BY <1>2, TickKeeps
<1>3. CASE UNCHANGED vars
  <2>1. sems' = sems /\ caller' = caller /\ current' = current
    BY <1>3 DEF vars
  <2>2. \A j \in Sems : Good(sems[j], caller, j)' <=> Good(sems[j], caller, j)
    BY <2>1
  <2>3. IInv'
    BY <2>1, <2>2 DEF IInv, TypeOK, Known
  <2> QED
    BY <2>1, <2>3 DEF PacedStep
<1> QED
  BY <1>1, <1>2, <1>3 DEF Next
-----------------------------------------------------------------------------
(* Theorems *)

\* Every variable holds values of its type.
THEOREM SemaphoreTypesCorrect == Spec => []TypeOK
<1>1. IInv /\ [Next]_vars => IInv'
  BY StepIInv
<1>2. IInv => TypeOK
  BY DEF IInv
<1> QED
  BY <1>1, <1>2, InitIInv, PTL DEF Spec

\* No wake-up is lost: while a caller waits for a slot, every slot is taken or promised
\* (acquire and release of ModelSemaphore), for any number of callers that slip in between.
THEOREM NoWakeupLost == Spec => []NoLostWakeup
<1>1. IInv /\ [Next]_vars => IInv'
  BY StepIInv
<1>2. IInv => NoLostWakeup
  BY DEF IInv, Good, Promised, NoLostWakeup, Among, Where
<1> QED
  BY <1>1, <1>2, InitIInv, PTL DEF Spec

\* The timing section of a semaphore has one owner at most, through every hand-over.
THEOREM SectionExclusive == Spec => []OneInTiming
<1>1. IInv /\ [Next]_vars => IInv'
  BY StepIInv
<1>2. ASSUME IInv PROVE OneInTiming
  <2> SUFFICES ASSUME NEW i \in Sems PROVE Cardinality(Where(i, Timing)) <= 1
    BY DEF OneInTiming
  <2> DEFINE A == Where(i, Timing)
  <2>1. \A c, d \in A : c = d
    BY <1>2 DEF IInv, Good, Fit, Locked, Among, Where
  <2>2. CASE A = {}
    BY <2>2, FS_EmptySet
  <2>3. CASE A # {}
    <3>1. PICK c : A = {c}
      BY <2>1, <2>3
    <3> QED
      BY <3>1, FS_Singleton
  <2> QED
    BY <2>2, <2>3
<1> QED
  BY <1>1, <1>2, InitIInv, PTL DEF Spec

\* Two dispatches of a semaphore are its pause apart, whatever cooldowns, hand-overs and
\* callers that slip in come between them.
THEOREM DispatchesPaced == Spec => Paced
<1>1. IInv /\ [Next]_vars => IInv'
  BY StepIInv
<1>2. IInv /\ [Next]_vars => PacedStep
  BY StepIInv
<1> QED
  BY <1>1, <1>2, InitIInv, PTL DEF Spec, Paced, PacedStep
=============================================================================
