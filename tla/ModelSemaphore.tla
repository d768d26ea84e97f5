--------------------------- MODULE ModelSemaphore ---------------------------
(***************************************************************************)
(* The slots of one LLM model (models/semaphore.ts): at most maxConcurrency *)
(* calls in flight, a pause between dispatches, and a cooldown that every  *)
(* caller waits for after a 429.  All LLM and embedding calls take a slot  *)
(* here, and give it back in a finally block (models/providers.ts).        *)
(*                                                                         *)
(* Atomicity: JavaScript runs to the next await.  Resolving a waiter's     *)
(* promise only queues its continuation, a microtask: other continuations  *)
(* that were queued before may acquire or release in between, timers and   *)
(* time may not.  Time is counted in ticks, and kept as what is left of a  *)
(* wait or has passed since a dispatch, so that it needs no bound.         *)
(*                                                                         *)
(* getSemaphore replaces the semaphore when a call site asks with another  *)
(* configuration; whoever waits at or holds the old one stays with it.     *)
(***************************************************************************)
EXTENDS Naturals, Sequences, FiniteSets

CONSTANTS
  Caller,       \* concurrent LLM calls to the model: finitely many
  Configs,      \* the configurations the call sites ask with
  MaxSems,      \* bound: semaphores ever created for the model
  MaxCooldown   \* bound: the longest cooldown a 429 asks for, in ticks

ASSUME ConfigAssumption ==
  /\ IsFiniteSet(Caller)
  /\ Configs \subseteq [max : Nat \ {0}, pause : Nat]
  /\ MaxSems \in Nat /\ MaxCooldown \in Nat

VARIABLES
  sems,     \* the semaphores that were created
  current,  \* the one in the map: callers that arrive use it, unless it is replaced
  caller    \* the callers

vars == <<sems, current, caller>>
-----------------------------------------------------------------------------
Sems == 1..MaxSems

Semaphore == [max : Nat, pause : Nat,          \* maxConcurrency, requestPauseMs
              active : Nat,                    \* slots taken
              queue : Seq(Caller),             \* waiting for a slot
              locked : BOOLEAN,                \* pauseLocked
              pauseQueue : Seq(Caller),        \* waiting for the timing section
              since : Nat,                     \* ticks since the last dispatch, up to pause
              cooldown : 0..MaxCooldown]       \* what is left of _rateLimitedUntil

\* A semaphore that was just created, or none (max = 0); the last dispatch is long ago
New(cf) == [max |-> cf.max, pause |-> cf.pause, active |-> 0, queue |-> <<>>, locked |-> FALSE,
            pauseQueue |-> <<>>, since |-> cf.pause, cooldown |-> 0]
NoSem == New([max |-> 0, pause |-> 0])

\* queued, woken: for a slot; pauseQueued, pauseWoken: for the timing section;
\* cooling, pacing: the two timers in it; using: the call is in flight
CallerPC == {"idle", "queued", "woken", "pauseQueued", "pauseWoken", "cooling", "pacing", "using"}
Timing   == {"pauseWoken", "cooling", "pacing"}
IdleCaller == [pc |-> "idle", sem |-> 0, left |-> 0]
At(p, i, n) == [pc |-> p, sem |-> i, left |-> n]

\* Callers whose continuation is queued as a microtask
Microtasks == {c \in Caller : caller[c].pc \in {"woken", "pauseWoken"}}

Init ==
  /\ sems = [i \in Sems |-> NoSem]
  /\ current = 0
  /\ caller = [c \in Caller |-> IdleCaller]
-----------------------------------------------------------------------------
(* What a caller does from one await to the next.  S is its semaphore as   *)
(* the steps before have left it.                                          *)

\* The section is handed to its first waiter, still locked, or unlocked; the caller
\* goes on with its call (the mutant unlocks it for whoever comes first)
DispatchUnlocking(c, i, S) ==
  LET out == [S EXCEPT !.since = 0, !.locked = FALSE] IN
  IF S.pauseQueue = <<>>
    THEN /\ sems' = [sems EXCEPT ![i] = out]
         /\ caller' = [caller EXCEPT ![c] = At("using", i, 0)]
    ELSE /\ sems' = [sems EXCEPT ![i] = [out EXCEPT !.pauseQueue = Tail(@)]]
         /\ caller' = [caller EXCEPT ![c] = At("using", i, 0),
                                     ![Head(S.pauseQueue)].pc = "pauseWoken"]
Dispatch(c, i, S) ==
  LET out == [S EXCEPT !.since = 0] IN
  IF S.pauseQueue = <<>>
    THEN /\ sems' = [sems EXCEPT ![i] = [out EXCEPT !.locked = FALSE]]
         /\ caller' = [caller EXCEPT ![c] = At("using", i, 0)]
    ELSE /\ sems' = [sems EXCEPT ![i] = [out EXCEPT !.pauseQueue = Tail(@)]]
         /\ caller' = [caller EXCEPT ![c] = At("using", i, 0),
                                     ![Head(S.pauseQueue)].pc = "pauseWoken"]

\* The pause since the last dispatch has passed, or is waited for
Pace(c, i, S) ==
  \/ S.since >= S.pause /\ Dispatch(c, i, S)
  \/ /\ S.since < S.pause
     /\ sems' = [sems EXCEPT ![i] = S]
     /\ caller' = [caller EXCEPT ![c] = At("pacing", i, S.pause - S.since)]

\* The timing section: first the cooldown, read once
Cool(c, i, S) ==
  LET in == [S EXCEPT !.locked = TRUE] IN
  \/ S.cooldown = 0 /\ Pace(c, i, in)
  \/ /\ S.cooldown > 0
     /\ sems' = [sems EXCEPT ![i] = in]
     /\ caller' = [caller EXCEPT ![c] = At("cooling", i, S.cooldown)]

\* The slot is taken; the section is entered only if there is something to wait for
TakeSlot(c, i, S) ==
  LET taken  == [S EXCEPT !.active = @ + 1]
      timing == S.pause > 0 \/ S.cooldown > 0
  IN
  \/ /\ ~timing
     /\ sems' = [sems EXCEPT ![i] = taken]
     /\ caller' = [caller EXCEPT ![c] = At("using", i, 0)]
  \/ timing /\ ~S.locked /\ Cool(c, i, taken)
  \/ /\ timing /\ S.locked
     /\ sems' = [sems EXCEPT ![i] = [taken EXCEPT !.pauseQueue = Append(@, c)]]
     /\ caller' = [caller EXCEPT ![c] = At("pauseQueued", i, 0)]

\* acquire: the slots are counted before the await, not after it
Enter(c, i, S) ==
  \/ S.active < S.max /\ TakeSlot(c, i, S)
  \/ /\ S.active >= S.max
     /\ sems' = [sems EXCEPT ![i] = [S EXCEPT !.queue = Append(@, c)]]
     /\ caller' = [caller EXCEPT ![c] = At("queued", i, 0)]
-----------------------------------------------------------------------------
\* acquireModelSlot at the semaphore in the map ...
Acquire(c) ==
  /\ caller[c].pc = "idle"
  /\ current # 0
  /\ [max |-> sems[current].max, pause |-> sems[current].pause] \in Configs
  /\ Enter(c, current, sems[current])
  /\ UNCHANGED current

\* ... or at a new one that replaces it, when the call site's configuration differs
AcquireNew(c, cf) ==
  /\ caller[c].pc = "idle"
  /\ current < MaxSems
  /\ current # 0 => [max |-> sems[current].max, pause |-> sems[current].pause] # cf
  /\ current' = current + 1
  /\ Enter(c, current + 1, New(cf))

\* Mutant of Woken: the slot passes from the call that ended to the caller it wakes,
\* which does not count it again, though Release has given it back
WokenUncounted(c) ==
  LET S == sems[caller[c].sem] IN
  /\ caller[c].pc = "woken"
  /\ TakeSlot(c, caller[c].sem, [S EXCEPT !.active = @ - 1])
  /\ UNCHANGED current

\* The continuation of a caller that was woken: it takes its slot without looking
Woken(c) ==
  /\ caller[c].pc = "woken"
  /\ TakeSlot(c, caller[c].sem, sems[caller[c].sem])
  /\ UNCHANGED current

\* The continuation of a caller that the section was handed to
PauseWoken(c) ==
  /\ caller[c].pc = "pauseWoken"
  /\ Cool(c, caller[c].sem, sems[caller[c].sem])
  /\ UNCHANGED current

\* Mutant of Timer: the pause is not looked at after a cooldown
TimerSkipsPause(c) ==
  /\ caller[c].left = 0
  /\ Microtasks = {}
  /\ caller[c].pc \in {"cooling", "pacing"}
  /\ Dispatch(c, caller[c].sem, sems[caller[c].sem])
  /\ UNCHANGED current

\* A timer fires: after the cooldown comes the pause, after the pause the call
Timer(c) ==
  /\ caller[c].left = 0
  /\ Microtasks = {}
  /\ \/ caller[c].pc = "cooling" /\ Pace(c, caller[c].sem, sems[caller[c].sem])
     \/ caller[c].pc = "pacing" /\ Dispatch(c, caller[c].sem, sems[caller[c].sem])
  /\ UNCHANGED current

\* Mutant of Release: only a call that leaves a slot free wakes a waiter
ReleaseIfIdle(c) ==
  LET i == caller[c].sem
      S == [sems[i] EXCEPT !.active = @ - 1]
  IN
  /\ caller[c].pc = "using"
  /\ IF S.queue = <<>> \/ S.active > 0
       THEN /\ sems' = [sems EXCEPT ![i] = S]
            /\ caller' = [caller EXCEPT ![c] = IdleCaller]
       ELSE /\ sems' = [sems EXCEPT ![i] = [S EXCEPT !.queue = Tail(@)]]
            /\ caller' = [caller EXCEPT ![c] = IdleCaller, ![Head(S.queue)].pc = "woken"]
  /\ UNCHANGED current

\* The call is over: the slot is free at once, and the first waiter is woken
Release(c) ==
  LET i == caller[c].sem
      S == [sems[i] EXCEPT !.active = @ - 1]
  IN
  /\ caller[c].pc = "using"
  /\ IF S.queue = <<>>
       THEN /\ sems' = [sems EXCEPT ![i] = S]
            /\ caller' = [caller EXCEPT ![c] = IdleCaller]
       ELSE /\ sems' = [sems EXCEPT ![i] = [S EXCEPT !.queue = Tail(@)]]
            /\ caller' = [caller EXCEPT ![c] = IdleCaller, ![Head(S.queue)].pc = "woken"]
  /\ UNCHANGED current

\* reportRateLimit, by a call in flight: the cooldown of the semaphore in the map,
\* which need not be the caller's, is extended and never shortened
RateLimited(c) ==
  /\ caller[c].pc = "using"
  /\ \E n \in 1..MaxCooldown :
       /\ n > sems[current].cooldown
       /\ sems' = [sems EXCEPT ![current].cooldown = n]
  /\ UNCHANGED <<current, caller>>

\* One tick less to wait
Less(n) == IF n = 0 THEN 0 ELSE n - 1

\* A tick of time
Tick ==
  /\ Microtasks = {}
  /\ sems' = [i \in Sems |-> [sems[i] EXCEPT !.cooldown = Less(@),
                                             !.since = IF @ < sems[i].pause THEN @ + 1 ELSE @]]
  /\ caller' = [c \in Caller |-> [caller[c] EXCEPT !.left = Less(@)]]
  /\ UNCHANGED current
-----------------------------------------------------------------------------
Call(c) ==
  \/ Acquire(c) \/ \E cf \in Configs : AcquireNew(c, cf)
  \/ Woken(c) \/ PauseWoken(c) \/ Timer(c) \/ Release(c) \/ RateLimited(c)

Next == (\E c \in Caller : Call(c)) \/ Tick

Spec == Init /\ [][Next]_vars

\* Microtasks run before anything else does, calls end (they have a request timeout),
\* and time passes, between the microtasks, so that timers fire.
Fairness ==
  /\ \A c \in Caller : WF_vars(Woken(c)) /\ WF_vars(PauseWoken(c)) /\ WF_vars(Release(c))
                       /\ SF_vars(Timer(c))
  /\ SF_vars(Tick)

FairSpec == Spec /\ Fairness
-----------------------------------------------------------------------------
(* Properties *)

\* Every variable holds values of its type.
TypeOK ==
  /\ sems \in [Sems -> Semaphore]
  /\ current \in 0..MaxSems
  /\ caller \in [Caller -> [pc : CallerPC, sem : 0..MaxSems, left : Nat]]

\* The callers of a semaphore at some point of acquire
Where(i, P) == {c \in Caller : caller[c].sem = i /\ caller[c].pc \in P}

\* A caller waits for a slot only while every slot is taken, or promised to a caller
\* that was woken: no wake-up is lost, whoever slips in between.
NoLostWakeup ==
  \A i \in Sems : sems[i].queue # <<>>
                    => sems[i].active + Cardinality(Where(i, {"woken"})) >= sems[i].max

\* Only one caller of a semaphore is in its timing section, though the section is
\* handed over while it is locked and the new owner runs later.
OneInTiming == \A i \in Sems : Cardinality(Where(i, Timing)) <= 1

\* Two calls of a semaphore with a pause are never dispatched within less than it:
\* cooldowns, hand-overs and callers that slip in between do not shorten it.
Paced ==
  [][\A c \in Caller : caller'[c].pc = "using" /\ caller[c].pc # "using" =>
       LET i == caller'[c].sem IN sems[i].max # 0 => sems[i].since >= sems[i].pause]_vars

\* Every caller gets its call, whatever the others do: nobody is overtaken for ever.
EveryCallerServed == \A c \in Caller : caller[c].pc # "idle" ~> caller[c].pc = "using"
=============================================================================
