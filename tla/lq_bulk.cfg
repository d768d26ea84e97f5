SPECIFICATION Spec
CONSTANTS
  Node = {n1, n2}
  Run = {r1}
  Client = {c1}
  NoRun = NoRun
  NoNode = NoNode
  MaxEntries = 2
  MaxEnqueue = 2
  MaxRetries = 0
  MaxDepth = 1
  MaxConcurrent = 1
  MaxRecoveries = 1
  MaxClaims = 2
  MaxCrashes = 0
  MaxLost = 0
  FreezeOnStart = {TRUE, FALSE}
  Ops = {"enqueue", "bulk", "budget", "stop"}
INVARIANTS SlotsOwned SlotBound InQueueHasEntry
SYMMETRY Symmetry
CHECK_DEADLOCK FALSE
