SPECIFICATION Spec
CONSTANTS
  Node = {n1}
  Run = {r1}
  Client = {c1, c2}
  NoRun = NoRun
  NoNode = NoNode
  MaxEntries = 2
  MaxEnqueue = 1
  MaxRetries = 1
  MaxDepth = 1
  MaxConcurrent = 1
  MaxRecoveries = 1
  MaxClaims = 1
  MaxCrashes = 0
  MaxLost = 0
  FreezeOnStart = {TRUE}
  Ops = {"enqueue", "cancel", "cancelByNode", "remove"}
INVARIANTS InQueueHasEntry
SYMMETRY Symmetry
CHECK_DEADLOCK FALSE
