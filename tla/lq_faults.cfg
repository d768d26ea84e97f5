SPECIFICATION Spec
CONSTANTS
  Node = {n1}
  Run = {r1, r2}
  Client = {c1}
  NoRun = NoRun
  NoNode = NoNode
  MaxEntries = 3
  MaxEnqueue = 1
  MaxRetries = 1
  MaxDepth = 1
  MaxConcurrent = 2
  MaxRecoveries = 1
  MaxClaims = 1
  MaxCrashes = 1
  MaxLost = 1
  FreezeOnStart = {TRUE}
  Ops = {"enqueue", "chain"}
INVARIANTS TypeOK FrozenHasCause RetriedOnce
PROPERTIES EntriesLive
SYMMETRY Symmetry
CHECK_DEADLOCK FALSE
