SPECIFICATION FairSpec
CONSTANTS
  Node = {n1}
  Run = {r1, r2}
  Client = {c1}
  NoRun = NoRun
  NoNode = NoNode
  MaxEntries = 2
  MaxEnqueue = 1
  MaxRetries = 1
  MaxDepth = 1
  MaxConcurrent = 1
  MaxRecoveries = 1
  MaxClaims = 1
  MaxCrashes = 1
  MaxLost = 1
  FreezeOnStart = {TRUE}
  Ops = {"enqueue", "stop"}
PROPERTIES EveryEntryEnds EveryNodeThaws
CHECK_DEADLOCK FALSE
