SPECIFICATION FairSpec
CONSTANTS
  File = {f1}
  NoFile = NoFile
  Worker = {w1,w2,w3}
  MaxConcurrency = 2
  Caller = {c1,c2}
  Kinds = {"scan", "watch", "reprocess", "reprocessFolder", "retry"}
  MaxCalls = 2
  MaxFaults = 1
INVARIANTS TypeOK CountsJobs ProcessingHasJob PendingHasJob NoIdleCapacity
PROPERTIES ProcessingEnds
CHECK_DEADLOCK FALSE
