SPECIFICATION FairSpec
CONSTANTS
  Caller = {c1, c2, c3}
  Configs <- Both
  MaxSems = 2
  MaxCooldown = 2
INVARIANTS TypeOK NoLostWakeup OneInTiming
PROPERTIES Paced EveryCallerServed
