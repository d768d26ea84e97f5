SPECIFICATION FairSpec
CONSTANTS
  Scanner = {s1}
  MaxEntries = 2
  MaxJobs = 1
  MaxCrashes = 1
  MaxLost = 1
  MaxMissed = 1
  MaxUnreachable = 2
PROPERTIES EveryResultRecorded EveryAttemptEnds
