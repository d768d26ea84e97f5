SPECIFICATION Spec
CONSTANTS
  Scanner = {s1, s2}
  MaxEntries = 2
  MaxJobs = 2
  MaxCrashes = 1
  MaxLost = 1
  MaxMissed = 0
  MaxUnreachable = 2
INVARIANTS TypeOK AppliedOnce OneJobPerAttempt
PROPERTIES ForgetsDeadJobsOnly
SYMMETRY Symmetry
