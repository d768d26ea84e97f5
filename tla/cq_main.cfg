SPECIFICATION Spec
CONSTANTS
  a = a
  b = b
  c = c
  d = d
  Node = {a, b, c, d}
  Child <- Chain
  Tested = {b}
  Scanned = {a, b}
  Process = {p1, p2}
  None = None
  Free = Free
  Frozen = Frozen
  ChainOn = {"refuted"}
  MaxChainDepth = 3
  TaintMaxDepth = 2
  FreezeChoices = {TRUE}
  MaxEntries = 3
  MaxScans = 1
  MaxOthers = 1
INVARIANTS TypeOK TaintExplained PendingHasReview FreezeHolds
CHECK_DEADLOCK FALSE
SYMMETRY Symmetry
