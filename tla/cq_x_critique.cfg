SPECIFICATION Spec
CONSTANTS
  a = a
  b = b
  c = c
  d = d
  Node = {a, b, c, d}
  Child <- Chain
  Tested = {b}
  Scanned = {a, b}
  Process = {p1, p2}
  None = None
  Free = Free
  Frozen = Frozen
  ChainOn = {"refuted", "inconclusive"}
  MaxChainDepth = 3
  TaintMaxDepth = 2
  FreezeChoices = {TRUE}
  MaxEntries = 3
  MaxScans = 1
  MaxOthers = 1
INVARIANTS CritiqueAppliesOnce
CHECK_DEADLOCK FALSE
SYMMETRY Symmetry
