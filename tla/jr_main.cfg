SPECIFICATION Spec
CONSTANTS
  n1 = n1
  n2 = n2
  n3 = n3
  Node = {n1, n2, n3}
  Link <- Pedigree
  Bridge = {b1}
  Queued = {n3}
  Pinnable = {n3}
  Version = {v1, v2}
  MaxTime = 3
  MaxOps = 3
INVARIANTS TypeOK
PROPERTIES RestoresNodes RestoresLinks PinsSurvive
CHECK_DEADLOCK FALSE
SYMMETRY Symmetry
