SPECIFICATION Spec
CONSTANTS
  Cycle = {synthesis, research}
  Synthesis = synthesis
  Heedless = {synthesis}
  Job = {j1, j2}
  Op = {o1, o2}
  Kinds = {"switch", "rollback", "interview"}
  NoJob = NoJob
INVARIANTS TypeOK StepsOwnProject LockIsOwed
PROPERTIES StopHonoured
