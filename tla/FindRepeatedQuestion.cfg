SPECIFICATION Spec
CONSTANTS
  r1 = r1
  r2 = r2
  r3 = r3
  q1 = q1
  q2 = q2
  q3 = q3
  d1 = d1
  Requests <- TwoRequests
  Questions = {q1}
  Alike = {}
  Docs = {d1}
  Window = 6
  MaxScan = 50
  Nobody = Nobody
  Client = "waits"
  Ops = {}
  Faults = {}
CHECK_DEADLOCK FALSE
SYMMETRY Symmetry
INVARIANTS PromptEndsWithQuestion
