SPECIFICATION ClientSpec
CONSTANTS
  r1 = r1
  r2 = r2
  r3 = r3
  q1 = q1
  q2 = q2
  d1 = d1
  Requests <- ThreeRequests
  Questions = {q1, q2}
  Alike = {}
  Docs = {d1}
  Window = 1
  MaxScan = 50
  Nobody = Nobody
  Client = "any"
  Ops = {"retry"}
  Faults = {}
  MaxVotes = 0
  Rated = {}
  Fragile = {r1, r2, r3}
  TabFaults = {"stop"}
CHECK_DEADLOCK FALSE
SYMMETRY Symmetry
INVARIANTS AnswerAlwaysUnderQuestion
