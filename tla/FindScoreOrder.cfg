SPECIFICATION ClientSpec
CONSTANTS
  r1 = r1
  r2 = r2
  r3 = r3
  q1 = q1
  q2 = q2
  d1 = d1
  Requests <- TwoRequests
  Questions = {q1}
  Alike = {}
  Docs = {}
  Window = 1
  MaxScan = 50
  Nobody = Nobody
  Client = "any"
  Ops = {"feedback"}
  Faults = {}
  MaxVotes = 2
  Rated = {r1}
  Fragile = {r1, r2}
  TabFaults = {}
CHECK_DEADLOCK FALSE
INVARIANTS LangfuseFollows
