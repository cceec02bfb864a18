SPECIFICATION FairClientSpec
CONSTANTS
  r1 = r1
  r2 = r2
  r3 = r3
  q1 = q1
  q2 = q2
  d1 = d1
  Requests <- TwoRequests
  Questions = {q1}
  Alike = {}
  Docs = {d1}
  Window = 1
  MaxScan = 50
  Nobody = Nobody
  Client = "any"
  Ops = {"retry", "feedback"}
  Faults = {"limit", "crash"}
  MaxVotes = 1
  Rated = {r1}
  Fragile = {r1}
  TabFaults = {"net", "reload", "quota"}
CHECK_DEADLOCK FALSE
INVARIANTS ClientTypeOK ReloadLosesNothing
PROPERTY InputUnlocks
