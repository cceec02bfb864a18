SPECIFICATION FairSpec
CONSTANTS
  r1 = r1
  r2 = r2
  r3 = r3
  r4 = r4
  r5 = r5
  Requests <- FiveRequests
  Max = 2
  Faults = {"crash"}
CHECK_DEADLOCK FALSE
PROPERTY WindowsEnd
