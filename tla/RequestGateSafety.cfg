SPECIFICATION GateSpec
CONSTANTS
  r1 = r1
  r2 = r2
  r3 = r3
  r4 = r4
  r5 = r5
  Requests <- FiveRequests
  Max = 2
  DbFails = TRUE
  Faults = {"redis", "crash"}
CHECK_DEADLOCK FALSE
SYMMETRY Symmetry
INVARIANTS AdmissionBound NoEarlyRejection HandledHasSession
