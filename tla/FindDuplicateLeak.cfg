SPECIFICATION Spec
CONSTANTS
  u1 = u1
  u2 = u2
  k1 = k1
  Uploads <- TwoUploads
  Keys = {k1}
  KeyOf <- SameKey
  Unusable = {}
  MaxAttempts = 3
  MaxStalled = 2
  Faults = {}
CHECK_DEADLOCK FALSE
INVARIANT DuplicateLeavesNoFile
