SPECIFICATION TrackSpec
CONSTANTS
  u1 = u1
  k1 = k1
  Uploads <- OneUpload
  Keys = {k1}
  KeyOf <- SameKey
  Unusable = {}
  MaxAttempts = 2
  MaxStalled = 1
  Faults = {}
  TabFaults = {}
CHECK_DEADLOCK FALSE
INVARIANT NoZombiePoll
