SPECIFICATION FairTrackSpec
CONSTANTS
  u1 = u1
  k1 = k1
  Uploads <- OneUpload
  Keys = {k1}
  KeyOf <- SameKey
  Unusable = {}
  MaxAttempts = 2
  MaxStalled = 1
  Faults = {"embed"}
  TabFaults = {}
CHECK_DEADLOCK FALSE
PROPERTY CompletionUnlocks
