SPECIFICATION FairSpec
CONSTANTS
  u1 = u1
  u2 = u2
  k1 = k1
  Uploads <- TwoUploads
  Keys = {k1}
  KeyOf <- SameKey
  Unusable = {u2}
  MaxAttempts = 3
  MaxStalled = 2
  Faults = {"queue", "embed"}
CHECK_DEADLOCK FALSE
INVARIANTS GivenUpIsFinal PendingHasJob
PROPERTIES FilesReclaimed StatusSettles ImplementsLifecycle
