SPECIFICATION Spec
CONSTANTS
  u1 = u1
  u2 = u2
  k1 = k1
  Uploads <- TwoUploads
  Keys = {k1}
  KeyOf <- SameKey
  Unusable = {u2}
  MaxAttempts = 2
  MaxStalled = 1
  Faults = {"crash", "stall", "db", "queue", "embed", "unlink"}
CHECK_DEADLOCK FALSE
INVARIANTS TypeOK NoOrphanChunks OneRowPerKey CompletedHasChunks FileKeptForRetry
PROPERTY ImplementsLifecycle
