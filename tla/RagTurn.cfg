SPECIFICATION FairSpec
CONSTANTS
  c1 = c1
  c2 = c2
  c3 = c3
  c4 = c4
  d1 = d1
  d2 = d2
  Chunks = {c1, c2, c3, c4}
  Docs = {d1, d2}
  DocOf <- TwoOfTwo
  ArmLimit = 2
  Top = 2
  Unknown = Unknown
  MaxAttempts = 3
  MaxTokens = 2
  Faults = {"transient", "client", "stream", "db", "langfuse", "crash"}
CHECK_DEADLOCK FALSE
INVARIANTS RagTypeOK SavedAsRead CitationsResolve FusionRespectsBothArms TraceTellsOutcome
PROPERTIES KeepsStreamPromise TurnEnds
