SPECIFICATION Spec
CONSTANTS
  c1 = c1
  c2 = c2
  c3 = c3
  c4 = c4
  d1 = d1
  d2 = d2
  Chunks = {c1, c2, c3}
  Docs = {d1, d2}
  DocOf <- OneEach
  ArmLimit = 2
  Top = 2
  Unknown = Unknown
  MaxAttempts = 1
  MaxTokens = 0
  Faults = {}
CHECK_DEADLOCK FALSE
PROPERTY GuardrailMeansIrrelevant
