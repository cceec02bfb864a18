SPECIFICATION Spec
CONSTANTS
  t1 = t1
  t2 = t2
  t3 = t3
  t4 = t4
  Turns <- FourTurns
  Threshold = 3
  Compress = 2
  Window = 2
  Client = "settled"
  Faults = {}
CHECK_DEADLOCK FALSE
SYMMETRY Symmetry
INVARIANTS PromptRemembers
