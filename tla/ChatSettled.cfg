SPECIFICATION Spec
CONSTANTS
  r1 = r1
  r2 = r2
  r3 = r3
  q1 = q1
  q2 = q2
  q3 = q3
  d1 = d1
  Requests <- ThreeRequests
  Questions = {q1, q2, q3}
  Alike <- Chain
  Docs = {d1}
  Window = 6
  MaxScan = 1
  Nobody = Nobody
  Client = "settled"
  Ops = {"retry", "feedback", "delete"}
  Faults = {"ttl"}
CHECK_DEADLOCK FALSE
SYMMETRY Symmetry
INVARIANTS ServedForLikeQuestion PromptEndsWithQuestion FeedbackPurges FlushPurges
