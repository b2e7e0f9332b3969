SPECIFICATION Spec
CONSTANTS
  None = None
  Readers = {r1, r2, r3}
  Slots = {s1}
  MaxTokens = 1
INVARIANT LaterComes
CHECK_DEADLOCK FALSE
