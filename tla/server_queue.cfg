SPECIFICATION FairSpec
CONSTANTS
  None = None
  Readers = {r1, r2}
  Slots = {s1}
  MaxTokens = 2
INVARIANTS TypeOK TaskOnce NoStaleResult CompleteAnswer
PROPERTIES ImplementsCompletions EveryTaskServed TerminateEndsLoop
CHECK_DEADLOCK FALSE
