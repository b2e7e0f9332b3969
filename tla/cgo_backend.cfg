SPECIFICATION FairSpec
CONSTANTS
  None = None
  Calls = {p1, p2}
  Models <- MCModels
  CtxOption <- MCCtxOption
  BatchOption <- MCBatchOption
  DefaultCtx = 3
  DefaultBatch = 2
  CtxPad = 4
  Prompts = {3}
  Limits = {0, 3}
  DefaultLimit = 1
  Handles = {h1, h2}
INVARIANTS TypeOK HandlesConsistent CacheIsMine BoundedOutput
           StopsAfterDisconnect TelemetryHonest
PROPERTIES ImplementsHost EveryCallReturns
CHECK_DEADLOCK FALSE
