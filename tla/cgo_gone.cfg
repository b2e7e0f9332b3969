SPECIFICATION Spec
CONSTANTS
  None = None
  Calls = {p1, p2}
  Models <- OneModel
  CtxOption <- OneCtxOption
  BatchOption <- OneBatchOption
  DefaultCtx = 3
  DefaultBatch = 2
  CtxPad = 4
  Prompts = {3}
  Limits = {1}
  DefaultLimit = 2
  Handles = {h1, h2}
PROPERTY NoWorkForTheGone
CHECK_DEADLOCK FALSE
