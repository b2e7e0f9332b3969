SPECIFICATION FairSpec
CONSTANTS
  Consoles = {"posix", "terminal"}
  Modes = {"native", "openai", "once"}
  StderrLines = {}
  MaxPieces = 2
  PipeSize = 2
PROPERTY AnswerEnds
CHECK_DEADLOCK FALSE
