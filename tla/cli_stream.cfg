SPECIFICATION TimelySpec
CONSTANTS
  Consoles = {"posix", "terminal", "windows"}
  Modes = {"native", "openai", "once"}
  StderrLines = {"progress", "long"}
  MaxPieces = 2
  PipeSize = 1
INVARIANTS TypeOK DoneMeansAll OneEnd
PROPERTIES EndsWithChild NoOrphan RequestEnds
CHECK_DEADLOCK FALSE
