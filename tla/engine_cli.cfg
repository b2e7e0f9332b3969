SPECIFICATION HFairSpec
CONSTANTS
  None = None
  Clients = {p1, p2}
  Names <- MCNames
  Paths <- MCPaths
  Profiles <- MCProfiles
  Files <- MCFiles
  ConfigFiles <- MCConfigFiles
  ModelFiles <- MCModelFiles
  Backend = "cli"
  Ops = {"generate", "hf", "embed", "load", "unload"}
INVARIANTS IsolatedServe ActiveWasLoaded
PROPERTY EveryRequestAnswered
