SPECIFICATION HSpec
CONSTANTS
  None = None
  Clients = {p1}
  Names <- TwoNames
  Paths <- MCPaths
  Profiles <- MCProfiles
  Files <- TwoFiles
  ConfigFiles <- MCConfigFiles
  ModelFiles <- MCModelFiles
  Backend = "cgo"
  Ops = {"generate"}
INVARIANT ActiveIsServable
