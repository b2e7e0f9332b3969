SPECIFICATION HSpec
CONSTANTS
  None = None
  Clients = {p1, p2, p3}
  Names <- TwoNames
  Paths <- MCPaths
  Profiles <- MCProfiles
  Files <- TwoFiles
  ConfigFiles <- MCConfigFiles
  ModelFiles <- MCModelFiles
  Backend = "cgo"
  Ops = {"generate", "load", "unload"}
INVARIANTS TypeOK IsolatedServe ActiveAgrees
SYMMETRY Perms
