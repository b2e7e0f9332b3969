SPECIFICATION FairSpec
CONSTANTS
  None = None
  Archive <- MCArchive
  Size <- MCSize
  Links = {"ggml.so"}
  Formats = {"zip", "tar.gz"}
  Given <- MCGiven
  Words <- MCWords
  Lower <- MCLower
  MaxPolls = 2
INVARIANTS TypeOK InstallHonest NoSpinnerLeft KeepsExplicit PresetIsSafe
PROPERTIES SetupKeepsGood CommandEnds
