SPECIFICATION Spec
CONSTANTS
  None = None
  Archive <- MCArchive
  Size <- MCSize
  Links = {"ggml.so"}
  Formats = {"tar.gz"}
  Given <- PlainOnly
  Words <- MCWords
  Lower <- MCLower
  MaxPolls = 2
INVARIANT ReadyIsComplete
