SPECIFICATION Spec
CONSTANTS
  Type <- MCType
  nullopt = nullopt
  TopLevelFuns = FALSE
  MaxArgs = 2
  MaxDepth = 4
INVARIANT RetTypeTracks
