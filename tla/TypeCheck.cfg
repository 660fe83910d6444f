SPECIFICATION Spec
CONSTANTS
  Type <- MCType
  nullopt = nullopt
  TopLevelFuns = TRUE
  MaxArgs = 2
  MaxDepth = 4
INVARIANTS TypeOK RetTypeTracks Judgement
