SPECIFICATION Spec
CONSTANTS
  Name = {"a", "b"}
  nullopt = nullopt
  Type = {"int"}
  Exp <- MCExp
  Refs <- MCRefs
  Params <- MCParams
  TopLevelFuns = TRUE
  MaxSyms = 3
  MaxDepth = 2
PROPERTY ForwardCalls
