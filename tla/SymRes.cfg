SPECIFICATION Spec
CONSTANTS
  Name = {"a", "b"}
  nullopt = nullopt
  Type = {"int"}
  Exp <- MCExp
  Refs <- MCRefs
  Params <- MCParams
  TopLevelFuns = FALSE
  MaxSyms = 3
  MaxDepth = 2
INVARIANTS TypeOK ScopePerList SlotsDistinct CapturesLive
PROPERTY LexScoping
