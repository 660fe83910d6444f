SPECIFICATION Spec
CONSTANTS
  Type <- MCType
  VarNames <- MCVarNames
  FunNames <- MCFunNames
  Vars <- MCVars
  Funs <- MCFuns
  nullopt = nullopt
  Exp <- MCExp
  Programs <- MCPrograms
INVARIANTS FollowsRules BlamesStage VisitsDouble
