SPECIFICATION Spec
CONSTANTS
  MinInt <- MCMinInt
  BitOp <- MCBitOp
  Names <- MCNames
  Strings = {"s"}
  Exp <- MCExp
  Programs <- MCPrograms
  Env <- MCEnv
INVARIANTS TypeOK ValuePreserved
PROPERTIES OnePassFolds ReportsChange FoldingEnds
