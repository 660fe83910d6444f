SPECIFICATION Spec
CONSTANTS
  Zero = {"0"}
  NonZero = {"1"}
  Exp <- MCExp
  Folded <- MCFolded
  Names <- MCNames
  Uses <- MCUses
  Stmt <- MCStmt
  Programs <- OtherwisePrograms
PROPERTY MeaningPreserved
