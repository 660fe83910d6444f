SPECIFICATION Spec
CONSTANTS
  Texts <- MCTexts
  IntMax = 127
INVARIANTS TypeOK PositionsTrue EofLast FollowsLexicon CaretPoints
PROPERTY MovesOn
