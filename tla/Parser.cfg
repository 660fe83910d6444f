SPECIFICATION Spec
CONSTANT
  Inputs <- MCInputs
INVARIANTS EofKept DepthBounded ParsesTree RefusesOnlyBad
PROPERTY MakesProgress
