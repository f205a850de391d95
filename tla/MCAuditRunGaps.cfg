CONSTANTS
  Selections <- MCSelections
  IssueSets <- MCIssueSets
  MaxBroken = 1
SPECIFICATION Spec
INVARIANT GapsTold
CHECK_DEADLOCK FALSE
