CONSTANTS
  Selections <- MCSelections
  IssueSets <- MCIssueSets
  MaxBroken = 1
SPECIFICATION Spec
INVARIANTS
  TypeOK
  FindingsRight
  HiddenIssueTold
  ScopesSuffice
  ScopesMinimal
\* An audit that has been written or refused takes no more steps.
CHECK_DEADLOCK FALSE
