\* Collections of up to three pages, with the code's five attempts per GET.
CONSTANTS
  NeededSets <- MCNeededSets
  MaxRetries = 5
  MaxSize = 3
SPECIFICATION Spec
INVARIANTS
  TypeOK
  UsersOfOneQuery
  MfaOfKnownUsers
PROPERTIES
  ImplementsTenantFetch
  FetchBounded
  FetchEnds
\* A fetch that has ended takes no more steps.
CHECK_DEADLOCK FALSE
