\* Tenants of every family, and all rules.
CONSTANTS
  e5 = e5
  e3 = e3
  mail = mail
  ann = ann
  bob = bob
  None = None
  SkuIds <- MCSkuIds
  UserIds <- MCUserIds
  Price <- MCPrice
  Overlaps <- MCOverlaps
  TenantSet <- MCTenantSet
  RuleIds <- AllRuleIds
SPECIFICATION Spec
CHECK_DEADLOCK FALSE
INVARIANTS
  TypeOK
  NumbersAgree
  NoSeatSavedTwice
  SavingsBounded
  UnverifiedListsAll
  ExpirationsAgree
  AdminsCovered
  CaFindingsRight
  AdminsShown
  EverySkuTold
  UnreadTold
  DuplicatesBounded
  QuarterUnusedIsHigh
