\* The licenses of suspended subscriptions in the savings.
CONSTANTS
  e5 = e5
  e3 = e3
  mail = mail
  ann = ann
  bob = bob
  None = None
  SkuIds <- MCSkuIds
  UserIds <- MCUserIds
  Price <- MCPrice
  Overlaps <- MCOverlaps
  TenantSet <- MCTenantSet
  RuleIds <- AllRuleIds
SPECIFICATION Spec
CHECK_DEADLOCK FALSE
INVARIANT InactiveExcluded
