\* The token after an audit that failed.
CONSTANTS
  Sids = {s1, s2}
  Tenants = {contoso, fabrikam}
  Tabs = {t1, t2}
  Runs = {r1, r2}
  Steps = 1
  MaxRestarts = 1
  NoSid = NoSid
  NoTenant = NoTenant
  NoRun = NoRun
SPECIFICATION Spec
SYMMETRY Symmetry
INVARIANT TokenDroppedAfterAudit
