\* Two tabs of one browser, two logins, two tenants, two streams, one restart.
\* An audit waits while it fetches, but makes no progress reports (web_one_tab
\* has them).
CONSTANTS
  Sids = {s1, s2}
  Tenants = {contoso, fabrikam}
  Tabs = {t1, t2}
  Runs = {r1, r2}
  Steps = 0
  MaxRestarts = 1
  NoSid = NoSid
  NoTenant = NoTenant
  NoRun = NoRun
SPECIFICATION Spec
SYMMETRY Symmetry
INVARIANTS
  TypeOK
  OneTenantPerSession
  ReportMeansNoToken
  ForgottenMeansNoToken
  PageTellsTruth
  ApprovedUnlessCookieMoved
PROPERTY ImplementsSessionLife
