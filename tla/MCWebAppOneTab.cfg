\* One tab: the server's steps are the same for each stream, and liveness is
\* checked without symmetry.
CONSTANTS
  Sids = {s1, s2}
  Tenants = {contoso}
  Tabs = {t1}
  Runs = {r1, r2}
  Steps = 1
  MaxRestarts = 1
  NoSid = NoSid
  NoTenant = NoTenant
  NoRun = NoRun
SPECIFICATION FairSpec
PROPERTIES
  EveryStreamEnds
  ProgressPageEnds
