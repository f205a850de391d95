\* What the CLI's write-back leaves of a profile.
CONSTANTS
  Names = {acme}
  Clients = {app1, app2}
  Domains = {contoso}
  Tenants = {tenant}
  Web = {login}
  Cli = {cli1, cli2}
  MaxClock = 1
  Never = Never
  Nothing = Nothing
SPECIFICATION Spec
SYMMETRY Symmetry
INVARIANT KeepsWhatWasSaved
