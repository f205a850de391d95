\* One profile, the web application and two commands, and a clock that ticks.
CONSTANTS
  Names = {acme}
  Clients = {app1}
  Domains = {contoso}
  Tenants = {tenant}
  Web = {login}
  Cli = {cli1, cli2}
  MaxClock = 2
  Never = Never
  Nothing = Nothing
SPECIFICATION Spec
SYMMETRY Symmetry
INVARIANTS
  TypeOK
  CreatedBeforeUse
PROPERTY ImplementsProfileBook
