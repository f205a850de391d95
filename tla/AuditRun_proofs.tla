--------------------------- MODULE AuditRun_proofs ---------------------------
(***************************************************************************)
(* Theorems about AuditRun, for every set of selections and of tenants.     *)
(***************************************************************************)
EXTENDS AuditRun, TLAPS

(* The catalog *)

\* The data a check looks at is declared by the audit that makes it.
LEMMA LooksAtDeclared ==
  ASSUME NEW c \in Checks
  PROVE  /\ AuditOf(c) \in AuditIds
         /\ LooksAt(c) \in DataOf(AuditOf(c))
         /\ c = "lic-duplicate" => "skus" \in DataOf(AuditOf(c))
<1> USE DEF AuditIds, LicenseAudits, IdentityAudits, SecurityAudits, ConditionalAccessAudits
<1>1. CASE c \in {"lic-disabled", "lic-inactive", "inactive-review", "lic-duplicate", "idn-guests"}
  BY <1>1 DEF AuditOf, LooksAt, DataOf
<1>2. CASE c \in {"lic-unassigned", "lic-expirations", "idn-mfa-registration"}
  BY <1>2 DEF AuditOf, LooksAt, DataOf
<1>3. CASE c \in {"admins-without-mfa", "many-global-admins", "idn-peruser-mfa-state"}
  BY <1>3 DEF AuditOf, LooksAt, DataOf
<1>4. CASE c \in {"sec-ca-require-mfa-all", "sec-ca-block-legacy", "sec-ga-mfa-coverage"}
  BY <1>4 DEF AuditOf, LooksAt, DataOf
<1>5. CASE c \in {"sec-auth-methods-policy", "sec-trusted-locations", "sec-allowed-domains"}
  BY <1>5 DEF AuditOf, LooksAt, DataOf
<1> QED BY <1>1, <1>2, <1>3, <1>4, <1>5 DEF Checks

LEMMA DataAreUnits ==
  ASSUME NEW a \in AuditIds
  PROVE  DataOf(a) \subseteq Units
<1> USE DEF AuditIds, LicenseAudits, IdentityAudits, SecurityAudits, ConditionalAccessAudits, Units
<1>1. CASE a \in LicenseAudits
  BY <1>1 DEF DataOf
<1>2. CASE a \in IdentityAudits
  BY <1>2 DEF DataOf
<1>3. CASE a \in SecurityAudits
  BY <1>3 DEF DataOf
<1> QED BY <1>1, <1>2, <1>3

\* The scopes an audit lists itself are scopes of its data.
LEMMA ExtraScopesNeeded ==
  ASSUME NEW a \in AuditIds
  PROVE  ExtraScopes(a) \subseteq UNION {DataScopes(u) : u \in DataOf(a)}
<1>1. CASE ExtraScopes(a) = {}
  BY <1>1
<1>2. CASE ExtraScopes(a) # {}
  <2>1. ExtraScopes(a) = {"Policy.Read.All"}
    BY <1>2 DEF ExtraScopes
  <2>2. a \in {"idn-peruser-mfa-state", "sec-auth-methods-policy", "sec-trusted-locations"}
               \cup ConditionalAccessAudits
    BY <1>2 DEF ExtraScopes
  <2>3. \E u \in DataOf(a) : u \in {"per_user_mfa", "auth_methods", "named_locations", "ca_policies"}
    BY <2>2 DEF DataOf, ConditionalAccessAudits
  <2>4. \A u \in {"per_user_mfa", "auth_methods", "named_locations", "ca_policies"} :
          DataScopes(u) = {"Policy.Read.All"}
    BY DEF DataScopes
  <2> QED BY <2>1, <2>3, <2>4
<1> QED BY <1>1, <1>2

\* No license audit needs Policy.Read.All.
LEMMA LicenseAuditsNeedNoPolicy ==
  ASSUME NEW a \in LicenseAudits, NEW u \in DataOf(a)
  PROVE  "Policy.Read.All" \notin DataScopes(u)
<1>1. u \in {"users", "skus", "subscriptions"}
  BY DEF LicenseAudits, DataOf, ConditionalAccessAudits
<1> QED BY <1>1 DEF DataScopes

\* What is selected is what the operator wanted, and what runs, unless it is
\* nothing: then everything runs.
LEMMA WhatRuns ==
  /\ Selected = Wanted
  /\ Wanted \subseteq AuditIds
  /\ options = Selected => Running = IF Wanted = {} THEN AuditIds ELSE Wanted
<1>1. Selected = Wanted
  BY DEF Selected, Wanted, Resolve
<1>2. Wanted \subseteq AuditIds
  BY DEF Wanted
<1>3. ASSUME options = Selected
      PROVE  Running = IF Wanted = {} THEN AuditIds ELSE Wanted
  BY <1>1, <1>2, <1>3 DEF Running, Resolve
<1> QED BY <1>1, <1>2, <1>3

-----------------------------------------------------------------------------
(* The inductive invariant *)

Begun == {"confirming", "signedIn", "fetching", "built", "written", "failed"}

\* The token's scopes and the audits come from one selection, and the CLI goes on
\* only with one that has an audit.
ScopesInv ==
  /\ sent \in Selections
  /\ scopes \in {{}, RequiredScopes(Selected)}
  /\ stage \in Begun => scopes = RequiredScopes(Selected)
  /\ stage \notin {"selecting", "refused"} => options = Selected
  /\ stage \notin {"selecting", "refused"} /\ sent.by = "cli" => Selected # {}

\* What was to be read: the data of the audits that run, and the organization
ToRead == RequiredData(Running) \cup {"organization"}

\* Each unit is still to be read, or has been read with a result it can have.
ReadInv ==
  stage \in {"fetching", "built", "written"} =>
    /\ todo \subseteq ToRead
    /\ DOMAIN got = Units
    /\ \A u \in ToRead \ todo : got[u] \in Possible(u)
    /\ outcome = "fetched" => todo = {}
    /\ stage # "fetching" => outcome = "fetched"

\* The findings are those of the rules that ran, on what was read.
FoundInv ==
  Reported =>
    /\ {c \in ChecksOf(Running \ broken) : Fires(c)} \subseteq findings
    /\ findings \subseteq {c \in ChecksOf(Running \ broken) : Fires(c) \/ MayFire(c)}
    /\ caveats = Caveats

IInv == ScopesInv /\ ReadInv /\ FoundInv

LEMMA InitInv == Init => IInv
  BY DEF Init, IInv, ScopesInv, ReadInv, FoundInv, Reported, Begun

LEMMA ScopesStep ==
  ASSUME ScopesInv, [Next]_vars
  PROVE  ScopesInv'
<1> USE DEF ScopesInv, Begun, Selected
<1>1. CASE SignIn
  BY <1>1 DEF SignIn
<1>2. CASE NothingMatches
  BY <1>2 DEF NothingMatches
<1>3. CASE CliSelect
  BY <1>3 DEF CliSelect
<1>4. CASE CliConnect
  BY <1>4 DEF CliConnect
<1>5. CASE CliBrowser \/ CliDevice
  BY <1>5 DEF CliBrowser, CliDevice, TokenAcquired
<1>6. CASE CliConfirm
  BY <1>6 DEF CliConfirm
<1>7. CASE Start
  BY <1>7 DEF Start
<1>8. CASE Fetching
  BY <1>8 DEF Fetching, runVars
<1>9. CASE FetchFails
  BY <1>9 DEF FetchFails
<1>10. CASE Build
  BY <1>10 DEF Build
<1>11. CASE Write
  BY <1>11 DEF Write
<1>12. CASE UNCHANGED vars
  BY <1>12 DEF vars, runVars
<1> QED BY <1>1, <1>2, <1>3, <1>4, <1>5, <1>6, <1>7, <1>8, <1>9, <1>10, <1>11, <1>12 DEF Next

LEMMA ToReadAreUnits ==
  ToRead \subseteq Units
<1>1. Running \subseteq AuditIds
  BY DEF Running, Resolve
<1> QED BY <1>1, DataAreUnits DEF ToRead, RequiredData, Units

LEMMA ReadStep ==
  ASSUME ReadInv, [Next]_vars
  PROVE  ReadInv'
<1>1. CASE Start
  BY <1>1 DEF Start, ReadInv, ToRead, RequiredData, Running
<1>2. CASE Fetching
  <2>1. /\ stage = "fetching" /\ stage' = stage /\ ToRead' = ToRead
        /\ (\E u \in Units, x \in Results : ReadUnit(u, x)) \/ EndFetch
    BY <1>2 DEF Fetching, runVars, ToRead, Running, RequiredData
  <2>2. CASE EndFetch
    BY <2>1, <2>2 DEF EndFetch, ReadInv
  <2>3. ASSUME NEW u \in Units, NEW x \in Results, ReadUnit(u, x)
        PROVE  ReadInv'
    BY <2>1, <2>3, ToReadAreUnits DEF ReadUnit, ReadInv
  <2> QED BY <2>1, <2>2, <2>3
<1>3. CASE Build
  BY <1>3 DEF Build, ReadInv, ToRead, Running, RequiredData, fetchVars
<1>4. CASE Write
  BY <1>4 DEF Write, ReadInv, ToRead, Running, RequiredData, fetchVars
<1>5. CASE SignIn \/ NothingMatches \/ CliSelect \/ CliConnect
  BY <1>5 DEF SignIn, NothingMatches, CliSelect, CliConnect, ReadInv
<1>6. CASE CliBrowser \/ CliDevice \/ CliConfirm \/ FetchFails
  BY <1>6 DEF CliBrowser, CliDevice, CliConfirm, TokenAcquired, FetchFails, ReadInv
<1>7. CASE UNCHANGED vars
  BY <1>7 DEF vars, runVars, fetchVars, ReadInv, ToRead, Running, RequiredData
<1> QED BY <1>1, <1>2, <1>3, <1>4, <1>5, <1>6, <1>7 DEF Next

\* What a check reports depends on the tenant and on what was read.
LEMMA SameFindings ==
  ASSUME UNCHANGED <<issue, got, options>>
  PROVE  /\ \A c : (Fires(c)' <=> Fires(c)) /\ (MayFire(c)' <=> MayFire(c))
         /\ Running' = Running /\ Caveats' = Caveats
  BY DEF Fires, MayFire, AbsenceFires, InactiveFires, DuplicateFires, RowFires, Running, Caveats

LEMMA FoundStep ==
  ASSUME FoundInv, [Next]_vars
  PROVE  FoundInv'
<1>1. CASE Build
  <2>1. UNCHANGED <<issue, got, options>> /\ caveats' = Caveats
    BY <1>1 DEF Build, fetchVars
  <2>2. PICK lucky \in SUBSET {c \in ChecksOf(Running \ broken') : MayFire(c)} :
          findings' = {c \in ChecksOf(Running \ broken') : Fires(c)} \cup lucky
    BY <1>1 DEF Build
  <2>3. ChecksOf(Running \ broken)' = ChecksOf(Running \ broken')
    BY <2>1, SameFindings DEF ChecksOf
  <2> QED BY <2>1, <2>2, <2>3, SameFindings DEF FoundInv
<1>2. CASE Write
  <2>1. UNCHANGED <<issue, got, options>> /\ Reported
    BY <1>2 DEF Write, fetchVars, Reported
  <2>2. CASE stage' = "failed"
    BY <2>2 DEF FoundInv, Reported
  <2>3. CASE stage' # "failed"
    <3>1. UNCHANGED <<findings, caveats, broken>>
      BY <1>2, <2>3 DEF Write, reportVars
    <3>2. ChecksOf(Running \ broken)' = ChecksOf(Running \ broken)
      BY <2>1, <3>1, SameFindings DEF ChecksOf
    <3> QED BY <2>1, <3>1, <3>2, SameFindings DEF FoundInv
  <2> QED BY <2>2, <2>3
<1>3. CASE SignIn \/ NothingMatches \/ CliSelect \/ CliConnect
  BY <1>3 DEF SignIn, NothingMatches, CliSelect, CliConnect, FoundInv, Reported
<1>4. CASE CliBrowser \/ CliDevice \/ CliConfirm
  BY <1>4 DEF CliBrowser, CliDevice, CliConfirm, TokenAcquired, FoundInv, Reported
<1>5. CASE Start \/ Fetching \/ FetchFails
  BY <1>5 DEF Start, Fetching, FetchFails, runVars, FoundInv, Reported
<1>6. CASE UNCHANGED vars
  <2>1. UNCHANGED <<issue, got, options, stage, findings, caveats, broken>>
    BY <1>6 DEF vars, runVars, reportVars, fetchVars
  <2>2. ChecksOf(Running \ broken)' = ChecksOf(Running \ broken)
    BY <2>1, SameFindings DEF ChecksOf
  <2> QED BY <2>1, <2>2, SameFindings DEF FoundInv, Reported
<1> QED BY <1>1, <1>2, <1>3, <1>4, <1>5, <1>6 DEF Next

LEMMA IssuesStep ==
  ASSUME issue \in IssueSets, [Next]_vars
  PROVE  issue' \in IssueSets
  BY DEF Next, SignIn, NothingMatches, CliSelect, CliConnect, CliBrowser, CliDevice, CliConfirm,
         Start, Fetching, FetchFails, Build, Write, vars, runVars

LEMMA Invariance == Spec => [](IInv /\ issue \in IssueSets)
<1>1. Init => IInv /\ issue \in IssueSets
  BY InitInv DEF Init
<1>2. IInv /\ issue \in IssueSets /\ [Next]_vars => (IInv /\ issue \in IssueSets)'
  BY ScopesStep, ReadStep, FoundStep, IssuesStep DEF IInv
<1> QED BY <1>1, <1>2, PTL DEF Spec

-----------------------------------------------------------------------------
(* Types *)

LEMMA TypeNext ==
  ASSUME TypeOK, [Next]_vars
  PROVE  TypeOK'
<1> USE DEF TypeOK
<1>1. Running \subseteq AuditIds /\ Selected \subseteq AuditIds
  BY DEF Running, Selected, Resolve
<1>2. CASE SignIn \/ NothingMatches \/ CliSelect \/ CliConnect
  BY <1>1, <1>2 DEF SignIn, NothingMatches, CliSelect, CliConnect, reportVars, fetchVars
<1>3. CASE CliBrowser \/ CliDevice \/ CliConfirm
  BY <1>3 DEF CliBrowser, CliDevice, CliConfirm, TokenAcquired, reportVars, fetchVars
<1>4. CASE Start
  <2>1. RequiredData(Running) \cup {"organization"} \subseteq Units
    BY ToReadAreUnits DEF ToRead
  <2>2. [u \in Units |-> "none"] \in [Units -> Results]
    BY DEF Results
  <2> QED BY <1>4, <2>1, <2>2 DEF Start, reportVars
<1>5. CASE Fetching
  <2>1. UNCHANGED runVars
    BY <1>5 DEF Fetching
  <2>2. CASE EndFetch
    BY <2>1, <2>2 DEF EndFetch, runVars, reportVars
  <2>3. ASSUME NEW u \in Units, NEW x \in Results, ReadUnit(u, x)
        PROVE  TypeOK'
    <3>1. got' \in [Units -> Results] /\ todo' \subseteq Units /\ outcome' = outcome
      BY <2>3 DEF ReadUnit
    <3> QED BY <2>1, <3>1 DEF runVars, reportVars
  <2> QED BY <1>5, <2>2, <2>3 DEF Fetching
<1>6. CASE FetchFails
  BY <1>6 DEF FetchFails, FailFetch, reportVars
<1>7. CASE Build
  <2>1. findings' \subseteq Checks /\ broken' \subseteq Running
    BY <1>7 DEF Build, ChecksOf
  <2>2. caveats' \subseteq CaveatUnits
    BY <1>7 DEF Build, Caveats
  <2>3. UNCHANGED <<sent, issue, scopes, options, fetchVars>> /\ stage' = "built"
    BY <1>7 DEF Build
  <2> QED BY <1>1, <2>1, <2>2, <2>3 DEF fetchVars
<1>8. CASE Write
  BY <1>8 DEF Write, reportVars, fetchVars
<1>9. CASE UNCHANGED vars
  BY <1>9 DEF vars, runVars, reportVars, fetchVars
<1> QED BY <1>2, <1>3, <1>4, <1>5, <1>6, <1>7, <1>8, <1>9 DEF Next

\* Every variable of an audit keeps its type, for all selections and tenants.
THEOREM TypeCorrect == Spec => []TypeOK
<1>1. Init => TypeOK
  BY DEF Init, TypeOK, Results
<1>2. TypeOK /\ [Next]_vars => TypeOK'
  BY TypeNext
<1> QED BY <1>1, <1>2, PTL DEF Spec

-----------------------------------------------------------------------------
(* Scopes *)

LEMMA ScopesSufficeHere ==
  ASSUME IInv
  PROVE  ScopesSuffice
<1> SUFFICES ASSUME stage = "fetching", sent.by # "web" \/ Wanted # {}, NEW u \in todo
             PROVE  DataScopes(u) \subseteq scopes
  BY DEF ScopesSuffice
<1>0. Wanted # {}
  BY WhatRuns, SelectionsAssumption DEF IInv, ScopesInv
<1>1. Selected = Wanted /\ Running = Wanted
  BY <1>0, WhatRuns DEF IInv, ScopesInv
<1>2. scopes = RequiredScopes(Wanted)
  BY <1>1 DEF IInv, ScopesInv, Begun
<1>3. u \in RequiredData(Wanted) \/ u = "organization"
  BY <1>1 DEF IInv, ReadInv, ToRead
<1>4. CASE u \in RequiredData(Wanted)
  BY <1>2, <1>4 DEF RequiredScopes
<1>5. CASE u = "organization"
  BY <1>5 DEF DataScopes
<1> QED BY <1>3, <1>4, <1>5

\* Sign-in asks for the scopes of everything the audit is going to read: on the
\* CLI whatever is selected, and on the web for nothing selected, and for every
\* selection that has an audit.
THEOREM ScopesAlwaysSuffice == Spec => []ScopesSuffice
<1>1. IInv => ScopesSuffice
  BY ScopesSufficeHere
<1> QED BY <1>1, Invariance, PTL

LEMMA ScopesMinimalHere ==
  ASSUME IInv
  PROVE  ScopesMinimal
<1> DEFINE ofData == UNION {DataScopes(u) : u \in RequiredData(Wanted)}
           extra == UNION {ExtraScopes(a) : a \in Wanted}
<1>1. scopes \subseteq BaseScopes \cup ofData \cup extra
  <2>1. scopes = {} \/ scopes = RequiredScopes(Wanted)
    BY WhatRuns DEF IInv, ScopesInv
  <2>2. RequiredScopes(Wanted) = BaseScopes \cup ofData \cup extra
    BY DEF RequiredScopes
  <2> QED BY <2>1, <2>2
<1>2. extra \subseteq ofData
  <2>1. ASSUME NEW a \in Wanted PROVE ExtraScopes(a) \subseteq ofData
    BY WhatRuns, ExtraScopesNeeded DEF RequiredData
  <2> QED BY <2>1
<1>3. ASSUME Wanted \subseteq LicenseAudits
      PROVE  "Policy.Read.All" \notin scopes
  <2>1. "Policy.Read.All" \notin ofData
    BY <1>3, LicenseAuditsNeedNoPolicy DEF RequiredData
  <2>2. "Policy.Read.All" \notin BaseScopes
    BY DEF BaseScopes
  <2> HIDE DEF ofData, extra
  <2> QED BY <1>1, <1>2, <2>1, <2>2
<1> QED BY <1>1, <1>2, <1>3 DEF ScopesMinimal

\* It asks for nothing the selected audits do not need.
THEOREM ScopesAlwaysMinimal == Spec => []ScopesMinimal
<1>1. IInv => ScopesMinimal
  BY ScopesMinimalHere
<1> QED BY <1>1, Invariance, PTL

-----------------------------------------------------------------------------
(* Findings and caveats *)

\* When there is a report, everything the checks of the run look at was read.
LEMMA ReadWhatIsLookedAt ==
  ASSUME IInv, Reported, NEW c \in ChecksOf(Running)
  PROVE  /\ got[LooksAt(c)] \in Possible(LooksAt(c))
         /\ c = "lic-duplicate" => got["skus"] = "complete"
<1>1. c \in Checks /\ AuditOf(c) \in Running
  BY DEF ChecksOf
<1>2. todo = {} /\ \A u \in ToRead \ todo : got[u] \in Possible(u)
  BY DEF IInv, ReadInv, Reported
<1>3. LooksAt(c) \in ToRead /\ (c = "lic-duplicate" => "skus" \in ToRead)
  BY <1>1, LooksAtDeclared DEF ToRead, RequiredData
<1>4. Possible("skus") = {"complete"}
  BY DEF Possible, Essential
<1> QED BY <1>2, <1>3, <1>4

\* A check that reports has an issue to report.
LEMMA FiresForReason ==
  ASSUME IInv, Reported, NEW c \in ChecksOf(Running), Fires(c)
  PROVE  c \in issue
<1>1. got[LooksAt(c)] # "none"
  BY ReadWhatIsLookedAt DEF Possible
<1> QED BY <1>1 DEF Fires, AbsenceFires, InactiveFires, DuplicateFires, RowFires

\* A check whose data was read completely reports the issue it looks for.
LEMMA FiresIfComplete ==
  ASSUME IInv, Reported, NEW c \in ChecksOf(Running) \cap issue,
         got[LooksAt(c)] = "complete", c # "inactive-review"
  PROVE  Fires(c)
<1>1. CASE c \in AbsenceChecks
  BY <1>1 DEF Fires, AbsenceFires, AbsenceChecks, ConditionalAccessAudits
<1>2. CASE c = "lic-inactive"
  BY <1>2 DEF Fires, InactiveFires, LooksAt, AbsenceChecks, ConditionalAccessAudits
<1>3. CASE c = "lic-duplicate"
  BY <1>3, ReadWhatIsLookedAt
     DEF Fires, DuplicateFires, LooksAt, AbsenceChecks, ConditionalAccessAudits
<1>4. CASE c \notin AbsenceChecks \cup {"lic-inactive", "lic-duplicate"}
  BY <1>4 DEF Fires, RowFires
<1> QED BY <1>1, <1>2, <1>3, <1>4

LEMMA FindingsRightHere ==
  ASSUME IInv
  PROVE  FindingsRight
<1> SUFFICES ASSUME Reported
             PROVE  FindingsRight
  BY DEF FindingsRight
<1>1. options = Selected
  BY DEF IInv, ScopesInv, Reported
<1>2. ChecksOf(Wanted \ broken) \subseteq ChecksOf(Running \ broken)
  BY <1>1, WhatRuns DEF ChecksOf
<1>3. ChecksOf(Running \ broken) \subseteq ChecksOf(Running)
  BY DEF ChecksOf
<1>4. findings \subseteq {c \in ChecksOf(Running \ broken) : Fires(c) \/ MayFire(c)}
  BY DEF IInv, FoundInv
<1>5. findings \subseteq issue
  <2>1. ASSUME NEW c \in findings PROVE c \in issue
    <3>1. CASE Fires(c)
      BY <1>3, <1>4, <3>1, FiresForReason
    <3>2. CASE MayFire(c)
      BY <3>2 DEF MayFire
    <3> QED BY <1>4, <2>1, <3>1, <3>2
  <2> QED BY <2>1
<1>6. ASSUME NEW c \in ChecksOf(Wanted \ broken) \cap issue,
             got[LooksAt(c)] = "complete", c # "inactive-review"
      PROVE  c \in findings
  <2>1. Fires(c)
    BY <1>2, <1>3, <1>6, FiresIfComplete
  <2> QED BY <1>2, <2>1 DEF IInv, FoundInv
<1>7. Wanted # {} => findings \subseteq ChecksOf(Wanted)
  BY <1>1, <1>3, <1>4, WhatRuns
<1> QED BY <1>5, <1>6, <1>7 DEF FindingsRight

\* A finding is there for a reason and nothing is overlooked, for every tenant,
\* every selection, whatever could be read and however many rules fail.
THEOREM FindingsAlwaysRight == Spec => []FindingsRight
<1>1. IInv => FindingsRight
  BY FindingsRightHere
<1> QED BY <1>1, Invariance, PTL

LEMMA HiddenIssueToldHere ==
  ASSUME IInv
  PROVE  HiddenIssueTold
<1> SUFFICES ASSUME Reported,
                    NEW c \in (ChecksOf(Wanted \ broken) \cap issue)
                                 \ (findings \cup {"inactive-review"}),
                    LooksAt(c) \in CaveatUnits
             PROVE  LooksAt(c) \in caveats
  BY DEF HiddenIssueTold
<1>1. c \in ChecksOf(Running)
  BY WhatRuns DEF ChecksOf, IInv, ScopesInv, Reported
<1>2. got[LooksAt(c)] # "complete"
  BY FindingsRightHere DEF FindingsRight
<1>3. got[LooksAt(c)] \in Possible(LooksAt(c))
  BY <1>1, ReadWhatIsLookedAt
<1>4. got[LooksAt(c)] \in {"unavailable", "bare"}
  BY <1>2, <1>3 DEF Possible, CaveatUnits, Essential
<1> QED BY <1>4 DEF IInv, FoundInv, Caveats

\* What a selected audit missed for want of data is covered by a caveat.
THEOREM HiddenIssueAlwaysTold == Spec => []HiddenIssueTold
<1>1. IInv => HiddenIssueTold
  BY HiddenIssueToldHere
<1> QED BY <1>1, Invariance, PTL
=============================================================================
