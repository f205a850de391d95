--------------------------- MODULE Analysis_proofs ---------------------------
(***************************************************************************)
(* Theorems about Analysis, for every set of tenants and every selection.  *)
(* They are about who and what is reported: Savings_proofs is about the     *)
(* sums of seats and of money.                                             *)
(***************************************************************************)
EXTENDS Analysis, FiniteSetTheorems, TLAPS

\* The findings are those of the selected rules on the tenant.
FindingsInv == /\ tenant \in TenantSet
               /\ findings # None =>
                    findings = UNION {Evaluate(rule, tenant) : rule \in RuleIds}

LEMMA FindingsInvariant == Spec => []FindingsInv
<1>1. Init => FindingsInv
  BY DEF Init, FindingsInv
<1>2. FindingsInv /\ [Next]_vars => FindingsInv'
  BY DEF FindingsInv, Next, RunRules, Assemble, WriteReports, vars
<1> QED BY <1>1, <1>2, PTL DEF Spec

\* A finding names the rule that made it.
LEMMA RuleOfFinding ==
  ASSUME NEW t, NEW rule \in AllRuleIds, NEW f \in Evaluate(rule, t)
  PROVE  f.rule = rule
<1>1. CASE rule = "R1"
  BY <1>1 DEF Evaluate, R1, OneFinding, Finding
<1>2. CASE rule = "R2"
  BY <1>2 DEF Evaluate, R2, Inactive, OneFinding, Finding
<1>3. CASE rule = "R3"
  BY <1>3 DEF Evaluate, R3, Finding
<1>4. CASE rule = "R4"
  BY <1>4 DEF Evaluate, R4, Finding
<1>5. CASE rule = "R7"
  BY <1>5 DEF Evaluate, R7, OneFinding, Finding
<1>6. CASE rule = "R8"
  BY <1>6 DEF Evaluate, R8, OneFinding, Finding
<1>7. CASE rule = "R9"
  BY <1>7 DEF Evaluate, R9, OneFinding, Finding
<1>8. CASE rule = "R10"
  BY <1>8 DEF Evaluate, R10, OneFinding, Finding
<1>9. CASE rule \in {"R11", "R12", "R15"}
  BY <1>9 DEF Evaluate, R11, R12, R15, Baseline, Finding
<1>10. CASE rule \in {"R13", "R14", "R16", "R17"}
  BY <1>10 DEF Evaluate, R13, R14, R16, R17, Review, OneFinding, Finding
<1> QED BY <1>1, <1>2, <1>3, <1>4, <1>5, <1>6, <1>7, <1>8, <1>9, <1>10 DEF AllRuleIds

LEMMA FindingsOfRule ==
  ASSUME FindingsInv, findings # None, NEW rule \in RuleIds
  PROVE  Of(rule) = Evaluate(rule, tenant)
  BY RuleOfFinding, RuleIdsAssumption DEF FindingsInv, Of

\* What one finding for all of a set affects is that set.
LEMMA AffectedOfOne ==
  ASSUME NEW rule, NEW severity, NEW affected, NEW savings
  PROVE  UNION {f.affected : f \in OneFinding(rule, severity, affected, savings)} = affected
<1> DEFINE one == Finding(rule, None, severity, affected, savings)
<1>1. one.affected = affected
  BY DEF Finding
<1>2. CASE affected = {}
  BY <1>2 DEF OneFinding
<1>3. CASE affected # {}
  <2>1. OneFinding(rule, severity, affected, savings) = {one}
    BY <1>3 DEF OneFinding
  <2> HIDE DEF one
  <2> QED BY <1>1, <2>1
<1> QED BY <1>2, <1>3

-----------------------------------------------------------------------------
\* R10 reports the administrators without MFA, and, apart from them, the Global
\* Administrators when they are too many.
LEMMA AffectedByR10 ==
  ASSUME FindingsInv, findings # None, "R10" \in RuleIds
  PROVE  /\ UNION {f.affected : f \in {g \in Of("R10") : g.about = None}}
              = {u \in NoMfa(tenant) : tenant.registration[u].admin}
         /\ UNION {f.affected : f \in {g \in Of("R10") : g.about = GlobalAdministrator}}
              = IF MembersOf(tenant, GlobalAdministrator) > MaxGlobalAdmins
                THEN 1 .. MembersOf(tenant, GlobalAdministrator) ELSE {}
<1> DEFINE noMfaAdmins == {u \in NoMfa(tenant) : tenant.registration[u].admin}
           members == MembersOf(tenant, GlobalAdministrator)
           one == OneFinding("R10", "high", noMfaAdmins, 0)
           many == Finding("R10", GlobalAdministrator, "medium", 1 .. members, 0)
<1>1. GlobalAdministrator # None
  BY NoneAssumption DEF GlobalAdministrator
<1>2. Of("R10") = one \cup IF members > MaxGlobalAdmins THEN {many} ELSE {}
  BY FindingsOfRule DEF Evaluate, R10
<1>3. \A f \in one : f.about = None
  BY DEF OneFinding, Finding
<1>4. many.about = GlobalAdministrator /\ many.affected = 1 .. members
  BY DEF Finding
<1>5. {g \in Of("R10") : g.about = None} = one
  BY <1>1, <1>2, <1>3, <1>4
<1>6. {g \in Of("R10") : g.about = GlobalAdministrator}
        = IF members > MaxGlobalAdmins THEN {many} ELSE {}
  BY <1>1, <1>2, <1>3, <1>4
<1>7. UNION {f.affected : f \in one} = noMfaAdmins
  BY AffectedOfOne
<1>8. UNION {f.affected : f \in {many}} = 1 .. members
  BY <1>4
<1> QED BY <1>5, <1>6, <1>7, <1>8

\* With R9 and R10, every member or administrator without MFA is reported by
\* exactly one of them, for every tenant.
LEMMA AdminsCoveredHere ==
  ASSUME FindingsInv
  PROVE  AdminsCovered
<1> SUFFICES ASSUME findings # None, {"R9", "R10"} \subseteq RuleIds
             PROVE  LET admins == UNION {f.affected : f \in {g \in Of("R10") : g.about = None}}
                    IN  /\ Affected("R9") \cap admins = {}
                        /\ Affected("R9") \cup admins =
                             {u \in DOMAIN tenant.registration :
                                /\ ~tenant.registration[u].mfa
                                /\ \/ tenant.registration[u].admin
                                   \/ tenant.registration[u].type # "guest"}
  BY DEF AdminsCovered
<1> DEFINE admins == UNION {f.affected : f \in {g \in Of("R10") : g.about = None}}
<1> DEFINE noMfaAdmins == {u \in NoMfa(tenant) : tenant.registration[u].admin}
<1>1. tenant.registration \in [DOMAIN tenant.registration -> Registration]
  BY TenantSetAssumption DEF FindingsInv, IsTenant
<1>2. Of("R9") = R9(tenant) /\ Of("R10") = R10(tenant)
  BY FindingsOfRule DEF Evaluate
<1>3. Affected("R9") = UnprotectedMembers(tenant)
  BY <1>2, AffectedOfOne DEF Affected, R9
<1>4. admins = noMfaAdmins
  BY AffectedByR10
<1>5. Affected("R9") \cap noMfaAdmins = {}
  BY <1>3 DEF UnprotectedMembers
<1>6. None # "guest" /\ None # "member"
  BY NoneAssumption
<1>7. Affected("R9") \cup noMfaAdmins =
        {u \in DOMAIN tenant.registration :
           /\ ~tenant.registration[u].mfa
           /\ tenant.registration[u].admin \/ tenant.registration[u].type # "guest"}
  BY <1>1, <1>3, <1>6 DEF UnprotectedMembers, NoMfa, Registration
<1> QED BY <1>4, <1>5, <1>7

\* R9 and R10 divide the members and administrators without MFA of every tenant.
THEOREM AdminsAlwaysCovered == Spec => []AdminsCovered
<1>1. FindingsInv => AdminsCovered
  BY AdminsCoveredHere
<1> QED BY <1>1, FindingsInvariant, PTL

-----------------------------------------------------------------------------
\* What the silence and the reports of R11 and R15 are worth, for any policies with
\* any exclusions, groups and clients.
LEMMA CaFindingsRightHere ==
  ASSUME FindingsInv
  PROVE  CaFindingsRight
<1> DEFINE signIns == SignIns(tenant)
<1> SUFFICES ASSUME findings # None, Available(tenant, "ca_policies"), {"R11", "R15"} \subseteq RuleIds
             PROVE  CaFindingsRight
  BY DEF CaFindingsRight
<1>1. Of("R11") = R11(tenant) /\ Of("R15") = R15(tenant)
  BY FindingsOfRule DEF Evaluate
<1>2. Of("R11") = {} <=> \E p \in tenant.policies : GrantsMfaAll(p)
  BY <1>1 DEF R11, Baseline
<1>3. Of("R15") = {} <=> \E p \in tenant.policies : CoversGlobalAdmins(p)
  BY <1>1 DEF R15, Baseline
<1>4. ASSUME NEW s \in signIns
      PROVE  "All" \in s.users /\ "All" \in s.apps
  BY DEF SignIns
<1>5. ASSUME NEW s \in signIns, Unnamed(s, {}), s.apps = {"All"}, Challenged(tenant, s)
      PROVE  \E p \in tenant.policies : GrantsMfaAll(p)
  BY <1>5 DEF Unnamed, Challenged, Applies, CoversApp, GrantsMfaAll, IsEnabled, TargetsAllUsers
<1>6. ASSUME NEW s \in signIns, Unnamed(s, {GlobalAdministrator}), Challenged(tenant, s)
      PROVE  \E p \in tenant.policies : CoversGlobalAdmins(p)
  BY <1>6 DEF Unnamed, Challenged, Applies, CoversGlobalAdmins, IsEnabled, TargetsAllUsers, TargetsRole
<1>7. ASSUME NEW p \in tenant.policies, GrantsMfaAll(p), NEW s \in signIns, ~Exempts(p, s)
      PROVE  Challenged(tenant, s)
  BY <1>4, <1>7 DEF GrantsMfaAll, IsEnabled, TargetsAllUsers, Challenged, Applies, CoversApp
<1>8. ASSUME NEW p \in tenant.policies, CoversGlobalAdmins(p), NEW s \in signIns,
             GlobalAdministrator \in s.roles, ~Exempts(p, s), CoversApp(p, s)
      PROVE  Challenged(tenant, s)
  BY <1>4, <1>8
     DEF CoversGlobalAdmins, IsEnabled, TargetsAllUsers, TargetsRole, Challenged, Applies
<1> HIDE DEF signIns
<1> QED BY <1>2, <1>3, <1>5, <1>6, <1>7, <1>8 DEF CaFindingsRight, signIns

\* R11 and R15: so it is with the findings of every tenant.
THEOREM CaFindingsAlwaysRight == Spec => []CaFindingsRight
<1>1. FindingsInv => CaFindingsRight
  BY CaFindingsRightHere
<1> QED BY <1>1, FindingsInvariant, PTL

-----------------------------------------------------------------------------
\* Without activity data, R2 lists for review whom it would have called inactive,
\* in every tenant.
LEMMA UnverifiedListsAllHere ==
  ASSUME FindingsInv
  PROVE  UnverifiedListsAll
<1> SUFFICES ASSUME findings # None, ~tenant.signInKnown, "R2" \in RuleIds,
                    NEW f \in Inactive(tenant)
             PROVE  f.affected \subseteq Affected("R2")
  BY DEF UnverifiedListsAll
<1> DEFINE inactive == {u \in DOMAIN tenant.users : /\ LongLived(tenant.users[u])
                                                    /\ IsInactive(tenant.users[u])}
<1>1. f.affected \subseteq inactive
  BY DEF Inactive, OneFinding, Finding
<1>2. Affected("R2") = Candidates(tenant)
  BY FindingsOfRule, AffectedOfOne DEF Evaluate, Affected, R2
<1> QED BY <1>1, <1>2 DEF Candidates

\* Without activity data, R2 lists for review all whom it would have called inactive.
THEOREM UnverifiedAlwaysListed == Spec => []UnverifiedListsAll
<1>1. FindingsInv => UnverifiedListsAll
  BY UnverifiedListsAllHere
<1> QED BY <1>1, FindingsInvariant, PTL

-----------------------------------------------------------------------------
(* What the report files show *)

\* The report is that of the tenant, and the files are written of both.
SheetsInv ==
  /\ FindingsInv
  /\ report # None => findings # None /\ report = Result(tenant)
  /\ sheets # None => /\ report # None
                      /\ sheets = [xlsx |-> Workbook(tenant, findings, report),
                                   docx |-> Document(tenant, findings, report),
                                   json |-> Payload(tenant, findings, report)]

LEMMA SheetsInvariant == Spec => []SheetsInv
<1>1. Init => SheetsInv
  BY DEF Init, FindingsInv, SheetsInv
<1>2. SheetsInv /\ [Next]_vars => SheetsInv'
  <2> SUFFICES ASSUME SheetsInv, [Next]_vars PROVE SheetsInv'
    OBVIOUS
  <2>1. FindingsInv'
    BY DEF SheetsInv, FindingsInv, Next, RunRules, Assemble, WriteReports, vars
  <2>2. CASE RunRules
    BY <2>1, <2>2 DEF SheetsInv, RunRules
  <2>3. CASE Assemble
    BY <2>1, <2>3 DEF SheetsInv, Assemble
  <2>4. CASE WriteReports
    BY <2>1, <2>4 DEF SheetsInv, WriteReports
  <2>5. CASE UNCHANGED vars
    BY <2>1, <2>5 DEF SheetsInv, vars
  <2> QED BY <2>2, <2>3, <2>4, <2>5 DEF Next
<1> QED BY <1>1, <1>2, PTL DEF Spec

\* Every SKU is told of in one place, whatever the SKUs, prices and states are.
LEMMA EverySkuToldHere ==
  ASSUME SheetsInv
  PROVE  EverySkuTold
<1> DEFINE inventory == Inventory(tenant)
           unused == UnusedCosts(inventory)
           free == FreeRows(inventory)
           caveats == Caveats(tenant)
           places == <<DOMAIN unused, free, caveats.inactive>>
<1> SUFFICES ASSUME sheets # None
             PROVE  EverySkuTold
  BY DEF EverySkuTold
<1>1. report.inventory = inventory /\ report.caveats = caveats
  BY DEF SheetsInv, Result
<1>2. \A file \in {sheets.xlsx, sheets.docx, sheets.json} :
        file.unused = unused /\ file.free = free /\ file.caveats = caveats
  BY <1>1 DEF SheetsInv, Workbook, Document, Payload
<1>3. DOMAIN inventory = ActiveSkus(tenant)
  BY DEF Inventory
<1>4. \A s \in DOMAIN inventory : /\ inventory[s].unlimited = IsUnlimited(tenant.skus[s])
                                 /\ inventory[s].price = Price[s]
  BY DEF Inventory
<1>5. DOMAIN unused = {s \in ActiveSkus(tenant) : ~IsUnlimited(tenant.skus[s])}
  BY <1>3, <1>4 DEF UnusedCosts, PaidRows
<1>6. free = {s \in ActiveSkus(tenant) : IsUnlimited(tenant.skus[s])}
  BY <1>3, <1>4 DEF FreeRows
<1>7. caveats.inactive = DOMAIN tenant.skus \ ActiveSkus(tenant) /\ caveats.free = free
  BY <1>6 DEF Caveats, CaveatsOver
<1>8. \A s \in DOMAIN tenant.skus : \E i \in 1..3 : \A j \in 1..3 : s \in places[j] <=> j = i
  <2> SUFFICES ASSUME NEW s \in DOMAIN tenant.skus
               PROVE  \E i \in 1..3 : \A j \in 1..3 : s \in places[j] <=> j = i
    OBVIOUS
  <2>1. places[1] = DOMAIN unused /\ places[2] = free /\ places[3] = caveats.inactive
    OBVIOUS
  <2>2. ActiveSkus(tenant) \subseteq DOMAIN tenant.skus
    BY DEF ActiveSkus
  <2>3. CASE s \notin ActiveSkus(tenant)
    <3>1. s \in places[3] /\ s \notin places[1] /\ s \notin places[2]
      BY <1>5, <1>6, <1>7, <2>1, <2>3
    <3> QED BY <3>1
  <2>4. CASE s \in ActiveSkus(tenant) /\ IsUnlimited(tenant.skus[s])
    <3>1. s \in places[2] /\ s \notin places[1] /\ s \notin places[3]
      BY <1>5, <1>6, <1>7, <2>1, <2>4
    <3> QED BY <3>1
  <2>5. CASE s \in ActiveSkus(tenant) /\ ~IsUnlimited(tenant.skus[s])
    <3>1. s \in places[1] /\ s \notin places[2] /\ s \notin places[3]
      BY <1>5, <1>6, <1>7, <2>1, <2>5
    <3> QED BY <3>1
  <2> QED BY <2>3, <2>4, <2>5
<1>9. caveats.unpriced = {s \in DOMAIN unused : unused[s] = None}
  <2>1. caveats.unpriced = {s \in DOMAIN unused : Price[s] = None}
    BY <1>5 DEF Caveats, CaveatsOver
  <2>2. ASSUME NEW s \in DOMAIN unused
        PROVE  unused[s] = None <=> Price[s] = None
    <3>1. s \in SkuIds /\ Price[s] \in Nat \cup {None} /\ None \notin Int
      BY <1>5, TenantSetAssumption, PriceAssumption, NoneAssumption
         DEF SheetsInv, FindingsInv, IsTenant, ActiveSkus
    <3>2. inventory[s].slack = Slack(tenant.skus[s]) /\ inventory[s].price = Price[s]
      BY <1>3, <1>4, <1>5 DEF Inventory
    <3>3. tenant.skus[s] \in Sku
      BY <1>5, TenantSetAssumption DEF SheetsInv, FindingsInv, IsTenant, ActiveSkus
    <3>4. Slack(tenant.skus[s]) \in Nat
      BY <3>3 DEF Slack, Usable, Sku
    <3>5. unused[s] = Cost(inventory[s], inventory[s].slack)
      BY <1>5 DEF UnusedCosts
    <3>6. Price[s] # None => Price[s] * Slack(tenant.skus[s]) \in Int
      BY <3>1, <3>4
    <3> QED BY <3>1, <3>2, <3>5, <3>6 DEF Cost
  <2> QED BY <2>1, <2>2
<1> HIDE DEF inventory, unused, free, caveats
<1> QED BY <1>2, <1>7, <1>8, <1>9 DEF EverySkuTold

\* The report leaves out no SKU of any tenant, and tells none twice.
THEOREM EverySkuAlwaysTold == Spec => []EverySkuTold
<1>1. SheetsInv => EverySkuTold
  BY EverySkuToldHere
<1> QED BY <1>1, SheetsInvariant, PTL

-----------------------------------------------------------------------------
\* The sheets of MFA and of roles show whom R9 and R10 report.
LEMMA AdminsShownHere ==
  ASSUME SheetsInv
  PROVE  AdminsShown
<1> DEFINE rows == [u \in DOMAIN tenant.registration |-> MfaColour(tenant.registration[u])]
           Coloured(c) == {u \in DOMAIN rows : rows[u] = c}
           OfR10(about) == UNION {f.affected : f \in {g \in Of("R10") : g.about = about}}
           noMfaAdmins == {u \in NoMfa(tenant) : tenant.registration[u].admin}
           members == MembersOf(tenant, GlobalAdministrator)
<1> SUFFICES ASSUME sheets # None, {"R9", "R10"} \subseteq RuleIds
             PROVE  AdminsShown
  BY DEF AdminsShown
<1>1. FindingsInv /\ findings # None
  BY DEF SheetsInv
<1>2. tenant.registration \in [DOMAIN tenant.registration -> Registration]
  BY <1>1, TenantSetAssumption DEF FindingsInv, IsTenant
<1>3. /\ sheets.xlsx.mfa.rows = rows
      /\ sheets.xlsx.roles = Section(tenant, "directory_roles",
                                     [r \in PrivilegedRoles(tenant) |-> tenant.roles[r].members])
  BY DEF SheetsInv, Workbook, Section
<1>4. /\ sheets.json.mfa.admins = Cardinality(noMfaAdmins)
      /\ sheets.json.mfa.without = Cardinality(NoMfa(tenant))
  BY DEF SheetsInv, Payload
<1>5. Coloured("red") = noMfaAdmins
  BY DEF MfaColour, NoMfa
<1>6. Coloured("amber") = NoMfa(tenant) \ noMfaAdmins
  BY DEF MfaColour, NoMfa
<1>7. Affected("R9") = UnprotectedMembers(tenant)
  BY <1>1, FindingsOfRule, AffectedOfOne DEF Evaluate, Affected, R9
<1>8. Affected("R9") \subseteq Coloured("amber")
  BY <1>6, <1>7 DEF UnprotectedMembers
<1>9. ASSUME NEW u \in Coloured("amber") \ Affected("R9")
      PROVE  tenant.registration[u].type = "guest"
  <2>1. u \in NoMfa(tenant) /\ u \notin noMfaAdmins
    BY <1>6
  <2>2. tenant.registration[u].type \notin {"member", None}
    BY <1>7, <2>1 DEF UnprotectedMembers
  <2> QED BY <1>2, <2>1, <2>2 DEF NoMfa, Registration
<1>10. Coloured("red") \cup Coloured("amber") = NoMfa(tenant)
  BY <1>5, <1>6
<1>11. OfR10(None) = noMfaAdmins
  BY <1>1, AffectedByR10
<1>12. ASSUME OfR10(GlobalAdministrator) # {}
       PROVE  /\ sheets.xlsx.roles.shown = "rows"
              /\ sheets.xlsx.roles.rows[GlobalAdministrator] =
                   Cardinality(OfR10(GlobalAdministrator))
  <2>1. OfR10(GlobalAdministrator) = 1 .. members /\ members > MaxGlobalAdmins
    BY <1>1, <1>12, AffectedByR10
  <2>2. GlobalAdministrator \in DOMAIN tenant.roles /\ members = tenant.roles[GlobalAdministrator].members
    BY <2>1 DEF MembersOf, MaxGlobalAdmins
  <2>3. /\ GlobalAdministrator \in PrivilegedRoles(tenant)
        /\ members \in Nat
        /\ "directory_roles" \notin tenant.unread
    BY <1>1, <2>2, TenantSetAssumption
       DEF FindingsInv, IsTenant, NothingUnread, PrivilegedRoles, Role
  <2>4. Cardinality(1 .. members) = members
    BY <2>1, <2>3, FS_Interval DEF MaxGlobalAdmins
  <2> DEFINE roles == [r \in PrivilegedRoles(tenant) |-> tenant.roles[r].members]
  <2>5. DOMAIN roles # {} /\ roles[GlobalAdministrator] = members
    BY <2>2, <2>3
  <2>6. Available(tenant, "directory_roles")
    BY <2>3 DEF Available
  <2>7. sheets.xlsx.roles = Section(tenant, "directory_roles", roles)
    BY <1>3
  <2> HIDE DEF roles
  <2>8. sheets.xlsx.roles.shown = "rows" /\ sheets.xlsx.roles.rows = roles
    BY <2>5, <2>6, <2>7 DEF Section
  <2> QED BY <2>1, <2>4, <2>5, <2>8
<1> HIDE DEF rows, noMfaAdmins
<1> QED BY <1>3, <1>4, <1>5, <1>8, <1>9, <1>10, <1>11, <1>12 DEF AdminsShown

\* The workbook and the JSON file show the unprotected administrators R10 reports.
THEOREM AdminsAlwaysShown == Spec => []AdminsShown
<1>1. SheetsInv => AdminsShown
  BY AdminsShownHere
<1> QED BY <1>1, SheetsInvariant, PTL

-----------------------------------------------------------------------------
\* A section says "unavailable" exactly if its unit could not be read, and no rule
\* makes a finding of what could not be read.
LEMMA UnreadToldHere ==
  ASSUME SheetsInv
  PROVE  UnreadTold
<1> SUFFICES ASSUME sheets # None
             PROVE  UnreadTold
  BY DEF UnreadTold
<1>1. FindingsInv /\ findings # None /\ report = Result(tenant)
  BY DEF SheetsInv
<1>2. /\ tenant.unread \subseteq FlaggedUnits
      /\ NothingUnread(tenant)
  BY <1>1, TenantSetAssumption DEF FindingsInv, IsTenant
<1>3. ASSUME NEW unit \in tenant.unread, NEW rule \in RulesAbout(unit)
      PROVE  Of(rule) = {}
  <2>1. rule \in AllRuleIds
    BY <1>2 DEF RulesAbout, FlaggedUnits, AllRuleIds
  <2>2. rule \in RuleIds => Of(rule) = Evaluate(rule, tenant)
    BY <1>1, FindingsOfRule
  <2>3. rule \notin RuleIds => Of(rule) = {}
    BY <1>1, RuleOfFinding, RuleIdsAssumption DEF FindingsInv, Of
  <2>4. Evaluate(rule, tenant) = {}
    <3>1. CASE unit = "subscriptions"
      BY <1>2, <1>3, <3>1 DEF RulesAbout, Evaluate, NothingUnread, R8, OneFinding
    <3>2. CASE unit = "user_registration"
      BY <1>2, <1>3, <3>2 DEF RulesAbout, Evaluate, NothingUnread, R9, OneFinding, NoMfa, UnprotectedMembers
    <3>3. CASE unit = "directory_roles"
      BY <1>3, <3>3 DEF RulesAbout
    <3>4. CASE unit = "ca_policies"
      BY <1>3, <3>4 DEF RulesAbout, Evaluate, R11, R12, R15, Baseline, Available
    <3>5. CASE unit \in {"auth_methods", "named_locations", "per_user_mfa", "domains"}
      BY <1>3, <3>5 DEF RulesAbout, Evaluate, R13, R14, R16, R17, Review, Available
    <3> QED BY <1>2, <3>1, <3>2, <3>3, <3>4, <3>5 DEF FlaggedUnits
  <2> QED BY <2>2, <2>3, <2>4
<1>4. ASSUME NEW unit, NEW rows
      PROVE  Section(tenant, unit, rows).shown = "unavailable" <=> unit \in tenant.unread
  BY DEF Section, Available
<1>5. \A unit \in CaveatUnits : unit \in report.caveats.unread <=> unit \in tenant.unread
  BY <1>1 DEF Result, Caveats, CaveatsOver
<1>6. /\ sheets.xlsx.expirations.shown = "unavailable" <=> "subscriptions" \in tenant.unread
      /\ sheets.docx.expirations.shown = "unavailable" <=> "subscriptions" \in tenant.unread
      /\ sheets.xlsx.mfa.shown = "unavailable" <=> "user_registration" \in tenant.unread
      /\ sheets.xlsx.roles.shown = "unavailable" <=> "directory_roles" \in tenant.unread
  BY <1>4 DEF SheetsInv, Workbook, Document
<1>7. /\ sheets.json.expirations.available <=> "subscriptions" \notin tenant.unread
      /\ sheets.json.mfa.available <=> "user_registration" \notin tenant.unread
      /\ sheets.json.roles.available <=> "directory_roles" \notin tenant.unread
  <2>1. /\ sheets.json.expirations.available = Available(tenant, "subscriptions")
        /\ sheets.json.mfa.available = Available(tenant, "user_registration")
        /\ sheets.json.roles.available = Available(tenant, "directory_roles")
    BY DEF SheetsInv, Payload
  <2>2. \A unit : Available(tenant, unit) <=> unit \notin tenant.unread
    BY DEF Available
  <2> QED BY ONLY <2>1, <2>2, Zenon
<1> QED BY <1>3, <1>5, <1>6, <1>7 DEF UnreadTold, CaveatUnits

\* The three files never show as empty what could not be read.
THEOREM UnreadAlwaysTold == Spec => []UnreadTold
<1>1. SheetsInv => UnreadTold
  BY UnreadToldHere
<1> QED BY <1>1, SheetsInvariant, PTL

-----------------------------------------------------------------------------
\* The cardinality of disjoint parts
LEMMA CardinalityOfParts ==
  ASSUME NEW S, NEW T, IsFiniteSet(S), IsFiniteSet(T), S \cap T = {}
  PROVE  /\ IsFiniteSet(S \cup T)
         /\ Cardinality(S \cup T) = Cardinality(S) + Cardinality(T)
<1>1. Cardinality(S \cap T) = 0
  BY FS_EmptySet
<1>2. Cardinality(S) \in Nat /\ Cardinality(T) \in Nat
  BY FS_CardinalityType
<1>3. /\ IsFiniteSet(S \cup T)
      /\ Cardinality(S \cup T) = Cardinality(S) + Cardinality(T) - Cardinality(S \cap T)
  BY FS_Union
<1> QED BY <1>1, <1>2, <1>3

\* The summary, R8, the colours of the workbook, the days of the document and the
\* flags of the JSON file agree on which subscriptions have expired or soon will.
LEMMA ExpirationsAgreeHere ==
  ASSUME SheetsInv
  PROVE  ExpirationsAgree
<1> DEFINE all == DOMAIN tenant.subs
           expired == {s \in all : IsExpired(tenant.subs[s])}
           Within(n) == {s \in all : IsExpiringWithin(tenant.subs[s], n)}
           late == {s \in all : tenant.subs[s] # None /\ tenant.subs[s] < Days(91)}
           rows == [s \in all |-> ExpirationColour(tenant.subs[s])]
           days == [s \in all |-> IF tenant.subs[s] = None THEN None
                                  ELSE DaysUntilExpiry(tenant.subs[s])]
           DueBefore(n) == {s \in all : days[s] # None /\ days[s] < n}
<1> SUFFICES ASSUME report # None, "R8" \in RuleIds
             PROVE  ExpirationsAgree
  BY DEF ExpirationsAgree
<1>1. FindingsInv /\ findings # None /\ report = Result(tenant)
  BY DEF SheetsInv
<1>2. IsFiniteSet(all) /\ \A s \in all : tenant.subs[s] \in Times
  BY <1>1, TenantSetAssumption DEF FindingsInv, IsTenant
<1>3. Affected("R8") = expired \cup Within(30)
  <2>1. Of("R8") = R8(tenant)
    BY <1>1, FindingsOfRule DEF Evaluate
  <2> DEFINE severity == IF expired # {} THEN "high" ELSE "medium"
  <2>2. R8(tenant) = OneFinding("R8", severity, expired \cup Within(30), 0)
    BY DEF R8, SoonDays
  <2> HIDE DEF expired, Within, severity
  <2> QED BY <2>1, <2>2, AffectedOfOne DEF Affected
<1>4. /\ report.expirations.expired = Cardinality(expired)
      /\ report.expirations.within30 = Cardinality(Within(30))
      /\ report.expirations.within60 = Cardinality(Within(60) \ Within(30))
      /\ report.expirations.within90 = Cardinality(Within(90) \ Within(60))
  BY <1>1 DEF Result, ExpirationSummary
<1>5. \A s \in all : IsExpired(tenant.subs[s]) <=> tenant.subs[s] # None /\ tenant.subs[s] < 0
  BY <1>2, NoneAssumption DEF IsExpired, DaysUntilExpiry, Day, Times
<1>6. ASSUME NEW n \in {30, 60, 90}
      PROVE  \A s \in all : IsExpiringWithin(tenant.subs[s], n) <=>
               /\ tenant.subs[s] # None
               /\ 0 <= tenant.subs[s] /\ tenant.subs[s] < 2 * n + 2
  BY <1>2, NoneAssumption DEF IsExpiringWithin, DaysUntilExpiry, Day, Times
<1>7. Within(30) \subseteq Within(60) /\ Within(60) \subseteq Within(90)
  BY <1>2, <1>6 DEF Times
<1>8. expired \cap Within(90) = {}
  BY <1>2, <1>5, <1>6 DEF Times
<1>9. late = expired \cup Within(90)
  BY <1>2, <1>5, <1>6, NoneAssumption DEF Times, Days, Day
<1>10. /\ IsFiniteSet(expired) /\ IsFiniteSet(Within(30))
       /\ IsFiniteSet(Within(60) \ Within(30)) /\ IsFiniteSet(Within(90) \ Within(60))
  BY <1>2, FS_Subset
<1>11. \A s \in all : /\ rows[s] = "red" <=> IsExpired(tenant.subs[s])
                      /\ rows[s] # "plain" <=> \/ IsExpired(tenant.subs[s])
                                              \/ IsExpiringWithin(tenant.subs[s], 30)
  BY <1>2, NoneAssumption DEF ExpirationColour, IsExpired, IsExpiringWithin, DaysUntilExpiry, Day, Times
<1>12. /\ {s \in all : rows[s] = "red"} = expired
       /\ {s \in all : rows[s] # "plain"} = expired \cup Within(30)
  BY <1>11
<1>13. sheets # None => /\ sheets.xlsx.expirations.rows = rows
                        /\ sheets.docx.expirations.rows = days
                        /\ sheets.json.expirations.expired = expired
  BY DEF SheetsInv, Workbook, Document, Payload, Section
<1>14. DOMAIN rows = all /\ DOMAIN days = all
  OBVIOUS
<1>17. DueBefore(0) = expired /\ DueBefore(31) = expired \cup Within(30)
  <2>1. ASSUME NEW s \in all
        PROVE  /\ s \in DueBefore(0) <=> s \in expired
               /\ s \in DueBefore(31) <=> s \in expired \cup Within(30)
    <3>1. tenant.subs[s] # None => DaysUntilExpiry(tenant.subs[s]) \in Int
      BY <1>2 DEF DaysUntilExpiry, Day, Times
    <3>2. days[s] # None <=> tenant.subs[s] # None
      BY <3>1, NoneAssumption
    <3> QED BY <3>1, <3>2 DEF IsExpired, IsExpiringWithin
  <2> QED BY <2>1
<1> DEFINE w30 == Within(30)
           w60 == Within(60)
           w90 == Within(90)
<1>18. sheets # None =>
        /\ {s \in DOMAIN days : days[s] # None /\ days[s] < 0} = expired
        /\ {s \in DOMAIN days : days[s] # None /\ days[s] < 31} = expired \cup Within(30)
  BY <1>14, <1>17
<1> HIDE DEF expired, late, rows, days, Within, all
<1>15. Cardinality(expired \cup w30) = Cardinality(expired) + Cardinality(w30)
  BY <1>7, <1>8, <1>10, CardinalityOfParts
<1>16. Cardinality(late) = Cardinality(expired) + Cardinality(w30)
                             + Cardinality(w60 \ w30) + Cardinality(w90 \ w60)
  <2> HIDE DEF w30, w60, w90
  <2>1. w30 \subseteq w60 /\ w60 \subseteq w90 /\ expired \cap w90 = {}
    BY <1>7, <1>8 DEF w30, w60, w90
  <2>2. /\ IsFiniteSet(expired) /\ IsFiniteSet(w30)
        /\ IsFiniteSet(w60 \ w30) /\ IsFiniteSet(w90 \ w60)
    BY <1>10 DEF w30, w60, w90
  <2>3. IsFiniteSet(w60) /\ Cardinality(w60) = Cardinality(w30) + Cardinality(w60 \ w30)
    <3>1. w60 = w30 \cup (w60 \ w30) /\ w30 \cap (w60 \ w30) = {}
      BY <2>1
    <3> QED BY <2>2, <3>1, CardinalityOfParts
  <2>4. IsFiniteSet(w90) /\ Cardinality(w90) = Cardinality(w60) + Cardinality(w90 \ w60)
    <3>1. w90 = w60 \cup (w90 \ w60) /\ w60 \cap (w90 \ w60) = {}
      BY <2>1
    <3> QED BY <2>2, <2>3, <3>1, CardinalityOfParts
  <2>5. Cardinality(expired \cup w90) = Cardinality(expired) + Cardinality(w90)
    BY <2>1, <2>2, <2>4, CardinalityOfParts
  <2>6. late = expired \cup w90
    BY <1>9 DEF w90
  <2>7. /\ Cardinality(expired) \in Nat /\ Cardinality(w30) \in Nat
        /\ Cardinality(w60 \ w30) \in Nat /\ Cardinality(w90 \ w60) \in Nat
    BY <2>2, FS_CardinalityType
  <2> QED BY <2>3, <2>4, <2>5, <2>6, <2>7
<1> QED BY <1>3, <1>4, <1>12, <1>13, <1>14, <1>15, <1>16, <1>18
       DEF ExpirationsAgree, all, late, w30, w60, w90

\* R8, the summary and the three files split the subscriptions of every tenant alike.
THEOREM ExpirationsAlwaysAgree == Spec => []ExpirationsAgree
<1>1. SheetsInv => ExpirationsAgree
  BY ExpirationsAgreeHere
<1> QED BY <1>1, SheetsInvariant, PTL

-----------------------------------------------------------------------------
\* R4 counts a license at most once for each overlap, and misses nobody who has
\* both SKUs of one.
LEMMA DuplicatesBoundedHere ==
  ASSUME FindingsInv
  PROVE  DuplicatesBounded
<1> SUFFICES ASSUME findings # None, "R4" \in RuleIds
             PROVE  DuplicatesBounded
  BY DEF DuplicatesBounded
<1> DEFINE Sold(u) == tenant.users[u].licenses \cap DOMAIN tenant.skus
           Causes(s) == {o \in Overlaps : o.redundant = s}
           HoldersOf(s) == {u \in DOMAIN tenant.users : s \in tenant.users[u].licenses}
<1>1. Of("R4") = R4(tenant)
  BY FindingsOfRule DEF Evaluate
<1>2. IsFiniteSet(DOMAIN tenant.users) /\ DOMAIN tenant.skus \subseteq SkuIds
  BY TenantSetAssumption DEF FindingsInv, IsTenant
<1>3. ASSUME NEW s \in SkuIds
      PROVE  Redundant(tenant, s) \subseteq HoldersOf(s) \X Causes(s)
  BY OverlapsAssumption DEF Redundant, FindOverlaps
<1>4. ASSUME NEW s \in SkuIds
      PROVE  /\ Cardinality(Redundant(tenant, s)) \in Nat
             /\ Holders(tenant, s) \in Nat /\ Cardinality(Causes(s)) \in Nat
             /\ Cardinality(Redundant(tenant, s)) <= Holders(tenant, s) * Cardinality(Causes(s))
  <2>1. IsFiniteSet(HoldersOf(s)) /\ IsFiniteSet(Causes(s))
    BY <1>2, OverlapsAssumption, FS_Subset
  <2>2. /\ IsFiniteSet(HoldersOf(s) \X Causes(s))
        /\ Cardinality(HoldersOf(s) \X Causes(s)) = Cardinality(HoldersOf(s)) * Cardinality(Causes(s))
    BY <2>1, FS_Product
  <2>3. /\ IsFiniteSet(Redundant(tenant, s))
        /\ Cardinality(Redundant(tenant, s)) <= Cardinality(HoldersOf(s) \X Causes(s))
    BY <1>3, <2>2, FS_Subset
  <2>4. Holders(tenant, s) = Cardinality(HoldersOf(s))
    BY DEF Holders
  <2>5. /\ Cardinality(Redundant(tenant, s)) \in Nat
        /\ Cardinality(HoldersOf(s)) \in Nat /\ Cardinality(Causes(s)) \in Nat
    BY <2>1, <2>3, FS_CardinalityType
  <2> HIDE DEF HoldersOf, Causes
  <2> QED BY <2>2, <2>3, <2>4, <2>5
<1>5. ASSUME NEW a \in Nat, NEW b \in Nat, NEW c \in Nat, NEW p \in Nat, a <= b * c
      PROVE  a * p <= p * b * c
  <2>1. b * c \in Nat /\ p * b * c = p * (b * c)
    OBVIOUS
  <2>2. ASSUME NEW d \in Nat, a <= d PROVE a * p <= p * d
    BY <2>2
  <2> QED BY <1>5, <2>1, <2>2
<1>6. ASSUME NEW f \in Of("R4")
      PROVE  f.savings <= KnownPrice(f.about) * Holders(tenant, f.about)
                            * Cardinality(Causes(f.about))
  <2>1. PICK s \in SkuIds : f = Finding("R4", s, "medium", Redundant(tenant, s),
                                        Cardinality(Redundant(tenant, s)) * KnownPrice(s))
    BY <1>1 DEF R4
  <2>2. f.about = s /\ f.savings = Cardinality(Redundant(tenant, s)) * KnownPrice(s)
    BY <2>1 DEF Finding
  <2>3. KnownPrice(s) \in Nat
    BY PriceAssumption DEF KnownPrice
  <2> HIDE DEF Causes
  <2> QED BY <1>4, <1>5, <2>2, <2>3
<1>7. ASSUME NEW u \in DOMAIN tenant.users, NEW o \in Overlaps, o.skus \subseteq Sold(u)
      PROVE  \E f \in Of("R4") : f.about = o.redundant /\ <<u, o>> \in f.affected
  <2> DEFINE s == o.redundant
             g == Finding("R4", s, "medium", Redundant(tenant, s),
                          Cardinality(Redundant(tenant, s)) * KnownPrice(s))
  <2>1. s \in SkuIds
    BY OverlapsAssumption
  <2>2. <<u, o>> \in Redundant(tenant, s)
    BY <1>7 DEF Redundant, FindOverlaps
  <2>3. g \in Of("R4")
    BY <1>1, <2>1, <2>2 DEF R4
  <2>4. g.about = s /\ g.affected = Redundant(tenant, s)
    BY DEF Finding
  <2> QED BY <2>2, <2>3, <2>4
<1> QED BY <1>6, <1>7 DEF DuplicatesBounded

\* R4 misses no overlap, and counts a redundant license at most once for each.
THEOREM DuplicatesAlwaysBounded == Spec => []DuplicatesBounded
<1>1. FindingsInv => DuplicatesBounded
  BY DuplicatesBoundedHere
<1> QED BY <1>1, FindingsInvariant, PTL
=============================================================================
