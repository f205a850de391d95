------------------------------ MODULE Analysis ------------------------------
(***************************************************************************)
(* build_result of core/engine.py, and the report: the rules run on all that *)
(* was read of a tenant, while inventory and totals are made of its active  *)
(* subscriptions, and the sheets of the report split the same rows once     *)
(* more.  All of them must tell the same story.                            *)
(*                                                                         *)
(* The rules are pure, so that one action evaluates those that were         *)
(* selected.  Left out: a rule that raises an exception and is skipped (see *)
(* AuditRun.tla), the order of the findings, and names.                    *)
(***************************************************************************)
EXTENDS ReportSheets

CONSTANTS TenantSet,  \* the tenants that are audited
          RuleIds     \* the rules that are selected

VARIABLES tenant,
          findings,  \* of the rules, None before they have run
          report,    \* the AuditResult, None before it is built
          sheets     \* what the report files show, None before they are written

vars == <<tenant, findings, report, sheets>>

AllRuleIds == {"R1", "R2", "R3", "R4", "R7", "R8", "R9", "R10", "R11", "R12",
               "R13", "R14", "R15", "R16", "R17"}

ASSUME TenantSetAssumption == \A t \in TenantSet : IsTenant(t)
ASSUME RuleIdsAssumption == RuleIds \subseteq AllRuleIds

Init == tenant \in TenantSet /\ findings = None /\ report = None /\ sheets = None

-----------------------------------------------------------------------------
Evaluate(rule, t) ==
  CASE rule = "R1" -> R1(t)   [] rule = "R2" -> R2(t)   [] rule = "R3" -> R3(t)
    [] rule = "R4" -> R4(t)   [] rule = "R7" -> R7(t)   [] rule = "R8" -> R8(t)
    [] rule = "R9" -> R9(t)   [] rule = "R10" -> R10(t) [] rule = "R11" -> R11(t)
    [] rule = "R12" -> R12(t) [] rule = "R13" -> R13(t) [] rule = "R14" -> R14(t)
    [] rule = "R15" -> R15(t) [] rule = "R16" -> R16(t) [] rule = "R17" -> R17(t)

RunRules == /\ findings = None
            /\ findings' = UNION {Evaluate(rule, tenant) : rule \in RuleIds}
            /\ UNCHANGED <<tenant, report, sheets>>

-----------------------------------------------------------------------------
\* The AuditResult, apart from the findings
Result(t) == [inventory |-> Inventory(t), purchased |-> TotalPurchased(t),
              assigned |-> TotalAssigned(t), expirations |-> ExpirationSummary(t),
              caveats |-> Caveats(t)]

Assemble == /\ findings # None /\ report = None
            /\ report' = Result(tenant)
            /\ UNCHANGED <<tenant, findings, sheets>>

\* write_reports: every format is written from the same AuditResult.
WriteReports == /\ report # None /\ sheets = None
                /\ sheets' = [xlsx |-> Workbook(tenant, findings, report),
                              docx |-> Document(tenant, findings, report),
                              json |-> Payload(tenant, findings, report)]
                /\ UNCHANGED <<tenant, findings, report>>

Next == RunRules \/ Assemble \/ WriteReports

Spec == Init /\ [][Next]_vars

-----------------------------------------------------------------------------
(* Properties *)

Row == [purchased : Nat, assigned : Nat, slack : Nat, price : Nat \cup {None},
        unlimited : BOOLEAN]

TypeOK ==
  /\ IsTenant(tenant)
  /\ findings # None => \A f \in findings : /\ f.rule \in RuleIds /\ f.severity \in Severities
                                            /\ f.savings \in Nat
  /\ report # None => /\ report.inventory \in [ActiveSkus(tenant) -> Row]
                      /\ report.purchased \in Nat /\ report.assigned \in Nat
  /\ sheets # None => DOMAIN sheets = {"xlsx", "docx", "json"}

Of(rule) == {f \in findings : f.rule = rule}

Affected(rule) == UNION {f.affected : f \in Of(rule)}

Savings(rules) == TotalSavings(UNION {Of(r) : r \in rules})

\* The seats R3 calls unused are those of the inventory rows that count in the
\* headline, which is their sum, although R3 looks at all SKUs and they at the
\* active ones; and what R3 would save is the column of unused costs, in the
\* workbook as in the document.
NumbersAgree ==
  (report # None /\ "R3" \in RuleIds) =>
    LET paid == {s \in DOMAIN report.inventory : ~report.inventory[s].unlimited}
        purchased == [s \in paid |-> report.inventory[s].purchased]
        assigned == [s \in paid |-> report.inventory[s].assigned]
    IN  /\ {f.about : f \in Of("R3")} = {s \in paid : assigned[s] < purchased[s]}
        /\ report.purchased = SumFunction(purchased)
        /\ report.assigned = SumFunction(assigned)
        /\ \A f \in Of("R3") :
             f.savings = IF Price[f.about] = None THEN 0
                         ELSE Price[f.about] * report.inventory[f.about].slack
        /\ sheets # None =>
             LET Shown(unused) ==
                   SumFunctionOnSet(unused, {s \in DOMAIN unused : unused[s] # None})
             IN  /\ Savings({"R3"}) = Shown(sheets.xlsx.unused)
                 /\ Savings({"R3"}) = Shown(sheets.docx.unused)
                 /\ Savings({"R3"}) <= sheets.xlsx.subtotal

\* What SKU s has in licenses that users hold
Holders(t, s) == Cardinality({u \in DOMAIN t.users : s \in t.users[u].licenses})

\* Every subscription is active, and Graph counts as assigned what users hold.
Consistent(t) == \A s \in DOMAIN t.skus : /\ t.skus[s].active
                                          /\ t.skus[s].consumed = Holders(t, s)
                                          /\ Holders(t, s) <= Usable(t.skus[s])

\* What the tenant pays for each SKU, as far as prices are known
Bill(t) == [s \in DOMAIN t.skus |-> KnownPrice(s) * Usable(t.skus[s])]

\* Disabled users, inactive users and unused seats are different seats: what
\* R1, R2 and R3 would save together is no more than what the tenant pays.
NoSeatSavedTwice ==
  (findings # None /\ Consistent(tenant)) =>
    Savings({"R1", "R2", "R3"}) <= SumFunction(Bill(tenant))

\* A seat is counted once for being disabled, inactive or unused, once more if a
\* guest holds it, and once for each overlap that makes it redundant: the savings
\* that the report shows in total may exceed the bill by that, and by no more.
SavingsBounded ==
  (sheets # None /\ Consistent(tenant)) =>
    LET Guests(s) == Cardinality({u \in DOMAIN tenant.users :
                                    tenant.users[u].guest /\ s \in tenant.users[u].licenses})
        Often(s) == Usable(tenant.skus[s]) + Guests(s)
                      + Holders(tenant, s) * Cardinality({o \in Overlaps : o.redundant = s})
    IN  \A file \in {sheets.xlsx, sheets.docx, sheets.json} :
          file.savings <= SumFunction([s \in DOMAIN tenant.skus |-> KnownPrice(s) * Often(s)])

\* Whom R2 lists when there is activity data, it lists for review when not.
UnverifiedListsAll ==
  (findings # None /\ ~tenant.signInKnown /\ "R2" \in RuleIds) =>
    \A f \in Inactive(tenant) : f.affected \subseteq Affected("R2")

\* The summary of expirations counts each subscription once; R8 flags those
\* that it counts as expired or due in 30 days; they are the coloured rows of the
\* workbook, red if the JSON file calls them expired, and those of the document to
\* which it gives 30 days or less, negative if they have expired.
ExpirationsAgree ==
  (report # None /\ "R8" \in RuleIds) =>
    LET sum == report.expirations
        late == {s \in DOMAIN tenant.subs : tenant.subs[s] # None /\ tenant.subs[s] < Days(91)}
    IN  /\ Cardinality(Affected("R8")) = sum.expired + sum.within30
        /\ sum.expired + sum.within30 + sum.within60 + sum.within90 = Cardinality(late)
        /\ sheets # None =>
             LET rows == sheets.xlsx.expirations.rows
                 days == sheets.docx.expirations.rows
                 DueBefore(n) == {s \in DOMAIN days : days[s] # None /\ days[s] < n}
             IN  /\ sheets.json.expirations.expired = {s \in DOMAIN rows : rows[s] = "red"}
                 /\ sheets.json.expirations.expired = DueBefore(0)
                 /\ Affected("R8") = {s \in DOMAIN rows : rows[s] # "plain"}
                 /\ Affected("R8") = DueBefore(31)

\* "Admins are covered by R10": with both rules, every member or administrator
\* without MFA is in exactly one of them.
AdminsCovered ==
  (findings # None /\ {"R9", "R10"} \subseteq RuleIds) =>
    LET admins == UNION {f.affected : f \in {g \in Of("R10") : g.about = None}}
    IN  /\ Affected("R9") \cap admins = {}
        /\ Affected("R9") \cup admins =
             {u \in DOMAIN tenant.registration :
                /\ ~tenant.registration[u].mfa
                /\ tenant.registration[u].admin \/ tenant.registration[u].type # "guest"}

\* The coloured rows of the MFA sheet are R9's and R10's users and guests, the
\* red ones R10's, and the JSON file counts them alike; the Global Administrators
\* that R10 finds too many of are those of the sheet of roles.
AdminsShown ==
  (sheets # None /\ {"R9", "R10"} \subseteq RuleIds) =>
    LET rows == sheets.xlsx.mfa.rows
        Coloured(c) == {u \in DOMAIN rows : rows[u] = c}
        OfR10(about) == UNION {f.affected : f \in {g \in Of("R10") : g.about = about}}
    IN  /\ Coloured("red") = OfR10(None)
        /\ Affected("R9") \subseteq Coloured("amber")
        /\ \A u \in Coloured("amber") \ Affected("R9") : tenant.registration[u].type = "guest"
        /\ sheets.json.mfa.admins = Cardinality(Coloured("red"))
        /\ sheets.json.mfa.without = Cardinality(Coloured("red") \cup Coloured("amber"))
        /\ OfR10(GlobalAdministrator) # {} =>
             /\ sheets.xlsx.roles.shown = "rows"
             /\ sheets.xlsx.roles.rows[GlobalAdministrator] =
                  Cardinality(OfR10(GlobalAdministrator))

\* Every SKU of the tenant is told of in one place: the paid rows, the free rows,
\* or the note on inactive subscriptions.  The notes on free products and on
\* missing prices name the rows that are shown as free, and without a cost.
EverySkuTold ==
  sheets # None =>
    \A file \in {sheets.xlsx, sheets.docx, sheets.json} :
      LET paid == DOMAIN file.unused
          places == <<paid, file.free, file.caveats.inactive>>
      IN  /\ \A s \in DOMAIN tenant.skus : \E i \in 1..3 :
               \A j \in 1..3 : s \in places[j] <=> j = i
          /\ file.caveats.free = file.free
          /\ file.caveats.unpriced = {s \in paid : file.unused[s] = None}

\* The rules that look at a unit
RulesAbout(unit) ==
  CASE unit = "subscriptions" -> {"R8"}      [] unit = "user_registration" -> {"R9"}
    [] unit = "directory_roles" -> {}        [] unit = "ca_policies" -> {"R11", "R12", "R15"}
    [] unit = "auth_methods" -> {"R13"}      [] unit = "named_locations" -> {"R14"}
    [] unit = "per_user_mfa" -> {"R16"}      [] unit = "domains" -> {"R17"}

\* What could not be read is no cause of a finding; and a section of the report
\* says "unavailable" exactly if its unit could not be read, never that the
\* tenant has none, and has a note among the caveats.
UnreadTold ==
  sheets # None =>
    LET Says(section, flag, unit) == /\ section.shown = "unavailable" <=> unit \in tenant.unread
                                     /\ flag <=> unit \notin tenant.unread
                                     /\ unit \in report.caveats.unread <=> unit \in tenant.unread
    IN  /\ \A unit \in tenant.unread : \A rule \in RulesAbout(unit) : Of(rule) = {}
        /\ Says(sheets.xlsx.expirations, sheets.json.expirations.available, "subscriptions")
        /\ Says(sheets.docx.expirations, sheets.json.expirations.available, "subscriptions")
        /\ Says(sheets.xlsx.mfa, sheets.json.mfa.available, "user_registration")
        /\ Says(sheets.xlsx.roles, sheets.json.roles.available, "directory_roles")

\* What R4 would save on a SKU is no more than what its holders cost, once for
\* each overlap that makes it redundant, and it misses nobody: two overlaps with
\* the same redundant SKU are the only way to count a license twice.
DuplicatesBounded ==
  (findings # None /\ "R4" \in RuleIds) =>
    LET Sold(u) == tenant.users[u].licenses \cap DOMAIN tenant.skus
    IN  /\ \A f \in Of("R4") :
             f.savings <= KnownPrice(f.about) * Holders(tenant, f.about)
                            * Cardinality({o \in Overlaps : o.redundant = f.about})
        /\ \A u \in DOMAIN tenant.users, o \in Overlaps :
             o.skus \subseteq Sold(u) =>
               \E f \in Of("R4") : f.about = o.redundant /\ <<u, o>> \in f.affected

\* A sign-in, by the words with which a policy can mean it: everybody is "All" and
\* every application, too.  Only the words that some policy lists tell two apart.
SignIns(t) ==
  LET Listed(parts) == UNION {p[part] : p \in t.policies, part \in parts}
      Means(all, words) == {{all} \cup some : some \in SUBSET words}
  IN  [users : Means("All", Listed({"users", "exclude_users"})),
       roles : SUBSET ({GlobalAdministrator} \cup Listed({"roles", "exclude_roles"})),
       groups : SUBSET Listed({"groups"}),
       apps : Means("All", Listed({"apps"})),
       clients : {{"all", c} : c \in {"browser", "mobileAppsAndDesktopClients",
                                      "exchangeActiveSync", "other"}}]

\* Nobody that a policy means by name, by group, or by a role that is not among these
Unnamed(s, roles) == s.users = {"All"} /\ s.groups = {} /\ s.roles \subseteq roles

CoversApp(p, s) == p.apps \cap s.apps # {}

\* Whom p lets off: break-glass accounts and roles, and clients that it does not list
Exempts(p, s) == \/ p.exclude_users \cap s.users # {}
                 \/ p.exclude_roles \cap s.roles # {}
                 \/ p.clients # {} /\ p.clients \cap s.clients = {}

Applies(p, s) == /\ \/ p.users \cap s.users # {}
                    \/ p.roles \cap s.roles # {}
                    \/ p.groups \cap s.groups # {}
                 /\ CoversApp(p, s)
                 /\ ~Exempts(p, s)

\* What Conditional Access does at a sign-in: MFA is asked for if one policy that
\* is in force applies.
Challenged(t, s) == \E p \in t.policies : /\ p.state = "enabled" /\ "mfa" \in p.grants
                                          /\ Applies(p, s)

\* What R11 and R15 say of Conditional Access, of which they do not read the
\* exclusions, the groups and the clients.  If R11 reports, somebody whom no policy
\* names is not challenged in an application that none lists; if R15 does, such a
\* Global Administrator is not challenged anywhere.  If R11 is silent, there is one
\* policy by which every sign-in is challenged that it does not exempt; if R15 is
\* silent, every such sign-in of a Global Administrator to the applications it covers.
CaFindingsRight ==
  (findings # None /\ Available(tenant, "ca_policies") /\ {"R11", "R15"} \subseteq RuleIds) =>
    LET signIns == SignIns(tenant)
    IN  /\ Of("R11") # {} => \A s \in signIns :
             Unnamed(s, {}) /\ s.apps = {"All"} => ~Challenged(tenant, s)
        /\ Of("R15") # {} => \A s \in signIns :
             Unnamed(s, {GlobalAdministrator}) => ~Challenged(tenant, s)
        /\ Of("R11") = {} => \E p \in tenant.policies : \A s \in signIns :
             Challenged(tenant, s) \/ Exempts(p, s)
        /\ Of("R15") = {} => \E p \in tenant.policies : \A s \in signIns :
             GlobalAdministrator \in s.roles =>
               Challenged(tenant, s) \/ Exempts(p, s) \/ ~CoversApp(p, s)

\* "Inactive subscriptions are excluded from totals, inventory, and rules": no
\* rule claims a saving on their licenses.
InactiveExcluded ==
  findings # None =>
    \A f \in UNION {Of("R1"), Of("R2"), Of("R7")} :
      f.savings <= SumFunction([u \in f.affected |->
                     LicenseCost(tenant, tenant.users[u].licenses \cap ActiveSkus(tenant))])

\* "> 25% of purchased unused -> high": also if purchased means, as in the headline
\* and the inventory, all seats that can be used.  R3 divides by fewer, those that
\* are not in grace, and by none if all are: only then does it call the lot low.
QuarterUnusedIsHigh ==
  findings # None =>
    \A f \in Of("R3") :
      LET sku == tenant.skus[f.about]
      IN  /\ sku.enabled > 0 /\ Slack(sku) > SmallBuffer
          /\ 4 * Slack(sku) > Usable(sku)
          => f.severity = "high"
=============================================================================
