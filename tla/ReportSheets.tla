---------------------------- MODULE ReportSheets ----------------------------
(***************************************************************************)
(* What the report says beside its findings: the parts of an AuditResult    *)
(* that core/engine.py makes of the tenant itself, and what the writers of  *)
(* core/report/ put into the workbook, the document and the JSON file.  The *)
(* writers split the same rows on their own: paid and free, expired and     *)
(* soon, administrators and others.                                        *)
(*                                                                         *)
(* Left out: wording, widths, fonts, the order of rows, rounding, and the   *)
(* hidden sheet of raw data.                                               *)
(***************************************************************************)
EXTENDS SecurityRules

(* AuditResult *)

Inventory(t) ==
  [s \in ActiveSkus(t) |->
     [purchased |-> Usable(t.skus[s]), assigned |-> t.skus[s].consumed,
      slack |-> Slack(t.skus[s]), price |-> Price[s], unlimited |-> IsUnlimited(t.skus[s])]]

\* Free SKUs are not counted.
Counted(t) == {s \in ActiveSkus(t) : ~IsUnlimited(t.skus[s])}

TotalPurchased(t) == SumFunction([s \in Counted(t) |-> Usable(t.skus[s])])

TotalAssigned(t) == SumFunction([s \in Counted(t) |-> t.skus[s].consumed])

\* How many subscriptions have expired, or will within 30, 60 and 90 days
ExpirationSummary(t) ==
  LET all == DOMAIN t.subs
      expired == {s \in all : IsExpired(t.subs[s])}
      Within(days) == {s \in all : IsExpiringWithin(t.subs[s], days)}
  IN  [expired |-> Cardinality(expired),
       within30 |-> Cardinality(Within(30)),
       within60 |-> Cardinality(Within(60) \ Within(30)),
       within90 |-> Cardinality(Within(90) \ Within(60)),
       total |-> Cardinality(all)]

\* The units whose absence is among the caveats, apart from sign-in activity
CaveatUnits == {"subscriptions", "ca_policies", "user_registration", "directory_roles"}

CaveatsOver(t, listed) ==
  [inactive |-> DOMAIN t.skus \ ActiveSkus(t),
   free |-> {s \in listed : IsUnlimited(t.skus[s])},
   unpriced |-> {s \in listed : ~IsUnlimited(t.skus[s]) /\ Price[s] = None},
   unread |-> t.unread \cap CaveatUnits,
   signIns |-> t.signInKnown]

\* Mutant: suspended subscriptions are listed with those that are sold.
CaveatsOverAll(t) == CaveatsOver(t, DOMAIN t.skus)

Caveats(t) == CaveatsOver(t, ActiveSkus(t))

TotalSavings(findings) == SumFunction([f \in findings |-> f.savings])

SeverityCounts(findings) ==
  [severity \in Severities |-> Cardinality({f \in findings : f.severity = severity})]

-----------------------------------------------------------------------------
(* All three writers *)

PaidRows(inventory) == {s \in DOMAIN inventory : ~inventory[s].unlimited}

FreeRows(inventory) == {s \in DOMAIN inventory : inventory[s].unlimited}

\* The price of so many seats, nothing when it is not known
Cost(row, seats) == IF row.price = None THEN None ELSE row.price * seats

\* The rows that cost something, each with what its unused seats cost
UnusedCosts(inventory) ==
  [s \in PaidRows(inventory) |-> Cost(inventory[s], inventory[s].slack)]

\* Mutant: whether there are rows is looked at first.
SectionEmptyFirst(t, unit, rows) ==
  [shown |-> IF DOMAIN rows = {} THEN "none"
             ELSE IF ~Available(t, unit) THEN "unavailable" ELSE "rows",
   rows |-> rows]

\* A section about a unit says that it could not be read, or that there is
\* nothing, or shows a row for each.
Section(t, unit, rows) ==
  [shown |-> IF ~Available(t, unit) THEN "unavailable"
             ELSE IF DOMAIN rows = {} THEN "none" ELSE "rows",
   rows |-> rows]

-----------------------------------------------------------------------------
(* The workbook *)

\* Red if expired, amber if within 30 days
ExpirationColour(at) ==
  IF at = None THEN "plain"
  ELSE IF DaysUntilExpiry(at) < 0 THEN "red"
  ELSE IF DaysUntilExpiry(at) <= 30 THEN "amber" ELSE "plain"

\* Mutant: it is the type of the account that matters.
MfaColourByType(entry) ==
  IF entry.mfa THEN "plain" ELSE IF entry.type = "member" THEN "red" ELSE "amber"

MfaColour(entry) ==
  IF entry.mfa THEN "plain" ELSE IF entry.admin THEN "red" ELSE "amber"

\* The users that the findings of a rule name, on a sheet of their own
DetailRows(findings, rule) == UNION {f.affected : f \in {g \in findings : g.rule = rule}}

\* What the paid rows cost in a month, as far as their prices are known
PaidSubtotal(inventory) ==
  SumFunction([s \in {p \in PaidRows(inventory) : inventory[p].price # None} |->
                 inventory[s].price * inventory[s].purchased])

Workbook(t, findings, report) ==
  [savings |-> TotalSavings(findings),
   severities |-> SeverityCounts(findings),
   caveats |-> report.caveats,
   unused |-> UnusedCosts(report.inventory),
   free |-> FreeRows(report.inventory),
   subtotal |-> PaidSubtotal(report.inventory),
   expirations |-> Section(t, "subscriptions",
                           [s \in DOMAIN t.subs |-> ExpirationColour(t.subs[s])]),
   disabled |-> DetailRows(findings, "R1"),
   inactive |-> DetailRows(findings, "R2"),
   mfa |-> Section(t, "user_registration",
                   [u \in DOMAIN t.registration |-> MfaColour(t.registration[u])]),
   roles |-> Section(t, "directory_roles",
                     [r \in PrivilegedRoles(t) |-> t.roles[r].members])]

-----------------------------------------------------------------------------
(* The document *)

Document(t, findings, report) ==
  [savings |-> TotalSavings(findings),
   severities |-> SeverityCounts(findings),
   wellManaged |-> findings = {},
   caveats |-> report.caveats,
   unused |-> UnusedCosts(report.inventory),
   free |-> FreeRows(report.inventory),
   summary |-> report.expirations,
   expirations |-> Section(t, "subscriptions",
                           [s \in DOMAIN t.subs |->
                              IF t.subs[s] = None THEN None ELSE DaysUntilExpiry(t.subs[s])])]

-----------------------------------------------------------------------------
(* The JSON file *)

Payload(t, findings, report) ==
  [savings |-> TotalSavings(findings),
   severities |-> SeverityCounts(findings),
   caveats |-> report.caveats,
   unused |-> UnusedCosts(report.inventory),
   free |-> FreeRows(report.inventory),
   expirations |-> [available |-> Available(t, "subscriptions"),
                    summary |-> report.expirations,
                    expired |-> {s \in DOMAIN t.subs : IsExpired(t.subs[s])}],
   mfa |-> [available |-> Available(t, "user_registration"),
            users |-> Cardinality(DOMAIN t.registration),
            without |-> Cardinality(NoMfa(t)),
            admins |-> Cardinality({u \in NoMfa(t) : t.registration[u].admin})],
   roles |-> [available |-> Available(t, "directory_roles"),
              members |-> [r \in PrivilegedRoles(t) |-> t.roles[r].members]]]
=============================================================================
