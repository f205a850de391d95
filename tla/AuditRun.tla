------------------------------- MODULE AuditRun -------------------------------
(***************************************************************************)
(* One audit from the operator's selection to the report: the selection and *)
(* the scopes it makes sign-in ask for (web/app.py, cli.py), run_audit and  *)
(* build_result of core/engine.py, and which findings and caveats end up in *)
(* the report for the data that could be read.                              *)
(*                                                                         *)
(* The CLI signs in by itself, and has the operator confirm the tenant; the *)
(* sign-in and the confirmation of the web application are in WebApp.tla.   *)
(*                                                                         *)
(* The tenant is the set of problems it has: `issue' holds a check c when   *)
(* c's rule would report something if it saw all of the data it looks at.   *)
(* Rows, prices, texts, severities and savings are left out here.  Fetching *)
(* is TenantFetch, which GraphFetch implements.                             *)
(***************************************************************************)
EXTENDS TenantFetch, AuditCatalog, FiniteSets

CONSTANTS Selections,  \* what operators select and connect with, see below
          IssueSets,   \* the tenants
          MaxBroken    \* bound: how many rules raise an exception in one audit

\* The checks made by the rules.  R10 is two checks, and so is R2, which lists
\* accounts for review when it has no sign-in activity.
Checks == (AuditIds \ {"idn-admin-audit"})
             \cup {"admins-without-mfa", "many-global-admins", "inactive-review"}

\* The audit whose rule makes check c.
AuditOf(c) == CASE c = "inactive-review" -> "lic-inactive"
                [] c \in {"admins-without-mfa", "many-global-admins"} -> "idn-admin-audit"
                [] OTHER -> c

ChecksOf(audits) == {c \in Checks : AuditOf(c) \in audits}

\* A tenant whose policies make all users use MFA makes its global admins use
\* it, and an inactive licensed account is one to review.
ARealTenant(issues) ==
  /\ "sec-ga-mfa-coverage" \in issues => "sec-ca-require-mfa-all" \in issues
  /\ "lic-inactive" \in issues => "inactive-review" \in issues

\* by: web or CLI; ids, cats: the audits and categories named; device: sign in
\* with a device code; app, domain: is there a client ID, and a tenant, by a
\* profile, an option, a prompt or the environment.
ASSUME SelectionsAssumption ==
  \A s \in Selections : /\ s.by \in {"web", "cli"}
                        /\ s.cats \subseteq Categories
                        /\ s.by = "web" => s.cats = {}
                        /\ {s.device, s.app, s.domain} \subseteq BOOLEAN
ASSUME MaxBrokenAssumption == MaxBroken \in Nat
ASSUME IssueSetsAssumption ==
  \A i \in IssueSets : i \subseteq Checks /\ ARealTenant(i)

VARIABLES
  sent,      \* the selection, as it arrived
  issue,     \* the tenant's problems
  stage,     \* "selecting", on the CLI "connecting", "browser", "device" and
             \* "confirming", "signedIn", "fetching", "built", "written",
             \* "failed" or "refused"
  scopes,    \* the Graph scopes sign-in asked for
  options,   \* the audits kept for the run: options["audits"], audit_ids
  findings,  \* the checks that found something
  caveats,   \* the units the report says could not be read
  broken     \* the audits whose rule raised an exception

reportVars == <<findings, caveats, broken>>
runVars == <<sent, issue, stage, scopes, options, reportVars>>
vars    == <<runVars, fetchVars>>

\* The units _build_caveats has a text for.
CaveatUnits == {"subscriptions", "ca_policies", "user_registration",
                "directory_roles", "users"}

TypeOK == /\ sent \in Selections /\ issue \in IssueSets
          /\ stage \in {"selecting", "connecting", "browser", "device", "confirming",
                        "signedIn", "fetching", "built", "written", "failed", "refused"}
          /\ broken \subseteq AuditIds
          /\ options \subseteq AuditIds
          /\ findings \subseteq Checks
          /\ caveats \subseteq CaveatUnits
          /\ todo \subseteq Units
          /\ got \in [Units -> Results]
          /\ outcome \in {"fetching", "fetched", "failed"}

Init == /\ sent \in Selections /\ issue \in IssueSets
        /\ stage = "selecting"
        /\ scopes = {} /\ options = {} /\ findings = {} /\ caveats = {} /\ broken = {}
        /\ todo = {} /\ got = [u \in Units |-> "none"] /\ outcome = "fetching"

-----------------------------------------------------------------------------
\* What the selection resolves to before sign-in.
Selected == Resolve(sent.ids, sent.cats)

\* /auth/login goes on with any selection.
SignIn == /\ stage = "selecting" /\ sent.by = "web"
          /\ scopes' = RequiredScopes(Selected)
          /\ options' = Selected
          /\ stage' = "signedIn"
          /\ UNCHANGED <<sent, issue, reportVars, fetchVars>>

\* The CLI stops if no audit is left.
NothingMatches == /\ stage = "selecting" /\ sent.by = "cli" /\ Selected = {}
                  /\ stage' = "refused"
                  /\ UNCHANGED <<sent, issue, scopes, options, reportVars, fetchVars>>

\* Mutant: the CLI goes on with any selection, too.
CliSelectAny == /\ stage = "selecting" /\ sent.by = "cli"
                /\ options' = Selected
                /\ stage' = "connecting"
                /\ UNCHANGED <<sent, issue, scopes, reportVars, fetchVars>>

CliSelect == /\ stage = "selecting" /\ sent.by = "cli" /\ Selected # {}
             /\ options' = Selected
             /\ stage' = "connecting"
             /\ UNCHANGED <<sent, issue, scopes, reportVars, fetchVars>>

\* Signing in with a device code needs a tenant, any sign-in a client ID.
CliConnect == /\ stage = "connecting"
              /\ stage' = IF (sent.device /\ ~sent.domain) \/ ~sent.app THEN "refused"
                          ELSE IF sent.device THEN "device" ELSE "browser"
              /\ UNCHANGED <<sent, issue, scopes, options, reportVars, fetchVars>>

\* The settings carry the scopes of the selected audits.
TokenAcquired == /\ scopes' = RequiredScopes(options)
                 /\ stage' = "confirming"

\* Whatever goes wrong with the browser, a device code is tried next.
CliBrowser == /\ stage = "browser"
              /\ TokenAcquired \/ (stage' = "device" /\ UNCHANGED scopes)
              /\ UNCHANGED <<sent, issue, options, reportVars, fetchVars>>

CliDevice == /\ stage = "device"
             /\ TokenAcquired \/ (stage' = "refused" /\ UNCHANGED scopes)
             /\ UNCHANGED <<sent, issue, options, reportVars, fetchVars>>

\* The organization is read and shown; the operator goes on or does not, or it
\* cannot be read.
CliConfirm == /\ stage = "confirming"
              /\ stage' \in {"signedIn", "refused"}
              /\ UNCHANGED <<sent, issue, scopes, options, reportVars, fetchVars>>

\* run_audit resolves the ids it was given once more.
Running == Resolve(options, {})

\* Mutant: what the audits do not need has no default.
StartWithoutDefaults ==
  /\ stage = "signedIn" \/ (stage = "failed" /\ sent.by = "web")
  /\ todo' = RequiredData(Running) \cup {"organization"}
  /\ got' = [u \in RequiredData(Running) |-> "none"]
  /\ outcome' = "fetching"
  /\ stage' = "fetching"
  /\ UNCHANGED <<sent, issue, scopes, options, reportVars>>

\* run_audit; a failed web audit can be started again from its page.
Start == /\ stage = "signedIn" \/ (stage = "failed" /\ sent.by = "web")
         /\ todo' = RequiredData(Running) \cup {"organization"}
         /\ got' = [u \in Units |-> "none"]
         /\ outcome' = "fetching"
         /\ stage' = "fetching"
         /\ UNCHANGED <<sent, issue, scopes, options, reportVars>>

Fetching == /\ stage = "fetching"
            /\ \/ \E u \in Units, x \in Results : ReadUnit(u, x)
               \/ EndFetch
            /\ UNCHANGED runVars

FetchFails == /\ stage = "fetching" /\ FailFetch
              /\ stage' = "failed"
              /\ UNCHANGED <<sent, issue, scopes, options, reportVars>>

-----------------------------------------------------------------------------
(* build_result *)

\* The unit whose rows check c goes through.
LooksAt(c) ==
  CASE c \in {"lic-disabled", "lic-inactive", "inactive-review", "lic-duplicate",
              "idn-guests"} -> "users"
    [] c = "lic-unassigned"  -> "skus"
    [] c = "lic-expirations" -> "subscriptions"
    [] c \in {"idn-mfa-registration", "admins-without-mfa"} -> "user_registration"
    [] c = "many-global-admins"      -> "directory_roles"
    [] c = "idn-peruser-mfa-state"   -> "per_user_mfa"
    [] c \in ConditionalAccessAudits -> "ca_policies"
    [] c = "sec-auth-methods-policy" -> "auth_methods"
    [] c = "sec-trusted-locations"   -> "named_locations"
    [] c = "sec-allowed-domains"     -> "domains"

\* These report that something is missing from what they look at: all of it is
\* missing from a unit that was not read at all.
AbsenceChecks == ConditionalAccessAudits \cup {"sec-auth-methods-policy"}

\* R11, R12, R13 and R15 keep silent only if their unit is flagged unavailable.
AbsenceFires(c) == \/ got[LooksAt(c)] = "none"
                   \/ got[LooksAt(c)] = "complete" /\ c \in issue

\* R2 with sign-in activity, and its _degraded list without.
InactiveFires(c) == /\ c \in issue
                    /\ got["users"] = IF c = "lic-inactive" THEN "complete" ELSE "bare"

\* R4 knows the licenses of a user by the part numbers of the tenant's SKUs.
DuplicateFires == /\ "lic-duplicate" \in issue
                  /\ got["users"] \in {"complete", "bare"} /\ got["skus"] = "complete"

\* The other rules report the rows they find something wrong with.
RowFires(c) == c \in issue /\ got[LooksAt(c)] \in {"complete", "bare"}

\* Check c's rule reports, whatever a partial unit holds.
Fires(c) == CASE c \in AbsenceChecks -> AbsenceFires(c)
              [] c \in {"lic-inactive", "inactive-review"} -> InactiveFires(c)
              [] c = "lic-duplicate" -> DuplicateFires
              [] OTHER -> RowFires(c)

\* A partial unit may hold the row that c's rule would report, or not.
MayFire(c) == got[LooksAt(c)] = "partial" /\ c \in issue

\* Mutant: the admin-role caveat is tied to the registration report.
CaveatsForRegistration ==
  {u \in CaveatUnits \ {"directory_roles"} : got[u] \in {"unavailable", "bare"}}

\* _build_caveats, the caveats about data that could not be read.
Caveats == {u \in CaveatUnits : got[u] \in {"unavailable", "bare"}}

\* run_rules skips a rule that raises an exception.
Build == /\ stage = "fetching" /\ outcome = "fetched"
         /\ broken' \in {b \in SUBSET Running : Cardinality(b) <= MaxBroken}
         /\ LET checks == ChecksOf(Running \ broken')
            IN  \E lucky \in SUBSET {c \in checks : MayFire(c)} :
                  findings' = {c \in checks : Fires(c)} \cup lucky
         /\ caveats' = Caveats
         /\ stage' = "built"
         /\ UNCHANGED <<sent, issue, scopes, options, fetchVars>>

\* write_reports; a file that cannot be written fails the audit.
Write == /\ stage = "built"
         /\ \/ stage' = "written" /\ UNCHANGED reportVars
            \/ stage' = "failed" /\ findings' = {} /\ caveats' = {} /\ broken' = {}
         /\ UNCHANGED <<sent, issue, scopes, options, fetchVars>>

Next == \/ SignIn \/ NothingMatches \/ CliSelect \/ CliConnect
        \/ CliBrowser \/ CliDevice \/ CliConfirm
        \/ Start \/ Fetching \/ FetchFails \/ Build \/ Write

Spec == Init /\ [][Next]_vars

-----------------------------------------------------------------------------
(* Properties *)

Reported == stage \in {"built", "written"}

\* The audits the operator meant: those named, or all if none is named.
Wanted == IF sent.ids = {} /\ sent.cats = {} THEN AuditIds
          ELSE {a \in AuditIds : a \in sent.ids \/ CategoryOf(a) \in sent.cats}

\* A finding is there for a reason and nothing is overlooked: a check of the
\* selected audits reports only what the tenant has, never because its data was
\* not read, and it does report it when its data was read completely (the
\* review list stands in for missing sign-in activity).  A rule that raises an
\* exception costs the report nothing but its own findings.
FindingsRight ==
  Reported =>
    /\ findings \subseteq issue
    /\ \A c \in ChecksOf(Wanted \ broken) \cap issue :
         (got[LooksAt(c)] = "complete" /\ c # "inactive-review") => c \in findings
    /\ Wanted # {} => findings \subseteq ChecksOf(Wanted)

\* A problem of the tenant that a selected audit looks for and the report does
\* not show, for want of the data (not because the rule failed), is covered by
\* a caveat, if _build_caveats has one for that data.
HiddenIssueTold ==
  Reported =>
    \A c \in (ChecksOf(Wanted \ broken) \cap issue) \ (findings \cup {"inactive-review"}) :
      LooksAt(c) \in CaveatUnits => LooksAt(c) \in caveats

\* Sign-in asks for the scopes of everything the audit is going to read, also
\* though scopes and audits are worked out in two requests.  This fails for one
\* kind of selection, which is exempt: ids sent to the web application of which
\* none is an audit's.  It asks for the scopes of no audit, and then runs them all;
\* the CLI refuses such a selection.
ScopesSuffice ==
  stage = "fetching" => \/ \A u \in todo : DataScopes(u) \subseteq scopes
                        \/ sent.by = "web" /\ Wanted = {}

\* It asks for nothing more than the base scopes and what the selected audits'
\* data needs; a licensing-only audit never asks for Policy.Read.All.
ScopesMinimal ==
  /\ scopes \subseteq
       BaseScopes \cup UNION {DataScopes(u) : u \in RequiredData(Wanted)}
  /\ Wanted \subseteq LicenseAudits => "Policy.Read.All" \notin scopes

\* The availability flags are surfaced in the report: what could not be read is
\* named in a caveat.
GapsTold == Reported => \A u \in Units : got[u] = "unavailable" => u \in caveats
=============================================================================
