----------------------------- MODULE AuditCatalog -----------------------------
(***************************************************************************)
(* core/audits.py: the audits an operator can select, the units of tenant   *)
(* data each of them needs and the Graph scopes each unit needs.  Titles    *)
(* and descriptions are left out; no audit of the catalog is experimental.  *)
(***************************************************************************)
LicenseAudits == {"lic-disabled", "lic-inactive", "lic-unassigned", "lic-duplicate",
                  "lic-expirations"}
IdentityAudits == {"idn-guests", "idn-mfa-registration", "idn-admin-audit",
                   "idn-peruser-mfa-state"}
SecurityAudits == {"sec-ca-require-mfa-all", "sec-ca-block-legacy",
                   "sec-ga-mfa-coverage", "sec-auth-methods-policy",
                   "sec-trusted-locations", "sec-allowed-domains"}
AuditIds == LicenseAudits \cup IdentityAudits \cup SecurityAudits

Categories == {"Licensing & cost", "Identity & access", "Security posture",
               "Exchange", "On-prem"}

CategoryOf(a) == CASE a \in LicenseAudits  -> "Licensing & cost"
                   [] a \in IdentityAudits -> "Identity & access"
                   [] a \in SecurityAudits -> "Security posture"

ConditionalAccessAudits ==
  {"sec-ca-require-mfa-all", "sec-ca-block-legacy", "sec-ga-mfa-coverage"}

\* Mutant: the global-admin audit is declared to need the role members.
DataOfWrongUnit(a) ==
  CASE a \in {"lic-disabled", "lic-inactive", "lic-duplicate", "idn-guests"} ->
         {"users", "skus"}
    [] a = "lic-unassigned"          -> {"skus"}
    [] a = "lic-expirations"         -> {"subscriptions", "skus"}
    [] a = "idn-mfa-registration"    -> {"user_registration"}
    [] a \in {"idn-admin-audit", "sec-ga-mfa-coverage"} ->
         {"user_registration", "directory_roles"}
    [] a = "idn-peruser-mfa-state"   -> {"users", "per_user_mfa"}
    [] a \in ConditionalAccessAudits -> {"ca_policies"}
    [] a = "sec-auth-methods-policy" -> {"auth_methods"}
    [] a = "sec-trusted-locations"   -> {"named_locations"}
    [] a = "sec-allowed-domains"     -> {"domains"}

\* AuditDef.data
DataOf(a) ==
  CASE a \in {"lic-disabled", "lic-inactive", "lic-duplicate", "idn-guests"} ->
         {"users", "skus"}
    [] a = "lic-unassigned"          -> {"skus"}
    [] a = "lic-expirations"         -> {"subscriptions", "skus"}
    [] a = "idn-mfa-registration"    -> {"user_registration"}
    [] a = "idn-admin-audit"         -> {"user_registration", "directory_roles"}
    [] a = "idn-peruser-mfa-state"   -> {"users", "per_user_mfa"}
    [] a \in ConditionalAccessAudits -> {"ca_policies"}
    [] a = "sec-auth-methods-policy" -> {"auth_methods"}
    [] a = "sec-trusted-locations"   -> {"named_locations"}
    [] a = "sec-allowed-domains"     -> {"domains"}

\* AuditDef.scopes
ExtraScopes(a) ==
  IF a \in {"idn-peruser-mfa-state", "sec-auth-methods-policy",
            "sec-trusted-locations"} \cup ConditionalAccessAudits
  THEN {"Policy.Read.All"} ELSE {}

BaseScopes == {"User.Read", "Organization.Read.All"}

\* DATA_SCOPES
DataScopes(u) ==
  CASE u = "users" -> {"User.Read.All", "AuditLog.Read.All"}
    [] u = "user_registration" -> {"AuditLog.Read.All"}
    [] u \in {"skus", "subscriptions", "directory_roles", "domains"} ->
         {"Directory.Read.All"}
    [] u \in {"ca_policies", "named_locations", "auth_methods", "per_user_mfa"} ->
         {"Policy.Read.All"}
    [] OTHER -> {}

\* An empty selection means every audit; ids that no audit has are ignored.
Resolve(ids, cats) ==
  IF ids = {} /\ cats = {} THEN AuditIds
  ELSE {a \in AuditIds : a \in ids \/ CategoryOf(a) \in cats}

RequiredData(audits) == UNION {DataOf(a) : a \in audits}

\* Mutant: Policy.Read.All is always asked for.
RequiredScopesPolicy(audits) ==
  BaseScopes \cup (UNION {DataScopes(u) : u \in RequiredData(audits)})
             \cup (UNION {ExtraScopes(a) : a \in audits}) \cup {"Policy.Read.All"}

RequiredScopes(audits) ==
  BaseScopes \cup (UNION {DataScopes(u) : u \in RequiredData(audits)})
             \cup (UNION {ExtraScopes(a) : a \in audits})
=============================================================================
