--------------------------- MODULE SecurityRules ---------------------------
(***************************************************************************)
(* The rules about MFA registration, administrators, Conditional Access and *)
(* other settings of a tenant: r9 to r17 of core/rules/.                    *)
(***************************************************************************)
EXTENDS LicenseRules

NoMfa(t) == {u \in DOMAIN t.registration : ~t.registration[u].mfa}

\* Mutant: administrators are listed as users, too.
UnprotectedAll(t) == {u \in NoMfa(t) : t.registration[u].type \in {"member", None}}

\* A registration without a user type is a member's.
UnprotectedMembers(t) == {u \in NoMfa(t) : /\ ~t.registration[u].admin
                                          /\ t.registration[u].type \in {"member", None}}

\* Members without MFA, no administrators
R9(t) == OneFinding("R9", "high", UnprotectedMembers(t), 0)

-----------------------------------------------------------------------------
MaxGlobalAdmins == 4

\* Administrators without MFA, and too many Global Administrators
R10(t) ==
  OneFinding("R10", "high", {u \in NoMfa(t) : t.registration[u].admin}, 0)
    \cup LET members == MembersOf(t, GlobalAdministrator)
         IN  IF members > MaxGlobalAdmins
             THEN {Finding("R10", GlobalAdministrator, "medium", 1 .. members, 0)} ELSE {}

-----------------------------------------------------------------------------
\* A baseline is reported when no policy meets it; nothing is said of policies
\* that were not read.
Baseline(rule, t, Meets(_)) ==
  IF Available(t, "ca_policies") /\ ~\E p \in t.policies : Meets(p)
  THEN {Finding(rule, None, "high", {}, 0)} ELSE {}

GrantsMfaAll(p) == /\ IsEnabled(p) /\ TargetsAllUsers(p)
                   /\ "All" \in p.apps /\ "mfa" \in p.grants

BlocksLegacy(p) == /\ IsEnabled(p) /\ "block" \in p.grants
                   /\ p.clients \cap {"exchangeActiveSync", "other"} # {}
                   /\ TargetsAllUsers(p) \/ p.roles # {} \/ p.groups # {}

CoversGlobalAdmins(p) == /\ IsEnabled(p) /\ "mfa" \in p.grants
                         /\ TargetsAllUsers(p) \/ TargetsRole(p, GlobalAdministrator)

R11(t) == Baseline("R11", t, GrantsMfaAll)
R12(t) == Baseline("R12", t, BlocksLegacy)
R15(t) == Baseline("R15", t, CoversGlobalAdmins)

-----------------------------------------------------------------------------
\* Reviews: one finding that lists what is worth a look.
Review(rule, t, unit, severity, rows) ==
  IF Available(t, unit) THEN OneFinding(rule, severity, rows, 0) ELSE {}

Recommended == {"MicrosoftAuthenticator", "Fido2"}
Discouraged == {"Sms", "Voice"}

\* Authentication methods that deviate from the baseline
R13(t) == Review("R13", t, "auth_methods", "medium",
                 (Recommended \ t.methods) \cup (Discouraged \cap t.methods))

\* Trusted locations
R14(t) == Review("R14", t, "named_locations", "medium",
                 {l \in DOMAIN t.locations : IsTrusted(t.locations[l])})

\* Accounts whose legacy per-user MFA is not enforced
R16(t) == Review("R16", t, "per_user_mfa", "info",
                 {u \in DOMAIN t.perUser : t.perUser[u] # "enforced"})

\* All domains, of which some may be unverified
R17(t) == Review("R17", t, "domains",
                 IF \E d \in DOMAIN t.domains : ~t.domains[d] THEN "medium" ELSE "info",
                 DOMAIN t.domains)
=============================================================================
