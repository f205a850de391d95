------------------------------ MODULE MCAuditRun ------------------------------
(* The constants of the AuditRun runs. *)
EXTENDS AuditRun

Connected(by, ids, cats, device, app, domain) ==
  [by |-> by, ids |-> ids, cats |-> cats, device |-> device, app |-> app, domain |-> domain]

Web(ids) == Connected("web", ids, {}, FALSE, TRUE, FALSE)
Cli(ids, cats) == Connected("cli", ids, cats, FALSE, TRUE, FALSE)

\* No selection, every audit and every pair of audits, an id that no audit has
\* (alone and next to a real one), the CLI's categories with and without ids, and
\* every way to connect.
MCSelections ==
  {Web({}), Web({"idn-old"}), Web({"idn-old", "lic-unassigned"}), Cli({}, {}),
   Cli({"idn-old"}, {}), Cli({}, {"Exchange"}),
   Cli({"sec-allowed-domains"}, {"Licensing & cost"})}
  \cup {Web({a, b}) : a, b \in AuditIds}
  \cup {Cli({}, {c}) : c \in Categories}
  \cup {Connected("cli", {"lic-unassigned"}, {}, device, app, domain) :
          device \in BOOLEAN, app \in BOOLEAN, domain \in BOOLEAN}

\* A tenant without problems, one with all of them, and two with some.
MCIssueSets ==
  {{}, Checks,
   {"lic-inactive", "inactive-review", "many-global-admins", "sec-ca-require-mfa-all"},
   {"inactive-review", "admins-without-mfa", "sec-trusted-locations",
    "idn-peruser-mfa-state", "lic-duplicate"}}
=============================================================================
