--------------------------- MODULE LicenseRules ---------------------------
(***************************************************************************)
(* The rules about licenses: r1, r2, r3, r4, r7 and r8 of core/rules/, each *)
(* the set of findings it makes of a tenant.                               *)
(***************************************************************************)
EXTENDS TenantModel

Severities == {"info", "low", "medium", "high"}

\* about is the SKU a finding is about, where a rule makes several.
Finding(rule, about, severity, affected, savings) ==
  [rule |-> rule, about |-> about, severity |-> severity,
   affected |-> affected, savings |-> savings]

\* One finding for all that is affected, and none if nothing is.
OneFinding(rule, severity, affected, savings) ==
  IF affected = {} THEN {} ELSE {Finding(rule, None, severity, affected, savings)}

KnownPrice(s) == IF Price[s] = None THEN 0 ELSE Price[s]

\* Mutant: the loop runs over all users.
CostOfAll(t, users) ==
  SumFunction([u \in DOMAIN t.users |-> LicenseCost(t, t.users[u].licenses)])

CostOf(t, users) ==
  SumFunction([u \in users |-> LicenseCost(t, t.users[u].licenses)])

-----------------------------------------------------------------------------
\* Licenses of disabled users
R1(t) ==
  LET affected == {u \in DOMAIN t.users : ~t.users[u].enabled /\ IsLicensed(t.users[u])}
  IN  OneFinding("R1", "high", affected, CostOf(t, affected))

-----------------------------------------------------------------------------
\* Licenses of users with no sign-in in 90 days

InactiveDays == 90
GraceDays == 30

IsNew(user) == user.created # None /\ user.created > -Days(GraceDays)

\* Mutant: disabled accounts count, too.
LongLivedOrDisabled(user) == IsLicensed(user) /\ ~IsNew(user)

LongLived(user) == user.enabled /\ IsLicensed(user) /\ ~IsNew(user)

IsInactive(user) == LET last == EffectiveLastSignIn(user)
                    IN  last = None \/ last < -Days(InactiveDays)

\* Mutant: without activity data, accounts of unknown age are not listed.
DatedCandidates(t) == {u \in DOMAIN t.users : /\ LongLived(t.users[u])
                                              /\ t.users[u].created # None}

\* Without activity data, whom to look at by hand
Candidates(t) == {u \in DOMAIN t.users : LongLived(t.users[u])}

\* Whom R2 calls inactive, when there is activity data
Inactive(t) ==
  LET affected == {u \in DOMAIN t.users : LongLived(t.users[u]) /\ IsInactive(t.users[u])}
  IN  OneFinding("R2", "medium", affected, CostOf(t, affected))

R2(t) == IF t.signInKnown THEN Inactive(t) ELSE OneFinding("R2", "info", Candidates(t), 0)

-----------------------------------------------------------------------------
\* Purchased seats that are assigned to nobody

SmallBuffer == 2

\* The ratios 0.25 and 0.10, of the seats that are not in grace
SlackSeverity(slack, purchased) ==
  IF slack <= SmallBuffer THEN "info"
  ELSE IF purchased > 0 /\ 4 * slack > purchased THEN "high"
  ELSE IF purchased > 0 /\ 10 * slack > purchased THEN "medium" ELSE "low"

\* Mutant: the seats of suspended subscriptions are reclaimed, too.
ReclaimableOfAll(t) == {s \in DOMAIN t.skus : ~IsUnlimited(t.skus[s]) /\ Slack(t.skus[s]) > 0}

Reclaimable(t) == {s \in ActiveSkus(t) : ~IsUnlimited(t.skus[s]) /\ Slack(t.skus[s]) > 0}

\* Mutant: the ratio is taken over the seats in use, which may be none.
R3OverConsumed(t) ==
  {Finding("R3", s, SlackSeverity(Slack(t.skus[s]), t.skus[s].consumed), {},
           KnownPrice(s) * Slack(t.skus[s])) : s \in Reclaimable(t)}

R3(t) ==
  {Finding("R3", s, SlackSeverity(Slack(t.skus[s]), t.skus[s].enabled), {},
           KnownPrice(s) * Slack(t.skus[s])) : s \in Reclaimable(t)}

-----------------------------------------------------------------------------
\* A user has two licenses of which one includes the other: each user with each
\* overlap that makes SKU s redundant.
Redundant(t, s) ==
  {h \in (DOMAIN t.users) \X Overlaps :
     h[2].redundant = s /\ h[2] \in FindOverlaps(t.users[h[1]].licenses \cap DOMAIN t.skus)}

R4(t) ==
  {Finding("R4", s, "medium", Redundant(t, s), Cardinality(Redundant(t, s)) * KnownPrice(s)) :
     s \in {x \in SkuIds : Redundant(t, x) # {}}}

-----------------------------------------------------------------------------
\* Licenses of guests
R7(t) ==
  LET affected == {u \in DOMAIN t.users : t.users[u].guest /\ IsLicensed(t.users[u])}
  IN  OneFinding("R7", "medium", affected, CostOf(t, affected))

-----------------------------------------------------------------------------
\* Subscriptions that have expired, or will within 30 days

SoonDays == 30

R8(t) ==
  LET expired == {s \in DOMAIN t.subs : IsExpired(t.subs[s])}
      soon == {s \in DOMAIN t.subs : IsExpiringWithin(t.subs[s], SoonDays)}
  IN  OneFinding("R8", IF expired # {} THEN "high" ELSE "medium", expired \cup soon, 0)
=============================================================================
