---------------------------- MODULE TenantModel ----------------------------
(***************************************************************************)
(* What the rules know of a tenant: the data models of core/models.py with  *)
(* their derived values, and the lookups of core/rules/base.py and of the   *)
(* price catalog.                                                          *)
(*                                                                         *)
(* A tenant is a record:                                                   *)
(*   skus          [some of SkuIds -> seats and status]                    *)
(*   users         [some of UserIds -> account]                            *)
(*   signInKnown   is there sign-in activity (an Azure AD P1 tenant)       *)
(*   subs          [subscriptions -> next renewal, or None]                *)
(*   registration  [some of UserIds -> registration for MFA]               *)
(*   roles         [directory roles -> is it privileged, how many members] *)
(*   policies      Conditional Access policies                             *)
(*   methods       authentication methods that are enabled                 *)
(*   locations     [named locations -> their kind, and are they trusted]    *)
(*   perUser       [some of UserIds -> legacy per-user MFA state]           *)
(*   domains       [domains -> are they verified]                           *)
(*   unread        the units of these that could not be read               *)
(* A time is a number of ticks from now, two ticks to a day, so that there  *)
(* is a time within a day.  A price is in cents; rounding is left out, and  *)
(* so are names, notes and descriptions.                                   *)
(***************************************************************************)
EXTENDS Integers, FiniteSets, FiniteSetsExt, Functions

CONSTANTS SkuIds, UserIds,
          Price,      \* Price[s]: the monthly price of SKU s, or None
          Overlaps,   \* pairs of SKUs, and which of the two is redundant
          None

GlobalAdministrator == "Global Administrator"

ASSUME NoneAssumption ==
  None \notin Int \cup SkuIds \cup UserIds \cup {"member", "guest", GlobalAdministrator}
ASSUME PriceAssumption == Price \in [SkuIds -> Nat \cup {None}]
ASSUME OverlapsAssumption ==
  /\ IsFiniteSet(Overlaps)
  /\ Overlaps \subseteq {o \in [skus : SUBSET SkuIds, redundant : SkuIds] :
                           Cardinality(o.skus) = 2 /\ o.redundant \in o.skus}

Day == 2
Days(n) == n * Day

Times == Int \cup {None}

Sku == [enabled : Nat, warning : Nat, consumed : Nat, active : BOOLEAN]

User == [enabled : BOOLEAN, guest : BOOLEAN, created : Times, interactive : Times,
         background : Times, licenses : SUBSET SkuIds]

Registration == [admin : BOOLEAN, mfa : BOOLEAN, type : {"member", "guest", None}]

Role == [privileged : BOOLEAN, members : Nat]

Location == [kind : {"ip", "country", "unknown"}, flagged : BOOLEAN]

PerUserStates == {"disabled", "enabled", "enforced"}

\* The units whose availability the engine keeps a flag for, apart from users.
FlaggedUnits == {"subscriptions", "user_registration", "directory_roles", "ca_policies",
                 "auth_methods", "named_locations", "per_user_mfa", "domains"}

PolicyStates == {"enabled", "disabled", "reportOnly"}

\* Lists of words: an id, or "All", "GuestsOrExternalUsers", "all" and the like
Policy == [state : PolicyStates, users : SUBSET STRING, exclude_users : SUBSET STRING,
           roles : SUBSET STRING, exclude_roles : SUBSET STRING, groups : SUBSET STRING,
           apps : SUBSET STRING, clients : SUBSET STRING, grants : SUBSET {"mfa", "block"}]

\* A fetcher that gives up returns no rows.
NothingUnread(t) ==
  /\ "subscriptions" \in t.unread => DOMAIN t.subs = {}
  /\ "user_registration" \in t.unread => DOMAIN t.registration = {}
  /\ "directory_roles" \in t.unread => DOMAIN t.roles = {}
  /\ "ca_policies" \in t.unread => t.policies = {}
  /\ "auth_methods" \in t.unread => t.methods = {}
  /\ "named_locations" \in t.unread => DOMAIN t.locations = {}
  /\ "per_user_mfa" \in t.unread => DOMAIN t.perUser = {}
  /\ "domains" \in t.unread => DOMAIN t.domains = {}

IsTenant(t) ==
  /\ DOMAIN t.skus \subseteq SkuIds /\ IsFiniteSet(DOMAIN t.skus)
  /\ t.skus \in [DOMAIN t.skus -> Sku]
  /\ DOMAIN t.users \subseteq UserIds /\ IsFiniteSet(DOMAIN t.users)
  /\ t.users \in [DOMAIN t.users -> User]
  /\ t.subs \in [DOMAIN t.subs -> Times] /\ IsFiniteSet(DOMAIN t.subs)
  /\ DOMAIN t.registration \subseteq UserIds
  /\ t.registration \in [DOMAIN t.registration -> Registration]
  /\ t.signInKnown \in BOOLEAN
  /\ t.unread \subseteq FlaggedUnits
  /\ t.roles \in [DOMAIN t.roles -> Role]
  /\ GlobalAdministrator \in DOMAIN t.roles => t.roles[GlobalAdministrator].privileged
  /\ t.policies \subseteq Policy
  /\ t.locations \in [DOMAIN t.locations -> Location]
  /\ DOMAIN t.perUser \subseteq UserIds /\ t.perUser \in [DOMAIN t.perUser -> PerUserStates]
  /\ t.domains \in [DOMAIN t.domains -> BOOLEAN]
  /\ NothingUnread(t)

\* The flags of the units, such as ca_available
Available(t, unit) == unit \notin t.unread

-----------------------------------------------------------------------------
(* SubscribedSku *)

FreeQuotaThreshold == 10000

Usable(sku) == sku.enabled + sku.warning

\* Mutant: seats beyond those bought count as negative slack.
UnclampedSlack(sku) == Usable(sku) - sku.consumed

Slack(sku) == IF Usable(sku) > sku.consumed THEN Usable(sku) - sku.consumed ELSE 0

IsUnlimited(sku) == Usable(sku) >= FreeQuotaThreshold

ActiveSkus(t) == {s \in DOMAIN t.skus : t.skus[s].active}

-----------------------------------------------------------------------------
(* Subscription *)

\* timedelta.days rounds down, also below zero.
DaysUntilExpiry(at) == at \div Day

IsExpired(at) == at # None /\ DaysUntilExpiry(at) < 0

\* Mutant: the last day does not count.
ExpiringBefore(at, days) ==
  at # None /\ 0 <= DaysUntilExpiry(at) /\ DaysUntilExpiry(at) < days

IsExpiringWithin(at, days) ==
  at # None /\ 0 <= DaysUntilExpiry(at) /\ DaysUntilExpiry(at) <= days

-----------------------------------------------------------------------------
(* User *)

IsLicensed(user) == user.licenses # {}

EffectiveLastSignIn(user) ==
  LET seen == {user.interactive, user.background} \ {None}
  IN  IF seen = {} THEN None ELSE Max(seen)

-----------------------------------------------------------------------------
(* DirectoryRole *)

PrivilegedRoles(t) == {r \in DOMAIN t.roles : t.roles[r].privileged}

MembersOf(t, role) == IF role \in DOMAIN t.roles THEN t.roles[role].members ELSE 0

-----------------------------------------------------------------------------
(* ConditionalAccessPolicy *)

\* Mutant: a policy that only reports counts as enforced.
IsNotDisabled(p) == p.state # "disabled"

IsEnabled(p) == p.state = "enabled"

TargetsAllUsers(p) == "All" \in p.users

TargetsRole(p, role) == role \in p.roles

-----------------------------------------------------------------------------
(* NamedLocation *)

\* A country is never trusted, whatever Graph says of it.
IsTrusted(location) == location.flagged /\ location.kind # "country"

-----------------------------------------------------------------------------
(* RuleContext and PricingCatalog *)

\* The cost of the licenses that are sold to the tenant and have a price.
LicenseCost(t, licenses) ==
  SumFunctionOnSet(Price, {s \in licenses \cap DOMAIN t.skus : Price[s] # None})

\* Mutant: one SKU of the pair is enough.
FindOverlapsOfOne(skus) == {o \in Overlaps : o.skus \cap skus # {}}

FindOverlaps(skus) == {o \in Overlaps : o.skus \subseteq skus}
=============================================================================
