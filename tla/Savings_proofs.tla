--------------------------- MODULE Savings_proofs ---------------------------
(***************************************************************************)
(* Theorems about the sums of Analysis: seats, prices and savings.          *)
(***************************************************************************)
EXTENDS Analysis_proofs, SumTheorems

\* The prices as numbers
Prices(t) == [s \in DOMAIN t.skus |-> KnownPrice(s)]

\* Which SKUs a user holds that the tenant has
Held(t, u) == t.users[u].licenses \cap DOMAIN t.skus

\* What the licenses of each user cost
Costs(t) == [u \in DOMAIN t.users |-> SumFunctionOnSet(Prices(t), Held(t, u))]

\* How many of some users hold a SKU
HoldersAmong(t, users, s) == Cardinality({u \in users : s \in Held(t, u)})

-----------------------------------------------------------------------------
(* The types of what is added up *)

\* A price that is not known counts as none.
LEMMA KnownPriceType == ASSUME NEW s \in SkuIds PROVE KnownPrice(s) \in Nat
  BY PriceAssumption DEF KnownPrice

\* What a tenant has: finitely many SKUs and users, and numbers of seats.
LEMMA TenantTypes ==
  ASSUME NEW t, IsTenant(t)
  PROVE  /\ IsFiniteSet(DOMAIN t.skus) /\ DOMAIN t.skus \subseteq SkuIds
         /\ IsFiniteSet(DOMAIN t.users)
         /\ \A s \in DOMAIN t.skus :
              /\ t.skus[s].enabled \in Nat /\ t.skus[s].warning \in Nat
              /\ t.skus[s].consumed \in Nat /\ t.skus[s].active \in BOOLEAN
  BY DEF IsTenant, Sku

\* Usable and unused seats are numbers: an overbooked SKU has no unused seats.
LEMMA SeatTypes ==
  ASSUME NEW t, IsTenant(t), NEW s \in DOMAIN t.skus
  PROVE  /\ Usable(t.skus[s]) \in Nat /\ Slack(t.skus[s]) \in Nat
         /\ t.skus[s].consumed \in Nat /\ IsUnlimited(t.skus[s]) \in BOOLEAN
  BY TenantTypes DEF Usable, Slack, IsUnlimited

\* Prices are numbers, also those that are not known.
LEMMA PricesType ==
  ASSUME NEW t, IsTenant(t)
  PROVE  \A s \in DOMAIN t.skus : Prices(t)[s] \in Nat /\ Prices(t)[s] = KnownPrice(s)
  BY TenantTypes, KnownPriceType DEF Prices

\* What a user costs is a number.
LEMMA CostsType ==
  ASSUME NEW t, IsTenant(t)
  PROVE  \A u \in DOMAIN t.users : Costs(t)[u] \in Nat
<1> TAKE u \in DOMAIN t.users
<1>1. IsFiniteSet(Held(t, u)) /\ Held(t, u) \subseteq DOMAIN t.skus
  BY TenantTypes, FS_Subset DEF Held
<1>2. SumFunctionOnSet(Prices(t), Held(t, u)) \in Nat
  BY <1>1, PricesType, SumNat
<1> QED BY <1>2 DEF Costs

-----------------------------------------------------------------------------
(* What users cost *)

\* Prices that are not known count nothing.
LEMMA LicenseCostIs ==
  ASSUME NEW t, IsTenant(t), NEW licenses
  PROVE  LicenseCost(t, licenses) = SumFunctionOnSet(Prices(t), licenses \cap DOMAIN t.skus)
<1> DEFINE all == licenses \cap DOMAIN t.skus
           known == {s \in all : Price[s] # None}
<1>1. IsFiniteSet(all) /\ IsFiniteSet(known) /\ known \in SUBSET all /\ all \subseteq DOMAIN t.skus
  BY TenantTypes, FS_Subset
<1>2. \A s \in all : Prices(t)[s] \in Int /\ Prices(t)[s] = KnownPrice(s)
  BY <1>1, PricesType
<1>3. \A s \in known : Price[s] = Prices(t)[s]
  BY <1>1, <1>2 DEF KnownPrice
<1>4. \A s \in all : Prices(t)[s] = IF s \in known THEN Prices(t)[s] ELSE 0
  BY <1>2 DEF KnownPrice
<1>5. LicenseCost(t, licenses) = SumFunctionOnSet(Price, known)
  BY DEF LicenseCost
<1> HIDE DEF all, known
<1>6. SumFunctionOnSet(Price, known) = SumFunctionOnSet(Prices(t), known)
  BY <1>1, <1>3, SumCongruent
<1>7. SumFunctionOnSet(Prices(t), all) = SumFunctionOnSet(Prices(t), known)
  BY <1>1, <1>2, <1>4, SumRestrict
<1> QED BY <1>5, <1>6, <1>7 DEF all

\* CostOf adds up what each of the users costs.
LEMMA CostOfIs ==
  ASSUME NEW t, IsTenant(t), NEW users \in SUBSET DOMAIN t.users
  PROVE  /\ CostOf(t, users) = SumFunctionOnSet(Costs(t), users)
         /\ CostOf(t, users) \in Nat
<1> DEFINE cost == [u \in users |-> LicenseCost(t, t.users[u].licenses)]
<1>1. IsFiniteSet(users)
  BY TenantTypes, FS_Subset
<1>2. \A u \in users : cost[u] = Costs(t)[u]
  BY LicenseCostIs DEF Costs, Held
<1>3. CostOf(t, users) = SumFunctionOnSet(cost, users)
  <2>1. DOMAIN cost = users
    OBVIOUS
  <2>2. CostOf(t, users) = SumFunction(cost)
    BY DEF CostOf
  <2> HIDE DEF cost
  <2> QED BY <2>1, <2>2 DEF SumFunction
<1> HIDE DEF cost
<1>4. SumFunctionOnSet(cost, users) = SumFunctionOnSet(Costs(t), users)
  BY <1>1, <1>2, SumCongruent
<1>5. SumFunctionOnSet(Costs(t), users) \in Nat
  BY <1>1, CostsType, SumNat
<1> QED BY <1>3, <1>4, <1>5

\* Holders are counted among those who hold the SKU, whether sold or not.
LEMMA HoldersAmongType ==
  ASSUME NEW t, IsTenant(t), NEW users \in SUBSET DOMAIN t.users, NEW s \in DOMAIN t.skus
  PROVE  /\ HoldersAmong(t, users, s) \in Nat
         /\ HoldersAmong(t, users, s) = Cardinality({u \in users : s \in t.users[u].licenses})
<1>1. {u \in users : s \in Held(t, u)} = {u \in users : s \in t.users[u].licenses}
  BY DEF Held
<1>2. IsFiniteSet({u \in users : s \in Held(t, u)})
  BY TenantTypes, FS_Subset
<1> QED BY <1>1, <1>2, FS_CardinalityType DEF HoldersAmong

\* What users cost is the price of each SKU for each of them who holds it.
LEMMA CostByHolders ==
  ASSUME NEW t, IsTenant(t), NEW users \in SUBSET DOMAIN t.users
  PROVE  CostOf(t, users) = SumFunctionOnSet(
           [s \in DOMAIN t.skus |-> KnownPrice(s) * HoldersAmong(t, users, s)], DOMAIN t.skus)
<1> DEFINE skus == DOMAIN t.skus
           held == [u \in users |-> Held(t, u)]
           paid == [u \in users |-> SumFunctionOnSet(Prices(t), held[u])]
           byHolders == [s \in skus |-> Prices(t)[s] * Cardinality({u \in users : s \in held[u]})]
           goal == [s \in skus |-> KnownPrice(s) * HoldersAmong(t, users, s)]
<1>1. IsFiniteSet(users) /\ IsFiniteSet(skus)
  BY TenantTypes, FS_Subset
<1>2. \A u \in users : held[u] \subseteq skus
  BY DEF Held
<1>3. \A s \in skus : Prices(t)[s] \in Nat
  BY PricesType
<1>4. SumFunctionOnSet(paid, users) = SumFunctionOnSet(byHolders, skus)
  <2> HIDE DEF held, skus
  <2> QED BY <1>1, <1>2, <1>3, SumByHolders
<1>5. \A u \in users : paid[u] = Costs(t)[u]
  BY DEF Costs
<1>6. SumFunctionOnSet(paid, users) = CostOf(t, users)
  <2> HIDE DEF paid
  <2> QED BY <1>1, <1>5, CostOfIs, SumCongruent
<1>7. \A s \in skus : byHolders[s] = goal[s]
  <2> TAKE s \in skus
  <2>1. {u \in users : s \in held[u]} = {u \in users : s \in Held(t, u)}
    OBVIOUS
  <2> QED BY <2>1, PricesType DEF HoldersAmong
<1>8. SumFunctionOnSet(byHolders, skus) = SumFunctionOnSet(goal, skus)
  <2> HIDE DEF byHolders, goal, skus
  <2> QED BY <1>1, <1>7, SumCongruent
<1> QED BY <1>4, <1>6, <1>8

-----------------------------------------------------------------------------
(* What findings save *)

\* Finitely many findings, of which each saves something or nothing
Amounts(F) == IsFiniteSet(F) /\ \A f \in F : f.savings \in Nat

\* The savings of some of the findings are a sum over them.
LEMMA TotalSavingsIs ==
  ASSUME NEW F, Amounts(F), NEW G \in SUBSET F
  PROVE  /\ Amounts(G) /\ TotalSavings(G) \in Nat
         /\ TotalSavings(G) = SumFunctionOnSet([f \in F |-> f.savings], G)
<1> DEFINE all == [f \in F |-> f.savings]
           own == [f \in G |-> f.savings]
<1>1. IsFiniteSet(G) /\ Amounts(G)
  BY FS_Subset DEF Amounts
<1>2. TotalSavings(G) = SumFunctionOnSet(own, G)
  <2>1. DOMAIN own = G /\ TotalSavings(G) = SumFunction(own)
    BY DEF TotalSavings
  <2> HIDE DEF own
  <2> QED BY <2>1 DEF SumFunction
<1>3. \A f \in G : own[f] = all[f] /\ all[f] \in Nat
  BY DEF Amounts
<1> HIDE DEF own, all
<1>4. SumFunctionOnSet(own, G) = SumFunctionOnSet(all, G) /\ SumFunctionOnSet(all, G) \in Nat
  BY <1>1, <1>3, SumCongruent, SumNat
<1> QED BY <1>1, <1>2, <1>4 DEF all

\* Findings that are apart save what each part saves.
LEMMA TotalSavingsUnion ==
  ASSUME NEW F, Amounts(F), NEW G, Amounts(G), F \cap G = {}
  PROVE  Amounts(F \cup G) /\ TotalSavings(F \cup G) = TotalSavings(F) + TotalSavings(G)
<1> DEFINE all == [f \in F \cup G |-> f.savings]
<1>1. Amounts(F \cup G) /\ IsFiniteSet(F) /\ IsFiniteSet(G)
  BY FS_Union DEF Amounts
<1>2. /\ TotalSavings(F) = SumFunctionOnSet(all, F)
      /\ TotalSavings(G) = SumFunctionOnSet(all, G)
      /\ TotalSavings(F \cup G) = SumFunctionOnSet(all, F \cup G)
  BY <1>1, TotalSavingsIs
<1>3. \A f \in F \cup G : all[f] \in Int
  BY <1>1 DEF Amounts
<1> HIDE DEF all
<1>4. SumFunctionOnSet(all, F \cup G) = SumFunctionOnSet(all, F) + SumFunctionOnSet(all, G)
  BY <1>1, <1>3, SumUnion
<1> QED BY <1>1, <1>2, <1>4

\* No findings save nothing.
LEMMA NoFindings == Amounts({}) /\ TotalSavings({}) = 0
<1>1. Amounts({})
  BY FS_EmptySet DEF Amounts
<1>2. TotalSavings({}) = SumFunctionOnSet([f \in {} |-> f.savings], {})
  BY <1>1, TotalSavingsIs
<1> QED BY <1>1, <1>2, SumEmpty

\* A finding for a group of users saves at most what is claimed for them.
LEMMA SavingsOfOne ==
  ASSUME NEW rule, NEW severity, NEW affected, NEW n \in Nat
  PROVE  /\ Amounts(OneFinding(rule, severity, affected, n))
         /\ TotalSavings(OneFinding(rule, severity, affected, n)) <= n
<1> DEFINE one == Finding(rule, None, severity, affected, n)
           amount == [f \in {one} |-> f.savings]
<1>1. CASE affected = {}
  <2>1. OneFinding(rule, severity, affected, n) = {}
    BY <1>1 DEF OneFinding
  <2> QED BY <2>1, NoFindings
<1>2. CASE affected # {}
  <2>1. OneFinding(rule, severity, affected, n) = {one}
    BY <1>2 DEF OneFinding
  <2>2. one.savings = n
    BY DEF Finding
  <2> HIDE DEF one
  <2>3. Amounts({one})
    BY <2>2, FS_Singleton DEF Amounts
  <2>4. TotalSavings({one}) = SumFunctionOnSet(amount, {one}) /\ amount[one] = n
    BY <2>2, <2>3, TotalSavingsIs
  <2> HIDE DEF amount
  <2>5. SumFunctionOnSet(amount, {one}) = n
    BY <2>4, SumOne
  <2> QED BY <2>1, <2>3, <2>4, <2>5
<1> QED BY <1>1, <1>2

\* A bound on what a rule may find bounds what it finds if it was not selected.
LEMMA SavingsAtMost ==
  ASSUME NEW F, Amounts(F), NEW n \in Nat, TotalSavings(F) <= n, NEW G, G = F \/ G = {}
  PROVE  Amounts(G) /\ TotalSavings(G) \in Nat /\ TotalSavings(G) <= n
<1>1. F \in SUBSET F
  OBVIOUS
<1>2. TotalSavings(F) \in Nat
  BY <1>1, TotalSavingsIs
<1> QED BY <1>2, NoFindings

\* Findings made one for each of some SKUs save what they save for each.
LEMMA SavingsBySku ==
  ASSUME NEW t, IsTenant(t), NEW skus \in SUBSET DOMAIN t.skus,
         NEW finding, NEW cost,
         \A s \in skus : /\ finding[s].about = s
                         /\ finding[s].savings = cost[s] /\ cost[s] \in Nat
  PROVE  /\ Amounts({finding[s] : s \in skus})
         /\ TotalSavings({finding[s] : s \in skus}) = SumFunctionOnSet(cost, skus)
<1> DEFINE F == {finding[s] : s \in skus}
           amount == [f \in F |-> f.savings]
<1>1. IsFiniteSet(skus)
  BY TenantTypes, FS_Subset
<1>2. \A x, y \in skus : finding[x] = finding[y] => x = y
  <2> TAKE x, y \in skus
  <2>1. finding[x].about = x /\ finding[y].about = y
    OBVIOUS
  <2> QED BY <2>1
<1>3. IsFiniteSet(F)
  <2> DEFINE image == [s \in skus |-> finding[s]]
  <2>1. image \in Surjection(skus, F)
    BY DEF Surjection
  <2> QED BY <1>1, <2>1, FS_Surjection
<1>4. Amounts(F)
  BY <1>3 DEF Amounts
<1>5. TotalSavings(F) = SumFunctionOnSet(amount, F)
  BY <1>4, TotalSavingsIs
<1>6. \A s \in skus : amount[finding[s]] \in Int /\ cost[s] = amount[finding[s]]
  OBVIOUS
<1> HIDE DEF amount
<1>7. SumFunctionOnSet(amount, {finding[s] : s \in skus}) = SumFunctionOnSet(cost, skus)
  BY <1>1, <1>2, <1>6, SumRenamed
<1> QED BY <1>4, <1>5, <1>7

-----------------------------------------------------------------------------
(* What each rule saves, on the tenant of the findings *)

\* The findings under the name of a rule are what that rule finds, if selected.
LEMMA OfRule ==
  ASSUME FindingsInv, findings # None, NEW rule \in AllRuleIds
  PROVE  Of(rule) = IF rule \in RuleIds THEN Evaluate(rule, tenant) ELSE {}
<1>1. CASE rule \in RuleIds
  BY <1>1, FindingsOfRule
<1>2. CASE rule \notin RuleIds
  BY <1>2, RuleOfFinding, RuleIdsAssumption DEF FindingsInv, Of
<1> QED BY <1>1, <1>2

\* Every tenant that is analysed has the types of a tenant.
LEMMA TenantIs == ASSUME FindingsInv PROVE IsTenant(tenant)
  BY TenantSetAssumption DEF FindingsInv

\* Users that R1 finds: disabled, with a license
Disabled(t) == {u \in DOMAIN t.users : ~t.users[u].enabled /\ IsLicensed(t.users[u])}

\* Users that R2 may find: in use for long enough, and not active
InactiveUsers(t) == {u \in DOMAIN t.users : LongLived(t.users[u]) /\ IsInactive(t.users[u])}

\* Users that R7 finds: guests with a license
LicensedGuests(t) == {u \in DOMAIN t.users : t.users[u].guest /\ IsLicensed(t.users[u])}

\* R1 saves at most what the disabled users cost.
LEMMA SavingsOfR1 ==
  ASSUME FindingsInv, findings # None
  PROVE  /\ Amounts(Of("R1")) /\ TotalSavings(Of("R1")) \in Nat
         /\ TotalSavings(Of("R1")) <= CostOf(tenant, Disabled(tenant))
<1> DEFINE affected == Disabled(tenant)
<1>1. CostOf(tenant, affected) \in Nat
  BY TenantIs, CostOfIs DEF Disabled
<1>2. R1(tenant) = OneFinding("R1", "high", affected, CostOf(tenant, affected))
  BY DEF R1, Disabled
<1>3. Of("R1") = IF "R1" \in RuleIds THEN R1(tenant) ELSE {}
  BY OfRule DEF AllRuleIds, Evaluate
<1>4. Amounts(R1(tenant)) /\ TotalSavings(R1(tenant)) <= CostOf(tenant, affected)
  BY <1>1, <1>2, SavingsOfOne
<1>5. Of("R1") = R1(tenant) \/ Of("R1") = {}
  BY <1>3
<1> HIDE DEF affected
<1>6. /\ Amounts(Of("R1")) /\ TotalSavings(Of("R1")) \in Nat
      /\ TotalSavings(Of("R1")) <= CostOf(tenant, affected)
  BY <1>1, <1>4, <1>5, SavingsAtMost
<1> QED BY <1>6 DEF affected

\* R2 saves at most what the inactive users cost.
LEMMA SavingsOfR2 ==
  ASSUME FindingsInv, findings # None
  PROVE  /\ Amounts(Of("R2")) /\ TotalSavings(Of("R2")) \in Nat
         /\ TotalSavings(Of("R2")) <= CostOf(tenant, InactiveUsers(tenant))
<1> DEFINE affected == InactiveUsers(tenant)
<1>1. CostOf(tenant, affected) \in Nat
  BY TenantIs, CostOfIs DEF InactiveUsers
<1>2. R2(tenant) = IF tenant.signInKnown
                   THEN OneFinding("R2", "medium", affected, CostOf(tenant, affected))
                   ELSE OneFinding("R2", "info", Candidates(tenant), 0)
  BY DEF R2, Inactive, InactiveUsers
<1>3. Of("R2") = IF "R2" \in RuleIds THEN R2(tenant) ELSE {}
  BY OfRule DEF AllRuleIds, Evaluate
<1>4. Amounts(R2(tenant)) /\ TotalSavings(R2(tenant)) <= CostOf(tenant, affected)
  <2>1. CASE tenant.signInKnown
    BY <1>1, <1>2, <2>1, SavingsOfOne
  <2>2. CASE ~tenant.signInKnown
    <3>1. /\ Amounts(OneFinding("R2", "info", Candidates(tenant), 0))
          /\ TotalSavings(OneFinding("R2", "info", Candidates(tenant), 0)) <= 0
      BY SavingsOfOne
    <3>2. TotalSavings(R2(tenant)) \in Nat
      BY <1>2, <2>2, <3>1, TotalSavingsIs
    <3> QED BY <1>1, <1>2, <2>2, <3>1, <3>2
  <2> QED BY <2>1, <2>2
<1>5. Of("R2") = R2(tenant) \/ Of("R2") = {}
  BY <1>3
<1> HIDE DEF affected
<1>6. /\ Amounts(Of("R2")) /\ TotalSavings(Of("R2")) \in Nat
      /\ TotalSavings(Of("R2")) <= CostOf(tenant, affected)
  BY <1>1, <1>4, <1>5, SavingsAtMost
<1> QED BY <1>6 DEF affected

\* R7 saves at most what the guests cost.
LEMMA SavingsOfR7 ==
  ASSUME FindingsInv, findings # None
  PROVE  /\ Amounts(Of("R7")) /\ TotalSavings(Of("R7")) \in Nat
         /\ TotalSavings(Of("R7")) <= CostOf(tenant, LicensedGuests(tenant))
<1> DEFINE affected == LicensedGuests(tenant)
<1>1. CostOf(tenant, affected) \in Nat
  BY TenantIs, CostOfIs DEF LicensedGuests
<1>2. R7(tenant) = OneFinding("R7", "medium", affected, CostOf(tenant, affected))
  BY DEF R7, LicensedGuests
<1>3. Of("R7") = IF "R7" \in RuleIds THEN R7(tenant) ELSE {}
  BY OfRule DEF AllRuleIds, Evaluate
<1>4. Amounts(R7(tenant)) /\ TotalSavings(R7(tenant)) <= CostOf(tenant, affected)
  BY <1>1, <1>2, SavingsOfOne
<1>5. Of("R7") = R7(tenant) \/ Of("R7") = {}
  BY <1>3
<1> HIDE DEF affected
<1>6. /\ Amounts(Of("R7")) /\ TotalSavings(Of("R7")) \in Nat
      /\ TotalSavings(Of("R7")) <= CostOf(tenant, affected)
  BY <1>1, <1>4, <1>5, SavingsAtMost
<1> QED BY <1>6 DEF affected

\* What the unused seats of each SKU cost
UnusedCost(t) == [s \in DOMAIN t.skus |-> KnownPrice(s) * Slack(t.skus[s])]

\* The cost of unused seats is a number.
LEMMA UnusedCostType ==
  ASSUME NEW t, IsTenant(t)
  PROVE  \A s \in DOMAIN t.skus : UnusedCost(t)[s] \in Nat
<1> TAKE s \in DOMAIN t.skus
<1>1. KnownPrice(s) \in Nat /\ Slack(t.skus[s]) \in Nat
  BY TenantTypes, KnownPriceType, SeatTypes
<1> QED BY <1>1 DEF UnusedCost

\* R3 saves what the unused seats of the SKUs cost that it looks at.
LEMMA R3Savings ==
  ASSUME NEW t, IsTenant(t)
  PROVE  Amounts(R3(t)) /\ TotalSavings(R3(t)) = SumFunctionOnSet(UnusedCost(t), Reclaimable(t))
<1> DEFINE finding == [s \in Reclaimable(t) |->
                         Finding("R3", s, SlackSeverity(Slack(t.skus[s]), t.skus[s].enabled),
                                 {}, KnownPrice(s) * Slack(t.skus[s]))]
<1>1. Reclaimable(t) \in SUBSET DOMAIN t.skus
  BY DEF Reclaimable, ActiveSkus
<1>2. R3(t) = {finding[s] : s \in Reclaimable(t)}
  BY DEF R3
<1>3. \A s \in Reclaimable(t) : /\ finding[s].about = s
                                /\ finding[s].savings = UnusedCost(t)[s]
                                /\ UnusedCost(t)[s] \in Nat
  <2> TAKE s \in Reclaimable(t)
  <2>1. UnusedCost(t)[s] = KnownPrice(s) * Slack(t.skus[s]) /\ UnusedCost(t)[s] \in Nat
    BY <1>1, UnusedCostType DEF UnusedCost
  <2> QED BY <2>1 DEF Finding
<1> HIDE DEF finding
<1>4. /\ Amounts({finding[s] : s \in Reclaimable(t)})
      /\ TotalSavings({finding[s] : s \in Reclaimable(t)})
           = SumFunctionOnSet(UnusedCost(t), Reclaimable(t))
  BY <1>1, <1>3, SavingsBySku
<1> QED BY <1>2, <1>4

\* R3 saves at most what all unused seats cost.
LEMMA SavingsOfR3 ==
  ASSUME FindingsInv, findings # None
  PROVE  /\ Amounts(Of("R3")) /\ TotalSavings(Of("R3")) \in Nat
         /\ TotalSavings(Of("R3")) <= SumFunctionOnSet(UnusedCost(tenant), DOMAIN tenant.skus)
<1> DEFINE skus == DOMAIN tenant.skus
<1>1. Of("R3") = IF "R3" \in RuleIds THEN R3(tenant) ELSE {}
  BY OfRule DEF AllRuleIds, Evaluate
<1>2. /\ Amounts(R3(tenant))
      /\ TotalSavings(R3(tenant)) = SumFunctionOnSet(UnusedCost(tenant), Reclaimable(tenant))
  BY TenantIs, R3Savings
<1>3. Reclaimable(tenant) \in SUBSET skus
  BY DEF Reclaimable, ActiveSkus
<1>4. IsFiniteSet(skus) /\ \A s \in skus : UnusedCost(tenant)[s] \in Nat
  BY TenantIs, TenantTypes, UnusedCostType
<1> HIDE DEF skus
<1>5. /\ SumFunctionOnSet(UnusedCost(tenant), Reclaimable(tenant))
           <= SumFunctionOnSet(UnusedCost(tenant), skus)
      /\ SumFunctionOnSet(UnusedCost(tenant), skus) \in Nat
  BY <1>3, <1>4, SumSubset, SumNat
<1>6. Of("R3") = R3(tenant) \/ Of("R3") = {}
  BY <1>1
<1>7. /\ Amounts(Of("R3")) /\ TotalSavings(Of("R3")) \in Nat
      /\ TotalSavings(Of("R3")) <= SumFunctionOnSet(UnusedCost(tenant), skus)
  BY <1>2, <1>5, <1>6, SavingsAtMost
<1> QED BY <1>7 DEF skus

\* Each overlap that makes a SKU redundant may count every holder of it.
OverlapCost(t) ==
  [s \in DOMAIN t.skus |-> KnownPrice(s) * (Holders(t, s)
                                            * Cardinality({o \in Overlaps : o.redundant = s}))]

\* Somebody makes a SKU redundant at most once for each overlap of it, and holds it.
LEMMA RedundantBounded ==
  ASSUME NEW t, IsTenant(t), NEW s
  PROVE  /\ Cardinality(Redundant(t, s)) \in Nat /\ Holders(t, s) \in Nat
         /\ Cardinality({o \in Overlaps : o.redundant = s}) \in Nat
         /\ Cardinality(Redundant(t, s))
              <= Holders(t, s) * Cardinality({o \in Overlaps : o.redundant = s})
         /\ Redundant(t, s) # {} => s \in DOMAIN t.skus
<1> DEFINE holders == {u \in DOMAIN t.users : s \in t.users[u].licenses}
           causes == {o \in Overlaps : o.redundant = s}
<1>1. Redundant(t, s) \in SUBSET (holders \X causes) /\ (Redundant(t, s) # {} => s \in DOMAIN t.skus)
  BY OverlapsAssumption DEF Redundant, FindOverlaps
<1>2. IsFiniteSet(holders) /\ IsFiniteSet(causes)
  BY TenantTypes, OverlapsAssumption, FS_Subset
<1>3. Holders(t, s) = Cardinality(holders)
  BY DEF Holders
<1> HIDE DEF holders, causes
<1>4. /\ IsFiniteSet(holders \X causes)
      /\ Cardinality(holders \X causes) = Cardinality(holders) * Cardinality(causes)
  BY <1>2, FS_Product
<1>5. /\ IsFiniteSet(Redundant(t, s))
      /\ Cardinality(Redundant(t, s)) <= Cardinality(holders \X causes)
  BY <1>1, <1>4, FS_Subset
<1>6. /\ Cardinality(Redundant(t, s)) \in Nat /\ Cardinality(holders) \in Nat
      /\ Cardinality(causes) \in Nat
  BY <1>2, <1>5, FS_CardinalityType
<1> QED BY <1>1, <1>3, <1>4, <1>5, <1>6 DEF causes

\* At a price, more seats cost more.
LEMMA ProductMonotonic ==
  ASSUME NEW p \in Nat, NEW m \in Nat, NEW n \in Nat, m <= n
  PROVE  p * m \in Nat /\ p * n \in Nat /\ p * m <= p * n
  OBVIOUS

\* R4 saves at most what each holder costs, once for each overlap.
LEMMA SavingsOfR4 ==
  ASSUME FindingsInv, findings # None
  PROVE  /\ Amounts(Of("R4")) /\ TotalSavings(Of("R4")) \in Nat
         /\ TotalSavings(Of("R4")) <= SumFunctionOnSet(OverlapCost(tenant), DOMAIN tenant.skus)
<1> DEFINE t == tenant
           all == DOMAIN t.skus
           skus == {s \in SkuIds : Redundant(t, s) # {}}
           cost == [s \in all |-> Cardinality(Redundant(t, s)) * KnownPrice(s)]
           finding == [s \in skus |-> Finding("R4", s, "medium", Redundant(t, s),
                                              Cardinality(Redundant(t, s)) * KnownPrice(s))]
<1>1. IsTenant(t)
  BY TenantIs
<1>2. skus \in SUBSET all /\ IsFiniteSet(all)
  BY <1>1, RedundantBounded, TenantTypes
<1>3. \A s \in all : /\ cost[s] \in Nat /\ OverlapCost(t)[s] \in Nat
                     /\ cost[s] <= OverlapCost(t)[s]
  <2> TAKE s \in all
  <2> DEFINE n == Cardinality(Redundant(t, s))
             m == Holders(t, s) * Cardinality({o \in Overlaps : o.redundant = s})
  <2>1. n \in Nat /\ m \in Nat /\ n <= m /\ KnownPrice(s) \in Nat
    BY <1>1, RedundantBounded, TenantTypes, KnownPriceType
  <2>2. cost[s] = n * KnownPrice(s) /\ OverlapCost(t)[s] = KnownPrice(s) * m
    BY DEF OverlapCost
  <2> HIDE DEF n, m, cost
  <2>3. n * KnownPrice(s) = KnownPrice(s) * n
    BY <2>1
  <2> QED BY <2>1, <2>2, <2>3, ProductMonotonic
<1>4. R4(t) = {finding[s] : s \in skus}
  BY DEF R4
<1>5. \A s \in skus : /\ finding[s].about = s
                      /\ finding[s].savings = cost[s] /\ cost[s] \in Nat
  BY <1>2, <1>3 DEF Finding
<1>6. Of("R4") = IF "R4" \in RuleIds THEN R4(t) ELSE {}
  BY OfRule DEF AllRuleIds, Evaluate
<1> HIDE DEF t, all, skus, cost, finding
<1>7. /\ Amounts({finding[s] : s \in skus})
      /\ TotalSavings({finding[s] : s \in skus}) = SumFunctionOnSet(cost, skus)
  BY <1>1, <1>2, <1>5, SavingsBySku DEF all
<1>8. SumFunctionOnSet(cost, skus) <= SumFunctionOnSet(cost, all)
  BY <1>2, <1>3, SumSubset
<1>9. SumFunctionOnSet(cost, all) <= SumFunctionOnSet(OverlapCost(t), all)
  BY <1>2, <1>3, SumMonotonic
<1>10. /\ SumFunctionOnSet(cost, skus) \in Int /\ SumFunctionOnSet(cost, all) \in Int
       /\ SumFunctionOnSet(OverlapCost(t), all) \in Nat
  <2>1. IsFiniteSet(skus) /\ \A s \in skus : cost[s] \in Int
    BY <1>2, <1>3, FS_Subset
  <2> QED BY <1>2, <1>3, <2>1, SumInt, SumNat
<1>11. Amounts(R4(t)) /\ TotalSavings(R4(t)) <= SumFunctionOnSet(OverlapCost(t), all)
  BY <1>4, <1>7, <1>8, <1>9, <1>10
<1>12. Of("R4") = R4(t) \/ Of("R4") = {}
  BY <1>6
<1>13. /\ Amounts(Of("R4")) /\ TotalSavings(Of("R4")) \in Nat
       /\ TotalSavings(Of("R4")) <= SumFunctionOnSet(OverlapCost(t), all)
  BY <1>10, <1>11, <1>12, SavingsAtMost
<1> QED BY <1>13 DEF t, all

-----------------------------------------------------------------------------
(* No seat is saved twice *)

\* What all who hold a SKU pay for it
HolderCost(t) == [s \in DOMAIN t.skus |-> KnownPrice(s) * Holders(t, s)]

\* All users together cost the price of each SKU for each of its holders.
LEMMA CostOfAllUsers ==
  ASSUME NEW t, IsTenant(t)
  PROVE  /\ CostOf(t, DOMAIN t.users) = SumFunctionOnSet(HolderCost(t), DOMAIN t.skus)
         /\ \A s \in DOMAIN t.skus : HolderCost(t)[s] \in Nat
<1> DEFINE byHolders == [s \in DOMAIN t.skus |-> KnownPrice(s) * HoldersAmong(t, DOMAIN t.users, s)]
<1>1. \A s \in DOMAIN t.skus : HoldersAmong(t, DOMAIN t.users, s) = Holders(t, s)
  BY HoldersAmongType DEF Holders
<1>2. byHolders = HolderCost(t)
  BY <1>1 DEF HolderCost
<1>3. ASSUME NEW s \in DOMAIN t.skus PROVE HolderCost(t)[s] \in Nat
  <2>1. KnownPrice(s) \in Nat /\ Holders(t, s) \in Nat
    BY <1>1, HoldersAmongType, KnownPriceType, TenantTypes
  <2> QED BY <2>1 DEF HolderCost
<1> QED BY <1>2, <1>3, CostByHolders

\* Disabled and inactive users are different users.
LEMMA IdleUsersCost ==
  ASSUME NEW t, IsTenant(t)
  PROVE  CostOf(t, Disabled(t)) + CostOf(t, InactiveUsers(t)) <= CostOf(t, DOMAIN t.users)
<1> DEFINE a == Disabled(t)
           b == InactiveUsers(t)
           all == DOMAIN t.users
<1>1. a \in SUBSET all /\ b \in SUBSET all /\ a \cap b = {}
  BY DEF Disabled, InactiveUsers, LongLived
<1>2. IsFiniteSet(all) /\ IsFiniteSet(a) /\ IsFiniteSet(b)
  BY <1>1, TenantTypes, FS_Subset
<1>3. \A u \in all : Costs(t)[u] \in Nat
  BY CostsType
<1>4. /\ CostOf(t, a) = SumFunctionOnSet(Costs(t), a)
      /\ CostOf(t, b) = SumFunctionOnSet(Costs(t), b)
      /\ CostOf(t, all) = SumFunctionOnSet(Costs(t), all)
  BY <1>1, CostOfIs
<1> HIDE DEF a, b, all
<1>5. \A u \in a \cup b : Costs(t)[u] \in Int
  BY <1>1, <1>3
<1>6. SumFunctionOnSet(Costs(t), a \cup b) = SumFunctionOnSet(Costs(t), a) + SumFunctionOnSet(Costs(t), b)
  BY <1>1, <1>2, <1>5, SumUnion
<1>7. a \cup b \in SUBSET all
  BY <1>1
<1>8. SumFunctionOnSet(Costs(t), a \cup b) <= SumFunctionOnSet(Costs(t), all)
  BY <1>2, <1>3, <1>7, SumSubset
<1> QED BY <1>4, <1>6, <1>8 DEF a, b, all

\* Of a consistent tenant, the seats that are held and those that are not make up
\* the bill.
LEMMA BillIs ==
  ASSUME NEW t, IsTenant(t), Consistent(t)
  PROVE  /\ SumFunction(Bill(t)) = SumFunctionOnSet(HolderCost(t), DOMAIN t.skus)
                                     + SumFunctionOnSet(UnusedCost(t), DOMAIN t.skus)
         /\ SumFunction(Bill(t)) = SumFunctionOnSet(Bill(t), DOMAIN t.skus)
<1> DEFINE all == DOMAIN t.skus
<1>1. DOMAIN Bill(t) = all
  BY DEF Bill
<1>2. \A s \in all : /\ HolderCost(t)[s] \in Int /\ UnusedCost(t)[s] \in Int
                     /\ Bill(t)[s] = HolderCost(t)[s] + UnusedCost(t)[s]
  <2> TAKE s \in all
  <2> DEFINE p == KnownPrice(s)
             h == Holders(t, s)
             u == Usable(t.skus[s])
             k == Slack(t.skus[s])
  <2>1. p \in Nat /\ u \in Nat /\ k \in Nat /\ h \in Nat
    BY TenantTypes, KnownPriceType, SeatTypes, RedundantBounded
  <2>2. u = h + k
    BY <2>1 DEF Consistent, Slack
  <2>3. /\ Bill(t)[s] = p * u /\ HolderCost(t)[s] = p * h /\ UnusedCost(t)[s] = p * k
    BY DEF Bill, HolderCost, UnusedCost
  <2> HIDE DEF p, h, u, k
  <2>4. p * u = p * h + p * k /\ p * h \in Int /\ p * k \in Int
    BY <2>1, <2>2
  <2> QED BY <2>3, <2>4
<1>3. IsFiniteSet(all)
  BY TenantTypes
<1> HIDE DEF all
<1>4. SumFunctionOnSet(Bill(t), all)
        = SumFunctionOnSet(HolderCost(t), all) + SumFunctionOnSet(UnusedCost(t), all)
  BY <1>2, <1>3, SumPlus
<1>5. SumFunction(Bill(t)) = SumFunctionOnSet(Bill(t), all)
  BY <1>1 DEF SumFunction
<1> QED BY <1>4, <1>5 DEF all

\* The disabled, the inactive and the unused seats are different seats of the bill.
LEMMA ThreeRulesSave ==
  ASSUME FindingsInv, findings # None, Consistent(tenant)
  PROVE  /\ TotalSavings(Of("R1")) + TotalSavings(Of("R2")) + TotalSavings(Of("R3"))
              <= SumFunction(Bill(tenant))
         /\ SumFunction(Bill(tenant)) \in Int
<1>1. IsTenant(tenant)
  BY TenantIs
<1>2. /\ CostOf(tenant, Disabled(tenant)) \in Nat
      /\ CostOf(tenant, InactiveUsers(tenant)) \in Nat
      /\ CostOf(tenant, DOMAIN tenant.users) \in Nat
  BY <1>1, CostOfIs DEF Disabled, InactiveUsers
<1>3. SumFunctionOnSet(UnusedCost(tenant), DOMAIN tenant.skus) \in Nat
  BY <1>1, TenantTypes, UnusedCostType, SumNat
<1> QED BY <1>1, <1>2, <1>3, SavingsOfR1, SavingsOfR2, SavingsOfR3, IdleUsersCost,
           CostOfAllUsers, BillIs

\* The findings of different rules are different findings.
LEMMA OfApart ==
  ASSUME NEW r, NEW q, r # q
  PROVE  Of(r) \cap Of(q) = {}
  BY DEF Of

\* NoSeatSavedTwice holds of the findings of any selection on any tenant.
LEMMA NoSeatSavedTwiceHere ==
  ASSUME FindingsInv
  PROVE  NoSeatSavedTwice
<1> SUFFICES ASSUME findings # None, Consistent(tenant)
             PROVE  Savings({"R1", "R2", "R3"}) <= SumFunction(Bill(tenant))
  BY DEF NoSeatSavedTwice
<1>1. UNION {Of(r) : r \in {"R1", "R2", "R3"}} = (Of("R1") \cup Of("R2")) \cup Of("R3")
  OBVIOUS
<1>2. Amounts(Of("R1")) /\ Amounts(Of("R2")) /\ Amounts(Of("R3"))
  BY SavingsOfR1, SavingsOfR2, SavingsOfR3
<1>3. /\ Of("R1") \cap Of("R2") = {}
      /\ (Of("R1") \cup Of("R2")) \cap Of("R3") = {}
  BY OfApart
<1>4. /\ Amounts(Of("R1") \cup Of("R2"))
      /\ TotalSavings(Of("R1") \cup Of("R2")) = TotalSavings(Of("R1")) + TotalSavings(Of("R2"))
  BY <1>2, <1>3, TotalSavingsUnion
<1>5. TotalSavings((Of("R1") \cup Of("R2")) \cup Of("R3"))
        = TotalSavings(Of("R1")) + TotalSavings(Of("R2")) + TotalSavings(Of("R3"))
  BY <1>2, <1>3, <1>4, TotalSavingsUnion
<1> QED BY <1>1, <1>5, ThreeRulesSave DEF Savings

\* Disabled users, inactive users and unused seats are different seats: R1, R2 and
\* R3 together never save more than the bill, whatever the tenant and its prices.
THEOREM NoSeatEverSavedTwice == Spec => []NoSeatSavedTwice
<1>1. FindingsInv => NoSeatSavedTwice
  BY NoSeatSavedTwiceHere
<1> QED BY <1>1, FindingsInvariant, PTL

-----------------------------------------------------------------------------
(* The numbers of the report agree *)

\* A report is what build_result makes of the tenant it is about.
LEMMA ReportIs ==
  ASSUME SheetsInv, report # None
  PROVE  /\ FindingsInv /\ findings # None /\ IsTenant(tenant)
         /\ report = Result(tenant) /\ report.inventory = Inventory(tenant)
         /\ report.purchased = TotalPurchased(tenant) /\ report.assigned = TotalAssigned(tenant)
  BY TenantIs DEF SheetsInv, Result

\* The inventory has a row for each active SKU, with its seats.
LEMMA RowIs ==
  ASSUME NEW t, IsTenant(t)
  PROVE  /\ DOMAIN Inventory(t) = ActiveSkus(t) /\ ActiveSkus(t) \subseteq DOMAIN t.skus
         /\ PaidRows(Inventory(t)) = Counted(t) /\ Counted(t) \subseteq DOMAIN t.skus
         /\ \A s \in ActiveSkus(t) :
              /\ Inventory(t)[s].purchased = Usable(t.skus[s])
              /\ Inventory(t)[s].assigned = t.skus[s].consumed
              /\ Inventory(t)[s].slack = Slack(t.skus[s])
              /\ Inventory(t)[s].price = Price[s]
              /\ Inventory(t)[s].unlimited = IsUnlimited(t.skus[s])
<1>1. \A s \in ActiveSkus(t) :
        Inventory(t)[s] = [purchased |-> Usable(t.skus[s]), assigned |-> t.skus[s].consumed,
                           slack |-> Slack(t.skus[s]), price |-> Price[s],
                           unlimited |-> IsUnlimited(t.skus[s])]
  BY DEF Inventory
<1>2. DOMAIN Inventory(t) = ActiveSkus(t)
  BY DEF Inventory
<1>3. ActiveSkus(t) \subseteq DOMAIN t.skus
  BY DEF ActiveSkus
<1> QED BY <1>1, <1>2, <1>3 DEF PaidRows, Counted

\* The column of unused costs adds up to what R3 saves.
LEMMA UnusedColumn ==
  ASSUME NEW t, IsTenant(t)
  PROVE  LET unused == UnusedCosts(Inventory(t))
             known == {s \in DOMAIN unused : unused[s] # None}
         IN  /\ SumFunctionOnSet(unused, known) = SumFunctionOnSet(UnusedCost(t), Reclaimable(t))
             /\ SumFunctionOnSet(unused, known) <= PaidSubtotal(Inventory(t))
<1> DEFINE paid == Counted(t)
           unused == UnusedCosts(Inventory(t))
           known == {s \in DOMAIN unused : unused[s] # None}
           monthly == [s \in known |-> Inventory(t)[s].price * Inventory(t)[s].purchased]
<1>1. DOMAIN unused = paid /\ known \in SUBSET paid /\ paid \in SUBSET DOMAIN t.skus
  BY RowIs DEF UnusedCosts
<1>2. IsFiniteSet(paid) /\ IsFiniteSet(known)
  BY <1>1, TenantTypes, FS_Subset
<1>3. ASSUME NEW s \in paid
      PROVE  /\ UnusedCost(t)[s] \in Nat /\ UnusedCost(t)[s] = KnownPrice(s) * Slack(t.skus[s])
             /\ s \in known <=> Price[s] # None
             /\ s \in known => unused[s] = UnusedCost(t)[s]
             /\ s \notin known => UnusedCost(t)[s] = 0
  <2>1. s \in ActiveSkus(t) /\ s \in DOMAIN t.skus /\ s \in SkuIds
    BY <1>1, TenantTypes DEF Counted
  <2>2. UnusedCost(t)[s] \in Nat /\ UnusedCost(t)[s] = KnownPrice(s) * Slack(t.skus[s])
    BY <2>1, UnusedCostType DEF UnusedCost
  <2>3. unused[s] = IF Price[s] = None THEN None ELSE Price[s] * Slack(t.skus[s])
    BY <2>1, RowIs DEF UnusedCosts, Cost
  <2>4. Slack(t.skus[s]) \in Nat /\ (Price[s] # None => Price[s] \in Nat)
    BY <2>1, SeatTypes, PriceAssumption
  <2>5. Price[s] # None => Price[s] * Slack(t.skus[s]) \in Int
    BY <2>4
  <2>6. s \in known <=> Price[s] # None
    BY <1>1, <2>3, <2>5, NoneAssumption
  <2>7. Price[s] = None => UnusedCost(t)[s] = 0
    BY <2>2, <2>4 DEF KnownPrice
  <2>8. Price[s] # None => unused[s] = UnusedCost(t)[s]
    BY <2>2, <2>3 DEF KnownPrice
  <2> QED BY <2>2, <2>6, <2>7, <2>8
<1>4. SumFunctionOnSet(unused, known) = SumFunctionOnSet(UnusedCost(t), known)
  <2>1. \A s \in known : unused[s] = UnusedCost(t)[s]
    BY <1>1, <1>3
  <2> HIDE DEF unused, known
  <2> QED BY <1>2, <2>1, SumCongruent
<1>5. SumFunctionOnSet(UnusedCost(t), paid) = SumFunctionOnSet(UnusedCost(t), known)
  <2>1. \A s \in paid : /\ UnusedCost(t)[s] \in Int
                        /\ UnusedCost(t)[s] = IF s \in known THEN UnusedCost(t)[s] ELSE 0
    BY <1>3
  <2> HIDE DEF known, paid
  <2> QED BY <1>1, <1>2, <2>1, SumRestrict
<1>6. SumFunctionOnSet(UnusedCost(t), paid) = SumFunctionOnSet(UnusedCost(t), Reclaimable(t))
  <2>1. Reclaimable(t) \in SUBSET paid
    BY DEF Reclaimable, Counted
  <2>2. \A s \in paid : /\ UnusedCost(t)[s] \in Int
                        /\ UnusedCost(t)[s] = IF s \in Reclaimable(t) THEN UnusedCost(t)[s] ELSE 0
    <3> TAKE s \in paid
    <3>1. s \notin Reclaimable(t) => Slack(t.skus[s]) = 0
      BY <1>1, SeatTypes DEF Reclaimable, Counted
    <3>2. KnownPrice(s) \in Nat /\ KnownPrice(s) * 0 = 0
      BY <1>1, TenantTypes, KnownPriceType
    <3> HIDE DEF paid
    <3> QED BY <1>3, <3>1, <3>2
  <2> HIDE DEF paid
  <2> QED BY <1>2, <2>1, <2>2, SumRestrict
<1>7. PaidSubtotal(Inventory(t)) = SumFunctionOnSet(monthly, known)
  <2>1. {s \in PaidRows(Inventory(t)) : Inventory(t)[s].price # None} = known
    <3>1. \A s \in paid : Inventory(t)[s].price = Price[s]
      BY RowIs DEF Counted
    <3> HIDE DEF known
    <3> QED BY <1>1, <1>3, <3>1, RowIs
  <2>2. PaidSubtotal(Inventory(t)) = SumFunction(monthly)
    BY <2>1 DEF PaidSubtotal
  <2>3. DOMAIN monthly = known
    OBVIOUS
  <2> HIDE DEF monthly, known
  <2> QED BY <2>2, <2>3 DEF SumFunction
<1>8. ASSUME NEW s \in known
      PROVE  /\ UnusedCost(t)[s] \in Int /\ monthly[s] \in Int /\ UnusedCost(t)[s] <= monthly[s]
  <2> DEFINE p == KnownPrice(s)
             k == Slack(t.skus[s])
             u == Usable(t.skus[s])
  <2>1. s \in paid /\ s \in ActiveSkus(t) /\ s \in DOMAIN t.skus /\ s \in SkuIds
    BY <1>1, TenantTypes DEF Counted
  <2>2. p \in Nat /\ k \in Nat /\ u \in Nat /\ k <= u
    BY <2>1, KnownPriceType, SeatTypes DEF Slack
  <2>3. Price[s] = p
    BY <1>3, <2>1 DEF KnownPrice
  <2>4. UnusedCost(t)[s] = p * k
    BY <1>3, <2>1
  <2>5. monthly[s] = p * u
    BY <2>1, <2>3, RowIs
  <2> HIDE DEF p, k, u, monthly, known
  <2> QED BY <2>2, <2>4, <2>5, ProductMonotonic
<1>9. SumFunctionOnSet(UnusedCost(t), known) <= SumFunctionOnSet(monthly, known)
  <2> HIDE DEF monthly, known
  <2> QED BY <1>2, <1>8, SumMonotonic
<1> QED BY <1>4, <1>5, <1>6, <1>7, <1>9

\* NumbersAgree holds of the files of any report.
LEMMA NumbersAgreeHere ==
  ASSUME SheetsInv
  PROVE  NumbersAgree
<1> DEFINE t == tenant
           inventory == Inventory(t)
           paid == {s \in DOMAIN inventory : ~inventory[s].unlimited}
           purchased == [s \in paid |-> inventory[s].purchased]
           assigned == [s \in paid |-> inventory[s].assigned]
           Shown(unused) == SumFunctionOnSet(unused, {s \in DOMAIN unused : unused[s] # None})
<1> SUFFICES ASSUME report # None, "R3" \in RuleIds
             PROVE  NumbersAgree
  BY DEF NumbersAgree
<1>1. FindingsInv /\ findings # None /\ IsTenant(t) /\ report.inventory = inventory
  BY ReportIs
<1>2. Of("R3") = R3(t)
  BY <1>1, FindingsOfRule DEF Evaluate
<1>3. paid = Counted(t) /\ paid \subseteq ActiveSkus(t) /\ paid \subseteq DOMAIN t.skus
  BY <1>1, RowIs DEF PaidRows, Counted
<1>4. \A s \in paid : purchased[s] = Usable(t.skus[s]) /\ assigned[s] = t.skus[s].consumed
  BY <1>1, <1>3, RowIs
<1>5. {f.about : f \in Of("R3")} = {s \in paid : assigned[s] < purchased[s]}
  <2>1. Reclaimable(t) = {s \in paid : assigned[s] < purchased[s]}
    <3>1. ASSUME NEW s \in paid
          PROVE  Slack(t.skus[s]) > 0 <=> assigned[s] < purchased[s]
      <4>1. s \in DOMAIN t.skus
        BY <1>3
      <4>2. Usable(t.skus[s]) \in Nat /\ t.skus[s].consumed \in Nat
        BY <1>1, <4>1, SeatTypes
      <4>3. purchased[s] = Usable(t.skus[s]) /\ assigned[s] = t.skus[s].consumed
        BY <1>4
      <4> HIDE DEF purchased, assigned
      <4> QED BY <4>2, <4>3 DEF Slack
    <3> HIDE DEF purchased, assigned
    <3> QED BY <1>3, <3>1 DEF Reclaimable, Counted
  <2>2. {f.about : f \in R3(t)} = Reclaimable(t)
    <3> DEFINE F(s) == Finding("R3", s, SlackSeverity(Slack(t.skus[s]), t.skus[s].enabled),
                               {}, KnownPrice(s) * Slack(t.skus[s]))
    <3>1. \A s : F(s).about = s
      BY DEF Finding
    <3>2. R3(t) = {F(s) : s \in Reclaimable(t)}
      BY DEF R3
    <3> HIDE DEF F
    <3> QED BY <3>1, <3>2
  <2> QED BY <1>2, <2>1, <2>2
<1>6. report.purchased = SumFunction(purchased) /\ report.assigned = SumFunction(assigned)
  <2>1. purchased = [s \in Counted(t) |-> Usable(t.skus[s])]
    BY <1>3, <1>4
  <2>2. assigned = [s \in Counted(t) |-> t.skus[s].consumed]
    BY <1>3, <1>4
  <2> HIDE DEF purchased, assigned
  <2> QED BY <2>1, <2>2, ReportIs DEF TotalPurchased, TotalAssigned
<1>7. ASSUME NEW f \in Of("R3")
      PROVE  f.savings = IF Price[f.about] = None THEN 0
                         ELSE Price[f.about] * inventory[f.about].slack
  <2>1. PICK s \in Reclaimable(t) :
          f = Finding("R3", s, SlackSeverity(Slack(t.skus[s]), t.skus[s].enabled), {},
                      KnownPrice(s) * Slack(t.skus[s]))
    BY <1>2 DEF R3
  <2>2. f.about = s /\ f.savings = KnownPrice(s) * Slack(t.skus[s])
    BY <2>1 DEF Finding
  <2>3. inventory[s].slack = Slack(t.skus[s])
    BY <1>1, RowIs DEF Reclaimable
  <2>4. Slack(t.skus[s]) \in Nat
    BY <1>1, SeatTypes DEF Reclaimable, ActiveSkus
  <2> QED BY <2>2, <2>3, <2>4 DEF KnownPrice
<1>8. Savings({"R3"}) = SumFunctionOnSet(UnusedCost(t), Reclaimable(t))
  <2>1. UNION {Of(r) : r \in {"R3"}} = Of("R3")
    OBVIOUS
  <2> QED BY <1>1, <1>2, <2>1, R3Savings DEF Savings
<1>9. ASSUME sheets # None
      PROVE  /\ Savings({"R3"}) = Shown(sheets.xlsx.unused)
             /\ Savings({"R3"}) = Shown(sheets.docx.unused)
             /\ Savings({"R3"}) <= sheets.xlsx.subtotal
  <2>1. /\ sheets.xlsx.unused = UnusedCosts(inventory)
        /\ sheets.docx.unused = UnusedCosts(inventory)
        /\ sheets.xlsx.subtotal = PaidSubtotal(inventory)
    BY <1>1, <1>9 DEF SheetsInv, Workbook, Document
  <2>2. /\ Shown(UnusedCosts(inventory)) = SumFunctionOnSet(UnusedCost(t), Reclaimable(t))
        /\ Shown(UnusedCosts(inventory)) <= PaidSubtotal(inventory)
    BY <1>1, UnusedColumn
  <2> HIDE DEF inventory, Shown
  <2> QED BY <1>8, <2>1, <2>2
<1> HIDE DEF inventory
<1> QED BY <1>1, <1>5, <1>6, <1>7, <1>9 DEF NumbersAgree

\* Headline, inventory, R3 and the columns of the files add up to the same.
THEOREM NumbersAlwaysAgree == Spec => []NumbersAgree
<1>1. SheetsInv => NumbersAgree
  BY NumbersAgreeHere
<1> QED BY <1>1, SheetsInvariant, PTL

-----------------------------------------------------------------------------
(* The types *)

\* The rules that put a price on what they find
PricedRules == {"R1", "R2", "R3", "R4", "R7"}

\* Each finding of each rule has a severity and saves a number, mostly nothing.
LEMMA SavingsOfEach ==
  ASSUME NEW t, IsTenant(t), NEW rule \in AllRuleIds, NEW f \in Evaluate(rule, t)
  PROVE  /\ f.severity \in Severities /\ f.savings \in Nat
         /\ rule \notin PricedRules => f.savings = 0
<1>1. ASSUME NEW id, NEW severity \in Severities, NEW affected, NEW n \in Nat,
             f \in OneFinding(id, severity, affected, n)
      PROVE  f.severity \in Severities /\ f.savings \in Nat /\ (n = 0 => f.savings = 0)
  BY <1>1 DEF OneFinding, Finding
<1>2. CASE rule = "R1"
  <2>1. CostOf(t, Disabled(t)) \in Nat
    BY CostOfIs DEF Disabled
  <2>2. f \in OneFinding("R1", "high", Disabled(t), CostOf(t, Disabled(t)))
    BY <1>2 DEF Evaluate, R1, Disabled
  <2> QED BY <1>1, <1>2, <2>1, <2>2 DEF Severities, PricedRules
<1>3. CASE rule = "R2"
  <2>1. CostOf(t, InactiveUsers(t)) \in Nat
    BY CostOfIs DEF InactiveUsers
  <2>2. \/ f \in OneFinding("R2", "medium", InactiveUsers(t), CostOf(t, InactiveUsers(t)))
        \/ f \in OneFinding("R2", "info", Candidates(t), 0)
    BY <1>3 DEF Evaluate, R2, Inactive, InactiveUsers
  <2> QED BY <1>1, <1>3, <2>1, <2>2 DEF Severities, PricedRules
<1>4. CASE rule = "R3"
  <2>1. PICK s \in Reclaimable(t) :
          f = Finding("R3", s, SlackSeverity(Slack(t.skus[s]), t.skus[s].enabled), {},
                      KnownPrice(s) * Slack(t.skus[s]))
    BY <1>4 DEF Evaluate, R3
  <2>2. KnownPrice(s) * Slack(t.skus[s]) \in Nat
    BY UnusedCostType DEF UnusedCost, Reclaimable, ActiveSkus
  <2> QED BY <1>4, <2>1, <2>2 DEF Finding, SlackSeverity, Severities, PricedRules
<1>5. CASE rule = "R4"
  <2>1. PICK s \in SkuIds : f = Finding("R4", s, "medium", Redundant(t, s),
                                        Cardinality(Redundant(t, s)) * KnownPrice(s))
    BY <1>5 DEF Evaluate, R4
  <2>2. Cardinality(Redundant(t, s)) \in Nat /\ KnownPrice(s) \in Nat
    BY RedundantBounded, KnownPriceType
  <2>3. Cardinality(Redundant(t, s)) * KnownPrice(s) \in Nat
    BY <2>2
  <2> QED BY <1>5, <2>1, <2>3 DEF Finding, Severities, PricedRules
<1>6. CASE rule = "R7"
  <2>1. CostOf(t, LicensedGuests(t)) \in Nat
    BY CostOfIs DEF LicensedGuests
  <2>2. f \in OneFinding("R7", "medium", LicensedGuests(t), CostOf(t, LicensedGuests(t)))
    BY <1>6 DEF Evaluate, R7, LicensedGuests
  <2> QED BY <1>1, <1>6, <2>1, <2>2 DEF Severities, PricedRules
<1>7. CASE rule = "R8"
  <2>1. PICK severity : /\ severity \in {"high", "medium"}
                        /\ \E affected : f \in OneFinding("R8", severity, affected, 0)
    <3> DEFINE expired == {s \in DOMAIN t.subs : IsExpired(t.subs[s])}
               soon == {s \in DOMAIN t.subs : IsExpiringWithin(t.subs[s], SoonDays)}
               worst == IF expired # {} THEN "high" ELSE "medium"
    <3>1. f \in OneFinding("R8", worst, expired \cup soon, 0)
      BY <1>7 DEF Evaluate, R8
    <3>2. worst \in {"high", "medium"}
      OBVIOUS
    <3> HIDE DEF expired, soon, worst
    <3> QED BY <3>1, <3>2
  <2> QED BY <1>1, <2>1 DEF Severities
<1>8. CASE rule = "R9"
  BY <1>1, <1>8 DEF Evaluate, R9, Severities
<1>9. CASE rule = "R10"
  <2>1. CASE f \in OneFinding("R10", "high", {u \in NoMfa(t) : t.registration[u].admin}, 0)
    BY <1>1, <2>1 DEF Severities
  <2>2. CASE f \notin OneFinding("R10", "high", {u \in NoMfa(t) : t.registration[u].admin}, 0)
    BY <1>9, <2>2 DEF Evaluate, R10, Finding, Severities
  <2> QED BY <2>1, <2>2
<1>10. CASE rule \in {"R11", "R12", "R15"}
  BY <1>10 DEF Evaluate, R11, R12, R15, Baseline, Finding, Severities
<1>11. CASE rule \in {"R13", "R14", "R16", "R17"}
  BY <1>11 DEF Evaluate, R13, R14, R16, R17, Review, OneFinding, Finding, Severities
<1> QED BY <1>2, <1>3, <1>4, <1>5, <1>6, <1>7, <1>8, <1>9, <1>10, <1>11 DEF AllRuleIds

\* The rows of the inventory and the headline are numbers.
LEMMA InventoryType ==
  ASSUME NEW t, IsTenant(t)
  PROVE  /\ Inventory(t) \in [ActiveSkus(t) -> Row]
         /\ TotalPurchased(t) \in Nat /\ TotalAssigned(t) \in Nat
<1>1. ASSUME NEW s \in ActiveSkus(t)
      PROVE  [purchased |-> Usable(t.skus[s]), assigned |-> t.skus[s].consumed,
              slack |-> Slack(t.skus[s]), price |-> Price[s],
              unlimited |-> IsUnlimited(t.skus[s])] \in Row
  <2>1. s \in DOMAIN t.skus /\ s \in SkuIds
    BY TenantTypes DEF ActiveSkus
  <2> QED BY <2>1, SeatTypes, PriceAssumption DEF Row
<1>2. Inventory(t) \in [ActiveSkus(t) -> Row]
  BY <1>1 DEF Inventory
<1>3. ASSUME NEW f, DOMAIN f = Counted(t), \A s \in Counted(t) : f[s] \in Nat
      PROVE  SumFunction(f) \in Nat
  <2>1. IsFiniteSet(Counted(t))
    BY TenantTypes, RowIs, FS_Subset
  <2> QED BY <1>3, <2>1, SumNat DEF SumFunction
<1>4. TotalPurchased(t) \in Nat
  <2> DEFINE f == [s \in Counted(t) |-> Usable(t.skus[s])]
  <2>1. DOMAIN f = Counted(t) /\ \A s \in Counted(t) : f[s] \in Nat
    BY RowIs, SeatTypes
  <2> HIDE DEF f
  <2>2. SumFunction(f) \in Nat
    BY <1>3, <2>1
  <2> QED BY <2>2 DEF TotalPurchased, f
<1>5. TotalAssigned(t) \in Nat
  <2> DEFINE f == [s \in Counted(t) |-> t.skus[s].consumed]
  <2>1. DOMAIN f = Counted(t) /\ \A s \in Counted(t) : f[s] \in Nat
    BY RowIs, SeatTypes
  <2> HIDE DEF f
  <2>2. SumFunction(f) \in Nat
    BY <1>3, <2>1
  <2> QED BY <2>2 DEF TotalAssigned, f
<1> QED BY <1>2, <1>4, <1>5

\* TypeOK holds of findings, report and files.
LEMMA TypeOKHere ==
  ASSUME SheetsInv
  PROVE  TypeOK
<1>1. FindingsInv /\ IsTenant(tenant)
  BY TenantIs DEF SheetsInv
<1>2. ASSUME findings # None, NEW f \in findings
      PROVE  f.rule \in RuleIds /\ f.severity \in Severities /\ f.savings \in Nat
  <2>1. PICK rule \in RuleIds : f \in Evaluate(rule, tenant)
    BY <1>1, <1>2 DEF FindingsInv
  <2>2. rule \in AllRuleIds
    BY RuleIdsAssumption
  <2> QED BY <1>1, <2>1, <2>2, RuleOfFinding, SavingsOfEach
<1>3. report # None => /\ report.inventory \in [ActiveSkus(tenant) -> Row]
                       /\ report.purchased \in Nat /\ report.assigned \in Nat
  BY ReportIs, InventoryType
<1>4. sheets # None => DOMAIN sheets = {"xlsx", "docx", "json"}
  BY DEF SheetsInv
<1> QED BY <1>1, <1>2, <1>3, <1>4 DEF TypeOK

\* Findings, inventory and totals are of their types: savings and seats never
\* become negative.
THEOREM TypeCorrect == Spec => []TypeOK
<1>1. SheetsInv => TypeOK
  BY TypeOKHere
<1> QED BY <1>1, SheetsInvariant, PTL

-----------------------------------------------------------------------------
(* The total of all findings *)

\* There are fifteen rules.
LEMMA RulesFinite == IsFiniteSet(AllRuleIds)
<1>1. ASSUME NEW a, NEW b, NEW c PROVE IsFiniteSet({a, b, c})
  <2>1. IsFiniteSet({a}) /\ IsFiniteSet({b}) /\ IsFiniteSet({c})
    BY FS_Singleton
  <2>2. IsFiniteSet({a} \cup {b})
    BY <2>1, FS_Union
  <2>3. IsFiniteSet(({a} \cup {b}) \cup {c})
    BY <2>1, <2>2, FS_Union
  <2>4. {a, b, c} = ({a} \cup {b}) \cup {c}
    OBVIOUS
  <2> QED BY <2>3, <2>4
<1> DEFINE A == {"R1", "R2", "R3"}
           B == {"R4", "R7", "R8"}
           C == {"R9", "R10", "R11"}
           D == {"R12", "R13", "R14"}
           E == {"R15", "R16", "R17"}
<1>2. IsFiniteSet(A) /\ IsFiniteSet(B) /\ IsFiniteSet(C) /\ IsFiniteSet(D) /\ IsFiniteSet(E)
  BY <1>1
<1>3. AllRuleIds = (((A \cup B) \cup C) \cup D) \cup E
  BY DEF AllRuleIds
<1> HIDE DEF A, B, C, D, E
<1>4. IsFiniteSet(A \cup B)
  BY <1>2, FS_Union
<1>5. IsFiniteSet((A \cup B) \cup C)
  BY <1>2, <1>4, FS_Union
<1>6. IsFiniteSet(((A \cup B) \cup C) \cup D)
  BY <1>2, <1>5, FS_Union
<1>7. IsFiniteSet((((A \cup B) \cup C) \cup D) \cup E)
  BY <1>2, <1>6, FS_Union
<1> QED BY <1>3, <1>7

\* A rule without prices makes at most two findings.
LEMMA UnpricedFinite ==
  ASSUME NEW t, NEW rule \in AllRuleIds \ PricedRules
  PROVE  IsFiniteSet(Evaluate(rule, t))
<1>1. ASSUME NEW F, F = {} \/ \E x : F = {x} PROVE IsFiniteSet(F)
  BY <1>1, FS_EmptySet, FS_Singleton
<1>2. ASSUME NEW id, NEW severity, NEW affected
      PROVE  IsFiniteSet(OneFinding(id, severity, affected, 0))
  BY <1>1 DEF OneFinding
<1>3. CASE rule = "R8"
  BY <1>2, <1>3 DEF Evaluate, R8
<1>4. CASE rule = "R9"
  BY <1>2, <1>4 DEF Evaluate, R9
<1>5. CASE rule = "R10"
  <2> DEFINE one == OneFinding("R10", "high", {u \in NoMfa(t) : t.registration[u].admin}, 0)
             members == MembersOf(t, GlobalAdministrator)
             two == IF members > MaxGlobalAdmins
                    THEN {Finding("R10", GlobalAdministrator, "medium", 1 .. members, 0)} ELSE {}
  <2>1. Evaluate(rule, t) = one \cup two
    BY <1>5 DEF Evaluate, R10
  <2>2. IsFiniteSet(one)
    BY <1>2
  <2>3. IsFiniteSet(two)
    BY <1>1
  <2> HIDE DEF one, two
  <2> QED BY <2>1, <2>2, <2>3, FS_Union
<1>6. CASE rule \in {"R11", "R12", "R15"}
  BY <1>1, <1>6 DEF Evaluate, R11, R12, R15, Baseline
<1>7. CASE rule \in {"R13", "R14", "R16", "R17"}
  <2>1. ASSUME NEW id, NEW unit, NEW severity, NEW rows
        PROVE  IsFiniteSet(Review(id, t, unit, severity, rows))
    BY <1>2, FS_EmptySet DEF Review
  <2> QED BY <1>7, <2>1 DEF Evaluate, R13, R14, R16, R17
<1> QED BY <1>3, <1>4, <1>5, <1>6, <1>7 DEF AllRuleIds, PricedRules

\* There are finitely many findings, and those of rules without prices save nothing.
LEMMA FindingsAmounts ==
  ASSUME FindingsInv, findings # None
  PROVE  /\ Amounts(findings)
         /\ \A rule \in AllRuleIds : Amounts(Of(rule))
         /\ \A f \in findings : f.rule \in AllRuleIds /\ (f.rule \notin PricedRules => f.savings = 0)
<1>1. IsTenant(tenant)
  BY TenantIs
<1>2. ASSUME NEW f \in findings
      PROVE  /\ f.rule \in AllRuleIds /\ f.savings \in Nat
             /\ f.rule \notin PricedRules => f.savings = 0
  <2>1. PICK rule \in RuleIds : f \in Evaluate(rule, tenant)
    BY DEF FindingsInv
  <2>2. rule \in AllRuleIds /\ f.rule = rule
    BY <2>1, RuleIdsAssumption, RuleOfFinding
  <2> QED BY <1>1, <2>1, <2>2, SavingsOfEach
<1>3. ASSUME NEW rule \in AllRuleIds PROVE IsFiniteSet(Of(rule))
  <2>1. CASE rule \in PricedRules
    BY <2>1, SavingsOfR1, SavingsOfR2, SavingsOfR3, SavingsOfR4, SavingsOfR7
       DEF PricedRules, Amounts
  <2>2. CASE rule \notin PricedRules
    BY <2>2, OfRule, UnpricedFinite, FS_EmptySet
  <2> QED BY <2>1, <2>2
<1>4. IsFiniteSet(findings)
  <2> DEFINE of == [rule \in AllRuleIds |-> Of(rule)]
             parts == {Of(rule) : rule \in AllRuleIds}
  <2>1. of \in Surjection(AllRuleIds, parts)
    BY DEF Surjection
  <2>2. IsFiniteSet(parts)
    BY <2>1, RulesFinite, FS_Surjection
  <2>3. findings = UNION parts
    BY <1>2 DEF Of
  <2>4. \A part \in parts : IsFiniteSet(part)
    BY <1>3
  <2> HIDE DEF parts
  <2> QED BY <2>2, <2>3, <2>4, FS_UNION
<1>5. Amounts(findings)
  BY <1>2, <1>4 DEF Amounts
<1>6. \A rule \in AllRuleIds : Amounts(Of(rule))
  BY <1>2, <1>3 DEF Amounts, Of
<1> QED BY <1>2, <1>5, <1>6

\* What all findings save is what those of the five priced rules save.
LEMMA TotalOfFive ==
  ASSUME FindingsInv, findings # None
  PROVE  TotalSavings(findings) = TotalSavings(Of("R1")) + TotalSavings(Of("R2"))
           + TotalSavings(Of("R3")) + TotalSavings(Of("R4")) + TotalSavings(Of("R7"))
<1> DEFINE all == [f \in findings |-> f.savings]
           A == Of("R1") \cup Of("R2")
           B == A \cup Of("R3")
           C == B \cup Of("R4")
           D == C \cup Of("R7")
<1>1. /\ Amounts(Of("R1")) /\ Amounts(Of("R2")) /\ Amounts(Of("R3"))
      /\ Amounts(Of("R4")) /\ Amounts(Of("R7"))
  BY SavingsOfR1, SavingsOfR2, SavingsOfR3, SavingsOfR4, SavingsOfR7
<1>2. /\ Of("R1") \cap Of("R2") = {} /\ A \cap Of("R3") = {}
      /\ B \cap Of("R4") = {} /\ C \cap Of("R7") = {}
  BY OfApart
<1>3. D \in SUBSET findings /\ \A f \in findings : f \notin D => f.rule \notin PricedRules
  BY DEF Of, PricedRules
<1> HIDE DEF A, B, C, D
<1>4. Amounts(A) /\ TotalSavings(A) = TotalSavings(Of("R1")) + TotalSavings(Of("R2"))
  BY <1>1, <1>2, TotalSavingsUnion DEF A
<1>5. Amounts(B) /\ TotalSavings(B) = TotalSavings(A) + TotalSavings(Of("R3"))
  BY <1>1, <1>2, <1>4, TotalSavingsUnion DEF B
<1>6. Amounts(C) /\ TotalSavings(C) = TotalSavings(B) + TotalSavings(Of("R4"))
  BY <1>1, <1>2, <1>5, TotalSavingsUnion DEF C
<1>7. Amounts(D) /\ TotalSavings(D) = TotalSavings(C) + TotalSavings(Of("R7"))
  BY <1>1, <1>2, <1>6, TotalSavingsUnion DEF D
<1>8. Amounts(findings) /\ \A f \in findings : f \notin D => f.savings = 0
  BY <1>3, FindingsAmounts
<1>9. findings \in SUBSET findings
  OBVIOUS
<1>10. /\ TotalSavings(findings) = SumFunctionOnSet(all, findings)
       /\ TotalSavings(D) = SumFunctionOnSet(all, D)
  BY <1>3, <1>8, <1>9, TotalSavingsIs
<1>11. \A f \in findings : all[f] \in Int /\ all[f] = IF f \in D THEN all[f] ELSE 0
  BY <1>8 DEF Amounts
<1>12. IsFiniteSet(findings)
  BY <1>8 DEF Amounts
<1> HIDE DEF all
<1>13. SumFunctionOnSet(all, findings) = SumFunctionOnSet(all, D)
  BY <1>3, <1>11, <1>12, SumRestrict
<1> QED BY <1>4, <1>5, <1>6, <1>7, <1>10, <1>13

\* How many guests hold a SKU, and what their licenses cost
GuestHolders(t, s) ==
  Cardinality({u \in DOMAIN t.users : t.users[u].guest /\ s \in t.users[u].licenses})

\* What the guests who hold a SKU pay for it
GuestCost(t) == [s \in DOMAIN t.skus |-> KnownPrice(s) * GuestHolders(t, s)]

\* The guests together cost the price of each SKU for each guest who holds it.
LEMMA GuestsCost ==
  ASSUME NEW t, IsTenant(t)
  PROVE  /\ CostOf(t, LicensedGuests(t)) = SumFunctionOnSet(GuestCost(t), DOMAIN t.skus)
         /\ \A s \in DOMAIN t.skus : GuestHolders(t, s) \in Nat
<1> DEFINE guests == LicensedGuests(t)
           byHolders == [s \in DOMAIN t.skus |-> KnownPrice(s) * HoldersAmong(t, guests, s)]
<1>1. guests \in SUBSET DOMAIN t.users
  BY DEF LicensedGuests
<1>2. ASSUME NEW s \in DOMAIN t.skus
      PROVE  HoldersAmong(t, guests, s) = GuestHolders(t, s) /\ GuestHolders(t, s) \in Nat
  <2>1. {u \in guests : s \in t.users[u].licenses}
          = {u \in DOMAIN t.users : t.users[u].guest /\ s \in t.users[u].licenses}
    BY DEF LicensedGuests, IsLicensed
  <2> QED BY <1>1, <2>1, HoldersAmongType DEF GuestHolders
<1>3. byHolders = GuestCost(t)
  BY <1>2 DEF GuestCost
<1> QED BY <1>1, <1>2, <1>3, CostByHolders

\* How often each seat may be counted, at its price
OftenCost(t) ==
  [s \in DOMAIN t.skus |-> KnownPrice(s) *
     (Usable(t.skus[s]) + GuestHolders(t, s)
        + Holders(t, s) * Cardinality({o \in Overlaps : o.redundant = s}))]

\* The bound of SavingsBounded is the bill, the guests and the overlaps.
LEMMA OftenCostIs ==
  ASSUME NEW t, IsTenant(t)
  PROVE  LET all == DOMAIN t.skus
         IN  /\ SumFunctionOnSet(OftenCost(t), all) =
                  SumFunctionOnSet(Bill(t), all) + SumFunctionOnSet(GuestCost(t), all)
                    + SumFunctionOnSet(OverlapCost(t), all)
             /\ SumFunctionOnSet(Bill(t), all) \in Nat
             /\ SumFunctionOnSet(GuestCost(t), all) \in Nat
             /\ SumFunctionOnSet(OverlapCost(t), all) \in Nat
<1> DEFINE all == DOMAIN t.skus
           two == [s \in all |-> Bill(t)[s] + GuestCost(t)[s]]
<1>1. IsFiniteSet(all)
  BY TenantTypes
<1>2. \A s \in all : /\ Bill(t)[s] \in Nat /\ GuestCost(t)[s] \in Nat
                     /\ OverlapCost(t)[s] \in Nat
                     /\ OftenCost(t)[s] = Bill(t)[s] + GuestCost(t)[s] + OverlapCost(t)[s]
  <2> TAKE s \in all
  <2> DEFINE p == KnownPrice(s)
             u == Usable(t.skus[s])
             g == GuestHolders(t, s)
             h == Holders(t, s)
             c == Cardinality({o \in Overlaps : o.redundant = s})
  <2>1. p \in Nat /\ u \in Nat /\ g \in Nat /\ h \in Nat /\ c \in Nat
    BY TenantTypes, KnownPriceType, SeatTypes, GuestsCost, RedundantBounded
  <2>2. /\ Bill(t)[s] = p * u /\ GuestCost(t)[s] = p * g /\ OverlapCost(t)[s] = p * (h * c)
        /\ OftenCost(t)[s] = p * (u + g + h * c)
    BY DEF Bill, GuestCost, OverlapCost, OftenCost
  <2> HIDE DEF p, u, g, h, c
  <2>3. h * c \in Nat
    BY <2>1
  <2>4. /\ p * u \in Nat /\ p * g \in Nat /\ p * (h * c) \in Nat
        /\ p * (u + g + h * c) = p * u + p * g + p * (h * c)
    BY <2>1, <2>3
  <2> QED BY <2>2, <2>4
<1>3. \A s \in all : two[s] = Bill(t)[s] + GuestCost(t)[s]
  OBVIOUS
<1> HIDE DEF all, two
<1>4. SumFunctionOnSet(two, all) = SumFunctionOnSet(Bill(t), all) + SumFunctionOnSet(GuestCost(t), all)
  BY <1>1, <1>2, <1>3, SumPlus
<1>5. \A s \in all : /\ two[s] \in Int /\ OverlapCost(t)[s] \in Int
                     /\ OftenCost(t)[s] = two[s] + OverlapCost(t)[s]
  BY <1>2, <1>3
<1>6. SumFunctionOnSet(OftenCost(t), all)
        = SumFunctionOnSet(two, all) + SumFunctionOnSet(OverlapCost(t), all)
  BY <1>1, <1>5, SumPlus
<1>7. /\ SumFunctionOnSet(Bill(t), all) \in Nat
      /\ SumFunctionOnSet(GuestCost(t), all) \in Nat
      /\ SumFunctionOnSet(OverlapCost(t), all) \in Nat
  BY <1>1, <1>2, SumNat
<1> QED BY <1>4, <1>6, <1>7 DEF all

\* SavingsBounded holds of the files of any report.
LEMMA SavingsBoundedHere ==
  ASSUME SheetsInv
  PROVE  SavingsBounded
<1> SUFFICES ASSUME sheets # None, Consistent(tenant)
             PROVE  \A file \in {sheets.xlsx, sheets.docx, sheets.json} :
                      file.savings <= SumFunction(OftenCost(tenant))
  BY DEF SavingsBounded, OftenCost, GuestHolders
<1> DEFINE all == DOMAIN tenant.skus
<1>1. FindingsInv /\ findings # None /\ IsTenant(tenant)
  BY ReportIs DEF SheetsInv
<1>2. \A file \in {sheets.xlsx, sheets.docx, sheets.json} : file.savings = TotalSavings(findings)
  BY DEF SheetsInv, Workbook, Document, Payload
<1>3. /\ TotalSavings(Of("R1")) + TotalSavings(Of("R2")) + TotalSavings(Of("R3"))
           <= SumFunctionOnSet(Bill(tenant), all)
  BY <1>1, ThreeRulesSave, BillIs
<1>4. TotalSavings(Of("R7")) <= SumFunctionOnSet(GuestCost(tenant), all)
  BY <1>1, SavingsOfR7, GuestsCost
<1>5. TotalSavings(Of("R4")) <= SumFunctionOnSet(OverlapCost(tenant), all)
  BY <1>1, SavingsOfR4
<1>6. /\ TotalSavings(Of("R1")) \in Nat /\ TotalSavings(Of("R2")) \in Nat
      /\ TotalSavings(Of("R3")) \in Nat /\ TotalSavings(Of("R4")) \in Nat
      /\ TotalSavings(Of("R7")) \in Nat
  BY <1>1, SavingsOfR1, SavingsOfR2, SavingsOfR3, SavingsOfR4, SavingsOfR7
<1>7. SumFunction(OftenCost(tenant)) = SumFunctionOnSet(OftenCost(tenant), all)
  BY DEF SumFunction, OftenCost
<1>8. TotalSavings(findings) <= SumFunctionOnSet(OftenCost(tenant), all)
  BY <1>1, <1>3, <1>4, <1>5, <1>6, TotalOfFive, OftenCostIs
<1> QED BY <1>2, <1>7, <1>8

\* The savings that every file shows are no more than the bill, the licenses of
\* guests once more, and those that overlaps make redundant once for each overlap.
THEOREM SavingsAlwaysBounded == Spec => []SavingsBounded
<1>1. SheetsInv => SavingsBounded
  BY SavingsBoundedHere
<1> QED BY <1>1, SheetsInvariant, PTL

-----------------------------------------------------------------------------
(* Severity *)

\* The ratio that R3 computes is at least that of the usable seats.
LEMMA QuarterUnusedIsHighHere ==
  ASSUME FindingsInv
  PROVE  QuarterUnusedIsHigh
<1> SUFFICES ASSUME findings # None, NEW f \in Of("R3"),
                    tenant.skus[f.about].enabled > 0,
                    Slack(tenant.skus[f.about]) > SmallBuffer,
                    4 * Slack(tenant.skus[f.about]) > Usable(tenant.skus[f.about])
             PROVE  f.severity = "high"
  BY DEF QuarterUnusedIsHigh
<1>1. IsTenant(tenant)
  BY TenantIs
<1>2. f \in R3(tenant)
  BY OfRule DEF AllRuleIds, Evaluate
<1>3. PICK s \in Reclaimable(tenant) :
        f = Finding("R3", s, SlackSeverity(Slack(tenant.skus[s]), tenant.skus[s].enabled),
                    {}, KnownPrice(s) * Slack(tenant.skus[s]))
  BY <1>2 DEF R3
<1> DEFINE sku == tenant.skus[s]
           slack == Slack(sku)
<1>4. f.about = s /\ f.severity = SlackSeverity(slack, sku.enabled) /\ s \in DOMAIN tenant.skus
  BY <1>3 DEF Finding, Reclaimable, ActiveSkus
<1>5. /\ sku.enabled \in Nat /\ sku.warning \in Nat /\ slack \in Nat /\ sku.enabled > 0
      /\ slack > SmallBuffer /\ 4 * slack > Usable(sku)
  BY <1>1, <1>4, TenantTypes, SeatTypes
<1>6. Usable(sku) = sku.enabled + sku.warning
  BY DEF Usable
<1> HIDE DEF sku, slack
<1> QED BY <1>4, <1>5, <1>6 DEF SlackSeverity, SmallBuffer

\* If more than a quarter of what can be used is unused, and more than a buffer,
\* R3 calls it high, unless all seats are in grace: then the ratio counts as zero.
THEOREM HighUnlessAllInGrace == Spec => []QuarterUnusedIsHigh
<1>1. FindingsInv => QuarterUnusedIsHigh
  BY QuarterUnusedIsHighHere
<1> QED BY <1>1, FindingsInvariant, PTL
=============================================================================
