----------------------------- MODULE TenantUnits -----------------------------
(***************************************************************************)
(* The units of tenant data and the order in which                          *)
(* engine.fetch_tenant_data reads them.                                     *)
(***************************************************************************)
EXTENDS Naturals

\* The position of each unit's block in fetch_tenant_data.
Rank == [organization |-> 1, skus |-> 2, subscriptions |-> 3, users |-> 4,
         user_registration |-> 5, directory_roles |-> 6, ca_policies |-> 7,
         named_locations |-> 8, auth_methods |-> 9, per_user_mfa |-> 10,
         domains |-> 11]

Units == {"organization", "skus", "subscriptions", "users",
          "user_registration", "directory_roles", "ca_policies",
          "named_locations", "auth_methods", "per_user_mfa", "domains"}

\* Without these there is no audit: their fetchers let a GraphError through.
Essential == {"organization", "skus", "users"}

\* The unit that is read next, when those of S are left.
FirstOf(u, S) == u \in S /\ \A v \in S : Rank[u] <= Rank[v]
=============================================================================
