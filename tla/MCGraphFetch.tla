----------------------------- MODULE MCGraphFetch -----------------------------
(* The constants of the GraphFetch run. *)
EXTENDS GraphFetch

\* No audit data; each kind of fetcher with and without the others; the units
\* of a full audit.
MCNeededSets == { {}, {"skus", "subscriptions"}, {"users"},
                  {"users", "per_user_mfa"}, {"per_user_mfa"},
                  {"auth_methods", "domains"},
                  {"skus", "users", "ca_policies", "per_user_mfa", "domains"} }
=============================================================================
