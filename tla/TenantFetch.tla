----------------------------- MODULE TenantFetch -----------------------------
(***************************************************************************)
(* What engine.fetch_tenant_data promises: the units of tenant data an      *)
(* audit needs are read one after the other, in a fixed order, and each one *)
(* ends in one of a few definite results.  The essential units are complete *)
(* or the whole audit fails; every other unit is complete or declared       *)
(* unavailable.  Only per-user MFA states may be partial.                   *)
(*                                                                         *)
(* GraphFetch.tla, the model of the fetchers and of the Graph client with   *)
(* its pages and retries, is shown to implement this specification, and     *)
(* AuditRun.tla builds the audit's report on it.                            *)
(***************************************************************************)
EXTENDS TenantUnits

VARIABLES todo,     \* the units still to be read
          got,      \* got[u]: the result of unit u
          outcome   \* "fetching", "fetched" or "failed"

fetchVars == <<todo, got, outcome>>

\* "bare": the users without their sign-in activity; "partial": per-user MFA
\* states with some users left out.
Results == {"none", "complete", "bare", "partial", "unavailable"}

\* The results unit u can end in.
Possible(u) == IF u = "users" THEN {"complete", "bare"}
               ELSE IF u \in Essential THEN {"complete"}
               ELSE IF u = "per_user_mfa"
                    THEN {"complete", "partial", "unavailable"}
               ELSE {"complete", "unavailable"}

FetchInit == /\ todo \subseteq Units /\ "organization" \in todo
             /\ got = [u \in Units |-> "none"]
             /\ outcome = "fetching"

\* Unit u, the next one, has been read with result x.
ReadUnit(u, x) ==
  /\ outcome = "fetching" /\ FirstOf(u, todo)
  /\ x \in Possible(u)
  /\ got' = [got EXCEPT ![u] = x]
  /\ todo' = todo \ {u}
  /\ UNCHANGED outcome

\* An essential unit cannot be read, or the connection itself fails.
FailFetch == /\ outcome = "fetching" /\ todo # {}
             /\ outcome' = "failed"
             /\ UNCHANGED <<todo, got>>

EndFetch == /\ outcome = "fetching" /\ todo = {}
            /\ outcome' = "fetched"
            /\ UNCHANGED <<todo, got>>

FetchNext == \/ \E u \in Units, x \in Results : ReadUnit(u, x)
             \/ FailFetch
             \/ EndFetch

FetchSpec == FetchInit /\ [][FetchNext]_fetchVars
=============================================================================
