----------------------------- MODULE SessionLife -----------------------------
(***************************************************************************)
(* What the web application promises about one browser session, as it      *)
(* can be seen from outside: a session is issued once, it waits for one    *)
(* sign-in, the sign-in that succeeds fixes the one tenant the session may *)
(* audit, and a session that is over stays over: no token comes back to    *)
(* it and no audit starts from it any more.                                *)
(*                                                                         *)
(* WebApp.tla, the model of web/app.py and web/sessions.py, is shown to    *)
(* implement this specification.                                           *)
(***************************************************************************)
CONSTANTS Sids,      \* the session ids that secrets.token_urlsafe can draw
          Tenants,   \* the Microsoft tenants an operator can sign in to
          NoTenant   \* no tenant: no token is held

VARIABLES phase,     \* phase[s]: where session s is in its life
          who,       \* who[s]: the tenant whose token session s holds
          served     \* served[s]: the tenants audited from session s

vars == <<phase, who, served>>

Phases == {"unused", "pending", "signedIn", "over"}

Init == /\ phase  = [s \in Sids |-> "unused"]
        /\ who    = [s \in Sids |-> NoTenant]
        /\ served = [s \in Sids |-> {}]

\* A login issues the session and hands the browser to Microsoft.
Begin(s) == /\ phase[s] = "unused"
            /\ phase' = [phase EXCEPT ![s] = "pending"]
            /\ UNCHANGED <<who, served>>

\* A login that fails half-way uses up the session id it drew.
Abort(s) == /\ phase[s] = "unused"
            /\ phase' = [phase EXCEPT ![s] = "over"]
            /\ UNCHANGED <<who, served>>

\* Microsoft's answer is exchanged for the token of tenant t, once.
SignIn(s, t) == /\ phase[s] = "pending"
                /\ phase' = [phase EXCEPT ![s] = "signedIn"]
                /\ who'   = [who EXCEPT ![s] = t]
                /\ UNCHANGED served

\* An audit starts, on the tenant the session is signed in to.
Audit(s) == /\ phase[s] = "signedIn"
            /\ served' = [served EXCEPT ![s] = @ \cup {who[s]}]
            /\ UNCHANGED <<phase, who>>

\* The sessions of S end together: a report is finished or the user signs
\* out (one session), or the process dies (all of them).
End(S) == /\ \A s \in S : phase[s] \in {"pending", "signedIn"}
          /\ phase' = [s \in Sids |-> IF s \in S THEN "over" ELSE phase[s]]
          /\ who'   = [s \in Sids |-> IF s \in S THEN NoTenant ELSE who[s]]
          /\ UNCHANGED served

Next == \/ \E s \in Sids : Begin(s) \/ Abort(s) \/ Audit(s)
        \/ \E s \in Sids, t \in Tenants : SignIn(s, t)
        \/ \E S \in SUBSET Sids : End(S)

Spec == Init /\ [][Next]_vars
=============================================================================
