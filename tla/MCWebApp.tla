------------------------------- MODULE MCWebApp -------------------------------
(* The constants of the WebApp runs. *)
EXTENDS WebApp, TLC

Symmetry == Permutations(Sids) \cup Permutations(Tenants) \cup
            Permutations(Tabs) \cup Permutations(Runs)
=============================================================================
