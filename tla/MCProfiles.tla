------------------------------ MODULE MCProfiles ------------------------------
(* Symmetry for the Profiles runs. *)
EXTENDS Profiles, TLC

Symmetry == Permutations(Cli) \cup Permutations(Clients)
=============================================================================
