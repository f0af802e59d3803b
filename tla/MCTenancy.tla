----------------------------- MODULE MCTenancy -----------------------------
(***************************************************************************)
(* Instances of Tenancy for TLC.                                           *)
(***************************************************************************)
EXTENDS Tenancy, TLC

Symmetric ==
  Permutations(Users) \cup Permutations(Workspaces) \cup Permutations(Slugs)
    \cup Permutations(Spaces) \cup Permutations(Tags) \cup Permutations(Slots)
===========================================================================
