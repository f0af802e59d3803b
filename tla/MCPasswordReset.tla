-------------------------- MODULE MCPasswordReset --------------------------
(***************************************************************************)
(* Instances of PasswordReset for TLC.                                     *)
(***************************************************************************)
EXTENDS PasswordReset, TLC

Symmetric ==
  Permutations(Forgots) \cup Permutations(Resets) \cup Permutations(Processes)
    \cup Permutations(Tokens) \cup Permutations(Passwords)
===========================================================================
