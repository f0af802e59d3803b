----------------------------- MODULE MCAccounts -----------------------------
(***************************************************************************)
(* An instance of Accounts for TLC.                                        *)
(***************************************************************************)
EXTENDS Accounts, TLC

Symmetric ==
  Permutations(Registers) \cup Permutations(Logins) \cup Permutations(Accepts)
    \cup Permutations(Verifies) \cup Permutations(Processes) \cup Permutations(Tokens)
===========================================================================
