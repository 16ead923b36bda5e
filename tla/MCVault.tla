------------------------------- MODULE MCVault -------------------------------
(***************************************************************************)
(* Small instances of Vault.                                               *)
(***************************************************************************)
EXTENDS Vault, TLC

MCSymmetry ==
  Permutations(Processes) \union Permutations(Requests) \union
  Permutations(Certificates) \union Permutations(Secrets)
==============================================================================
