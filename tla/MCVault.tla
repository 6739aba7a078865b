------------------------------ MODULE MCVault ------------------------------
(* Module Vault on a small instance: bounds are in MCVault.cfg. *)
EXTENDS Vault, TLC

Symmetry == Permutations(Ids)
=============================================================================
