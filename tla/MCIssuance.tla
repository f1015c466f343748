----------------------------- MODULE MCIssuance -----------------------------
(* Issuances, environments and domains that can be told apart by use only. *)
EXTENDS Issuance, TLC

Symmetry ==
  Permutations(Issuances) \union Permutations(Environments) \union Permutations(Domains)
=============================================================================
