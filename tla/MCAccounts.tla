----------------------------- MODULE MCAccounts -----------------------------
(* Two people and one API key.                                             *)
EXTENDS Accounts, TLC

CONSTANTS ana, bia, key

MCNames == {ana, bia}
Symmetry == Permutations(MCNames)
=============================================================================
