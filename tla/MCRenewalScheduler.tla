------------------------- MODULE MCRenewalScheduler -------------------------
(* Domains and checkers as model values.  The loop and the button differ   *)
(* in their fairness only, which invariants do not depend on.              *)
EXTENDS RenewalScheduler, TLC

CONSTANTS d1, d2, loop, button

Symmetry == Permutations({loop, button})
=============================================================================
