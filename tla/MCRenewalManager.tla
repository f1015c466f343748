-------------------------- MODULE MCRenewalManager --------------------------
(* Two jobs that share one worker: one of them may time out in the queue.  *)
EXTENDS RenewalManager, TLC

CONSTANTS j1, j2

MCJobs == {j1, j2}
Symmetry == Permutations(MCJobs)
=============================================================================
