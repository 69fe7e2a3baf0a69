-------------------------- MODULE MCAttemptLimiter --------------------------
(***************************************************************************)
(* Small instances of AttemptLimiter.                                      *)
(***************************************************************************)
EXTENDS AttemptLimiter, TLC

Symmetry == Permutations(Workers)
=============================================================================
