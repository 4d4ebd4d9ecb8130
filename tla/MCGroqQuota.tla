---------------------------- MODULE MCGroqQuota ----------------------------
(* Instances of GroqQuota for TLC.                                          *)
EXTENDS GroqQuota, TLC

CallerSymmetry == Permutations(Callers)
=============================================================================
