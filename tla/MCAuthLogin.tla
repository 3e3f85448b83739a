------------------------------ MODULE MCAuthLogin ------------------------------
(* Instances of AuthLogin for TLC.                                            *)
EXTENDS AuthLogin, TLC

Symmetry == Permutations(Calls) \cup Permutations(Secrets)
===============================================================================
