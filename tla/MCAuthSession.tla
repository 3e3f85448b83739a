----------------------------- MODULE MCAuthSession -----------------------------
(* Instances of AuthSession for TLC; liveness is checked, hence no symmetry.   *)
EXTENDS AuthSession
===============================================================================
