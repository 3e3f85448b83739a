------------------------------ MODULE MCLivePage ------------------------------
(* Instances of LivePage for TLC; liveness is checked, hence no symmetry.     *)
EXTENDS LivePage
===============================================================================
