--------------------------- MODULE MCGatewayRequests ---------------------------
(* Instances of GatewayRequests for TLC; liveness is checked: no symmetry.    *)
EXTENDS GatewayRequests
===============================================================================
