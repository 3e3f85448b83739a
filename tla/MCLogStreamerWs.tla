---------------------------- MODULE MCLogStreamerWs ----------------------------
(* Instances of LogStreamerWs for TLC.                                        *)
EXTENDS LogStreamerWs

CONSTANT v1

OneService == [c \in Containers |-> v1]
===============================================================================
