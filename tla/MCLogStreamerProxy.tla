-------------------------- MODULE MCLogStreamerProxy --------------------------
(* Instances of LogStreamerProxy for TLC.                                    *)
EXTENDS LogStreamerProxy
===============================================================================
