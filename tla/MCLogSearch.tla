------------------------------ MODULE MCLogSearch ------------------------------
(* Instances of LogSearch for TLC.                                            *)
EXTENDS LogSearch

\* An entry the filters accept only for its continuation line.
MCWrites == {<<FALSE, TRUE>>}

\* The base file of a day and its first chunk.
MCNames == [date : {1}, rotation : {0, 1}, listed : {1}]
===============================================================================
