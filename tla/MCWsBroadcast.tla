---------------------------- MODULE MCWsBroadcast ----------------------------
(* A client that always reads and one that may stop reading at any time. *)
EXTENDS WsBroadcast

CONSTANTS reader, sleeper
===============================================================================
