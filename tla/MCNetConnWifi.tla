---------------------------- MODULE MCNetConnWifi ----------------------------
(***************************************************************************)
(* Small instance of NetConnWifi for TLC.                                  *)
(***************************************************************************)
EXTENDS NetConnWifi
==============================================================================
