------------------------------- MODULE MCBleMgr -------------------------------
(***************************************************************************)
(* A pairing request of a single piece, and a frame of three pieces under  *)
(* a session key.                                                          *)
(***************************************************************************)
EXTENDS BleMgr

CONSTANTS pair, info

MCLen == [f \in Frames |-> IF f = info THEN 3 ELSE 1]
MCSn == [f \in Frames |-> 1]
MCKind == [f \in Frames |-> IF f = info THEN "info" ELSE "pair"]
==============================================================================
