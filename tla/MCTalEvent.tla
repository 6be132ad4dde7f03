----------------------------- MODULE MCTalEvent -----------------------------
(***************************************************************************)
(* One event, a subscriber of each type, two threads.                      *)
(***************************************************************************)
EXTENDS TalEvent, TLC

CONSTANTS e1, sn, se, so

MCSubName == sn :> e1 @@ se :> e1 @@ so :> e1
MCSubType == sn :> "NORMAL" @@ se :> "EMERGENCY" @@ so :> "ONETIME"
==============================================================================
