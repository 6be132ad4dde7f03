----------------------------- MODULE MCIotClient -----------------------------
(***************************************************************************)
(* The client under a few API calls and power cuts.                        *)
(***************************************************************************)
EXTENDS IotClient
==============================================================================
