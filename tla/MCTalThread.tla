----------------------------- MODULE MCTalThread -----------------------------
(***************************************************************************)
(* Two threads under the thread manager.                                   *)
(***************************************************************************)
EXTENDS TalThread
==============================================================================
