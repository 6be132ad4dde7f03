------------------------------ MODULE MCSwTimer ------------------------------
(***************************************************************************)
(* Two timers, one of which only callbacks delete, and one caller.         *)
(***************************************************************************)
EXTENDS SwTimer
==============================================================================
