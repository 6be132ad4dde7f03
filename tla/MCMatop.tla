------------------------------- MODULE MCMatop -------------------------------
(***************************************************************************)
(* The main thread and one other requesting thread.                        *)
(***************************************************************************)
EXTENDS Matop

==============================================================================
