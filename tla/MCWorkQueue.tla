----------------------------- MODULE MCWorkQueue -----------------------------
(***************************************************************************)
(* A work queue of two places, one delayed work and one other callback.    *)
(***************************************************************************)
EXTENDS WorkQueue
==============================================================================
