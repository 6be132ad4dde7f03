---------------------------- MODULE MCMqttService ----------------------------
(***************************************************************************)
(* Two publishing threads against the loop.                                *)
(***************************************************************************)
EXTENDS MqttService

==============================================================================
