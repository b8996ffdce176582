---------------------------- MODULE MCMqttLink ----------------------------
(***************************************************************************)
(* Model checking of MqttLink.                                             *)
(***************************************************************************)
EXTENDS MqttLink
=============================================================================
