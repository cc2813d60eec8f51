---------------------------- MODULE MCMqttClient ----------------------------
(* Short timeouts, so that every race of a tick with a callback is there.  *)
EXTENDS MqttClient
=============================================================================
