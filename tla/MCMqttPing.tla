----------------------------- MODULE MCMqttPing -----------------------------
(* A keepalive period with an even number of ticks, so that the broker's   *)
(* limit of one and a half periods is a whole number.                      *)
EXTENDS MqttPing
=============================================================================
