------------------------------ MODULE MqttPing ------------------------------
(***************************************************************************)
(* The keepalive of the MQTT client on a system that is as prompt as can   *)
(* be: no second passes while a task event waits or a packet is not yet    *)
(* reported sent.  A history variable counts the seconds of a session in   *)
(* which the client has sent nothing.                                      *)
(***************************************************************************)
EXTENDS MqttClient

CONSTANT QuietMax       \* bound: the count stops here

ASSUME PingAssumption == QuietMax \in Nat

VARIABLE quiet

PingInit == Init /\ quiet = 0

\* No event waits and no packet is on its way when the second is over.
Prompt == ~posted /\ unacked[0] = 0

Tick(counts) == mqtt_timer /\ quiet' = IF InSession /\ counts THEN Lesser(quiet + 1, QuietMax) ELSE 0

Handle == Handlers /\ quiet' = IF ~InSession \/ unacked'[0] > unacked[0] THEN 0 ELSE quiet

\* The broker sends data.
Receive == \E s \in Socket : Data(s)

\* All that the client may meet; a second that the system was not prompt in, or
\* in which the broker sent something else than its answers, starts the count anew.
LiveSpec == /\ PingInit
            /\ [][Tick(Prompt) \/ Handle \/ (Receive /\ quiet' = 0)]_<<vars, quiet>>
            /\ Fairness

\* A prompt system whose broker sends data at any time.
InboundSpec == PingInit /\ [][(Prompt /\ Tick(TRUE)) \/ Handle \/ (Receive /\ UNCHANGED quiet)]_<<vars, quiet>>

\* In a session the client never sends nothing for longer than one and a half
\* keepalive periods, after which a broker has to take it for dead
\* (mqtt.c:393-398 and every place that resets keepAliveTick).
PingsInTime == InSession => 2 * quiet <= 3 * KeepAlive
=============================================================================
