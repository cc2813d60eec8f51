------------------------- MODULE MqttClient_proofs -------------------------
(***************************************************************************)
(* Proofs about the connection state machine of mqtt/mqtt.c, for every     *)
(* timeout, every size of the queues and any number of changes of the      *)
(* settings; and about its pings (MqttPing), for every keepalive period    *)
(* from two seconds on.                                                    *)
(***************************************************************************)
EXTENDS MqttPing, TLAPS

-----------------------------------------------------------------------------
\* The operators on sockets keep the type of a socket table.

Sockets == [Socket -> SockState]

LEMMA SocketZero == 0 \in Socket
BY ClientAssumption DEF Socket

LEMMA NetworkTyped ==
  ASSUME NEW sk \in Sockets
  PROVE  /\ espconn_connect(sk) \in Sockets
         /\ espconn_disconnect(sk) \in Sockets
         /\ \A s \in Socket, v \in SockState : [sk EXCEPT ![s] = v] \in Sockets
BY SocketZero DEF Sockets, SockState, Established, espconn_connect, espconn_disconnect

LEMMA SendTyped ==
  ASSUME NEW sk \in Sockets, NEW p, NEW ok \in BOOLEAN,
         unacked \in [Socket -> 0 .. MaxUnacked],
         espconn_send(sk, p, ok)
  PROVE  sock' \in Sockets /\ unacked' \in [Socket -> 0 .. MaxUnacked]
BY SocketZero, ClientAssumption DEF Sockets, SockState, Established, espconn_send, After

\* The lookups' part of TypeOK.
LookupOK == dns \in 0 .. MaxLookups /\ ip \in BOOLEAN /\ passed \in BOOLEAN

LEMMA ConnectTyped ==
  ASSUME TypeOK, NEW sk \in Sockets, MQTT_Connect(sk)
  PROVE  /\ sock' \in Sockets
         /\ unacked' \in [Socket -> 0 .. MaxUnacked]
         /\ LookupOK'
         /\ keepAliveTick' = 0 /\ reconnectTick' = 0
         /\ timer' = TRUE /\ connState' = "TCP_CONNECTING"
<1>1. [sk EXCEPT ![0] = "idle"] \in Sockets
  BY NetworkTyped, SocketZero DEF SockState
<1>2. sock' \in Sockets
  BY <1>1, NetworkTyped DEF MQTT_Connect
<1>3. QED
  <2>1. LookupOK'
    <3>1. \/ espconn_gethostbyname
          \/ UNCHANGED lookup
      BY DEF MQTT_Connect
    <3>2. dns' \in 0 .. MaxLookups
      BY <3>1, ClientAssumption DEF espconn_gethostbyname, lookup, TypeOK
    <3>3. ip' \in BOOLEAN /\ passed' \in BOOLEAN
      BY <3>1, Zenon DEF espconn_gethostbyname, lookup, TypeOK
    <3>4. QED
      BY <3>2, <3>3 DEF LookupOK
  <2>2. QED
    BY <1>2, <2>1, SocketZero, ClientAssumption DEF MQTT_Connect, TypeOK

LEMMA Initialised ==
  ASSUME user_init_mqtt
  PROVE  /\ connState' = "WIFI_INIT" /\ pending' = "none"
         /\ keepAliveTick' = 0 /\ reconnectTick' = 0 /\ sendTimeout' = 0 /\ queued' = 0
         /\ timer' \in BOOLEAN /\ posted' \in BOOLEAN /\ ip' \in BOOLEAN /\ passed' \in BOOLEAN
        /\ passed' = FALSE
BY DEF user_init_mqtt

-----------------------------------------------------------------------------
\* A ping is due before the count leaves its range.
PingDue == connState = "MQTT_DATA" => keepAliveTick <= KeepAlive

TypeInv == TypeOK /\ PingDue

LEMMA InitTyped == Init => TypeInv
<1> SUFFICES ASSUME Init PROVE TypeInv
  OBVIOUS
<1>1. sock \in [Socket -> SockState] /\ unacked \in [Socket -> 0 .. MaxUnacked]
  BY ClientAssumption DEF Init, SockState
<1>2. timer \in BOOLEAN /\ posted \in BOOLEAN /\ ip \in BOOLEAN /\ passed \in BOOLEAN
  BY DEF Init
<1>3. /\ connState = "WIFI_INIT" /\ pending = "none"
      /\ keepAliveTick = 0 /\ reconnectTick = 0 /\ sendTimeout = 0 /\ queued = 0
      /\ dns = 0 /\ status = "idle" /\ lastWifiStatus = "idle" /\ changes = 0
  BY DEF Init
<1>4. QED
  BY <1>1, <1>2, <1>3, ClientAssumption DEF TypeInv, PingDue, TypeOK, ConnState, Status

LEMMA NextTyped == TypeInv /\ [Next]_vars => TypeInv'
<1> SUFFICES ASSUME TypeInv, [Next]_vars PROVE TypeInv'
  OBVIOUS
<1> USE ClientAssumption, SocketZero DEF TypeInv, TypeOK, PingDue, ConnState, Status, LookupOK, lookup
<1>1. sock \in Sockets
  BY DEF Sockets
<1>2. CASE Task_Reconnect
  <2>1. MQTT_Connect(sock)
    BY <1>2 DEF Task_Reconnect
  <2>2. /\ sock' \in [Socket -> SockState]
        /\ unacked' \in [Socket -> 0 .. MaxUnacked]
        /\ LookupOK'
        /\ keepAliveTick' = 0 /\ reconnectTick' = 0
        /\ timer' = TRUE /\ connState' = "TCP_CONNECTING"
    BY <1>1, <2>1, ConnectTyped DEF Sockets
  <2>3. timer' \in BOOLEAN /\ posted' \in BOOLEAN
    BY <1>2, <2>2 DEF Task_Reconnect
  <2>4. UNCHANGED <<pending, sendTimeout, queued, status, lastWifiStatus, changes>>
    BY <1>2 DEF Task_Reconnect, TakeEvent, wifi
  <2>5. QED
    BY <2>2, <2>3, <2>4
<1>3. CASE Task_Disconnect
  BY <1>1, <1>3, NetworkTyped DEF Task_Disconnect, TakeEvent, wifi, Sockets
<1>4. CASE Task_Disconnected
  <2>1. sock' \in [Socket -> SockState] /\ unacked' \in [Socket -> 0 .. MaxUnacked]
    BY <1>1, <1>4, NetworkTyped DEF Task_Disconnected, Sockets, SockState
  <2>2. QED
    BY <1>4, <2>1 DEF Task_Disconnected, TakeEvent, wifi
<1>5. CASE Task_KeepAlive
  <2>1. PICK ok \in BOOLEAN : espconn_send(sock, "PINGREQ", ok)
    BY <1>5 DEF Task_KeepAlive
  <2>2. sock' \in Sockets /\ unacked' \in [Socket -> 0 .. MaxUnacked]
    BY <1>1, <2>1, SendTyped
  <2>3. QED
    BY <1>5, <2>2 DEF Task_KeepAlive, TakeEvent, wifi, Sockets
<1>6. CASE Task_Data
  <2>1. PICK ok \in BOOLEAN : espconn_send(sock, "OTHER", ok)
    BY <1>6 DEF Task_Data
  <2>2. sock' \in Sockets /\ unacked' \in [Socket -> 0 .. MaxUnacked]
    BY <1>1, <2>1, SendTyped
  <2>3. QED
    <3>1. queued' \in 0 .. QMax /\ sendTimeout' \in 0 .. SendTimeout
      BY <1>6 DEF Task_Data
    <3>2. QED
      BY <1>6, <2>2, <3>1 DEF Task_Data, TakeEvent, wifi, Sockets
<1>7. CASE Task_Nothing
  <2>1. UNCHANGED <<connState, pending, keepAliveTick, reconnectTick, sendTimeout, queued, timer,
                    sock, unacked, dns, ip, passed, status, lastWifiStatus, changes>>
    BY <1>7 DEF Task_Nothing, TakeEvent, wifi, net
  <2>2. posted' \in BOOLEAN
    BY <1>7 DEF Task_Nothing
  <2>3. QED
    BY <2>1, <2>2
<1>8. CASE MQTT_Publish
  BY <1>8 DEF MQTT_Publish, Requested, Wake, net, wifi
<1>9. CASE mqtt_timer
  <2>1. sendTimeout' \in 0 .. SendTimeout
    BY <1>9 DEF mqtt_timer, CountDown
  <2>2. UNCHANGED <<pending, queued, timer, sock, unacked, dns, ip, passed, status, lastWifiStatus, changes>>
    BY <1>9 DEF mqtt_timer, net, wifi, lookup
  <2>3. connState' \in ConnState /\ posted' \in BOOLEAN /\ reconnectTick' \in 0 .. ReconnectTimeout
    BY <1>9 DEF mqtt_timer, Wake
  <2>4. keepAliveTick' \in 0 .. KeepAlive + 1 /\ PingDue'
    BY <1>9 DEF mqtt_timer
  <2>5. QED
    BY <2>1, <2>2, <2>3, <2>4
<1>10. CASE wifi_check_ip
  <2>1. CASE status = "gotIp"
    <3>1. MQTT_Connect(sock) /\ UNCHANGED posted
      BY <1>10, <2>1 DEF wifi_check_ip, wifiConnectCb
    <3>2. /\ sock' \in [Socket -> SockState]
          /\ unacked' \in [Socket -> 0 .. MaxUnacked]
          /\ LookupOK'
          /\ keepAliveTick' = 0 /\ reconnectTick' = 0
          /\ timer' = TRUE /\ connState' = "TCP_CONNECTING"
      BY <1>1, <3>1, ConnectTyped DEF Sockets
    <3>3. QED
      BY <1>10, <3>1, <3>2 DEF wifi_check_ip, wifiConnectCb
  <2>2. CASE status # "gotIp"
    BY <1>10, <2>2 DEF wifi_check_ip, wifiConnectCb, MQTT_Disconnect, net
  <2>3. QED
    BY <2>1, <2>2
<1>11. ASSUME NEW s \in Socket, Connected(s) PROVE TypeInv'
  <2>1. PICK ok \in BOOLEAN :
          espconn_send([sock EXCEPT ![s] = IF s = 0 THEN "open" ELSE "deaf"], "CONNECT", ok)
    BY <1>11 DEF Connected
  <2>2. [sock EXCEPT ![s] = IF s = 0 THEN "open" ELSE "deaf"] \in Sockets
    BY <1>1, NetworkTyped DEF SockState, Established
  <2>3. sock' \in Sockets /\ unacked' \in [Socket -> 0 .. MaxUnacked]
    BY <2>1, <2>2, SendTyped
  <2>4. QED
    BY <1>11, <2>3 DEF Connected, Handshake, wifi, Sockets
<1>12. ASSUME NEW s \in Socket, NEW answer \in {"online", "refused"}, Connack(s, answer)
       PROVE TypeInv'
  <2>1. [sock EXCEPT ![s] = answer] \in Sockets
    BY <1>1, NetworkTyped DEF SockState, Established
  <2>2. sock' \in Sockets
    BY <1>12, <2>1, NetworkTyped DEF Connack
  <2>3. connState' \in {connState, "MQTT_DATA"} /\ queued' \in 0 .. QMax
    BY <1>12 DEF Connack, mqttConnectedCb, Requested
  <2>4. /\ keepAliveTick' = 0 /\ posted' = TRUE
        /\ UNCHANGED <<pending, reconnectTick, sendTimeout, timer, unacked, dns, ip, passed,
                       status, lastWifiStatus, changes>>
    BY <1>12 DEF Connack, wifi, lookup
  <2>5. QED
    BY <2>2, <2>3, <2>4 DEF Sockets
<1>13. ASSUME NEW s \in Socket, Data(s) PROVE TypeInv'
  BY <1>13 DEF Data, mqttDataCb, net, wifi
<1>14. ASSUME NEW s \in Socket, SentCb(s) PROVE TypeInv'
  BY <1>14 DEF SentCb, Reported, wifi
<1>15. ASSUME NEW s \in Socket PROVE Ended(s) \in Sockets
  BY <1>1, NetworkTyped DEF Ended, SockState
<1>16. ASSUME NEW s \in Socket, Closed(s) PROVE TypeInv'
  <2>1. /\ posted' = TRUE
        /\ \/ /\ MQTT_Connect(Ended(s))
              /\ queued' \in mqttDisconnectedCb
              /\ UNCHANGED <<pending, sendTimeout, wifi, changes>>
           \/ /\ connState' \in {"TCP_DISCONNECTED", "TCP_RECONNECT_REQ"}
              /\ sock' = Ended(s)
              /\ unacked' = [unacked EXCEPT ![s] = 0]
              /\ UNCHANGED <<pending, keepAliveTick, reconnectTick, sendTimeout, queued, timer, lookup, wifi, changes>>
    BY <1>16 DEF Closed
  <2>2. CASE MQTT_Connect(Ended(s)) /\ queued' \in mqttDisconnectedCb /\ UNCHANGED <<pending, sendTimeout, wifi, changes>>
    <3>1. /\ sock' \in [Socket -> SockState]
          /\ unacked' \in [Socket -> 0 .. MaxUnacked]
          /\ LookupOK'
          /\ keepAliveTick' = 0 /\ reconnectTick' = 0
          /\ timer' = TRUE /\ connState' = "TCP_CONNECTING"
      BY <1>15, <2>1, <2>2, ConnectTyped DEF Sockets
    <3>2. queued' \in 0 .. QMax
      BY <2>2 DEF mqttDisconnectedCb, Requested
    <3>3. QED
      BY <2>1, <2>2, <3>1, <3>2 DEF wifi
  <2>3. CASE /\ connState' \in {"TCP_DISCONNECTED", "TCP_RECONNECT_REQ"}
             /\ sock' = Ended(s)
             /\ unacked' = [unacked EXCEPT ![s] = 0]
             /\ UNCHANGED <<pending, keepAliveTick, reconnectTick, sendTimeout, queued, timer, lookup, wifi, changes>>
    BY <1>15, <2>1, <2>3 DEF wifi, Sockets
  <2>4. QED
    BY <2>1, <2>2, <2>3
<1>17. ASSUME NEW s \in Socket, Broke(s) PROVE TypeInv'
  BY <1>15, <1>17 DEF Broke, Retry, wifi, Sockets
<1>18. CASE DnsFailed
  BY <1>18 DEF DnsFailed, Retry, wifi
<1>19. ASSUME NEW zero \in BOOLEAN, DnsFound(zero) PROVE TypeInv'
  <2>1. sock' \in [Socket -> SockState]
    BY <1>1, <1>19, NetworkTyped DEF DnsFound, Sockets
  <2>2. LookupOK' /\ posted' \in BOOLEAN /\ connState' \in {connState, "TCP_CONNECTING"}
    BY <1>19 DEF DnsFound, Taken
  <2>3. UNCHANGED <<pending, keepAliveTick, reconnectTick, sendTimeout, queued, timer, unacked, status, lastWifiStatus, changes>>
    BY <1>19 DEF DnsFound, wifi
  <2>4. QED
    BY <2>1, <2>2, <2>3
<1>20. CASE DnsFoundTooLate
  <2>1. sock' \in [Socket -> SockState] /\ unacked' \in [Socket -> 0 .. MaxUnacked]
    BY <1>20 DEF DnsFoundTooLate, SockState
  <2>2. user_init_mqtt
    BY <1>20 DEF DnsFoundTooLate
  <2>3. dns' = 0 /\ status' = "idle" /\ lastWifiStatus' = "idle" /\ changes' = changes
    BY <1>20 DEF DnsFoundTooLate
  <2>4. QED
    BY <2>1, <2>2, <2>3, Initialised
<1>21. CASE LinkChange
  BY <1>21 DEF LinkChange, client, net
<1>22. CASE ChangeSettings
  <2>1. changes' \in 0 .. MaxChanges /\ changes + 1 \in Socket
    BY <1>22 DEF ChangeSettings, Socket
  <2>2. sock' \in Sockets /\ unacked' \in [Socket -> 0 .. MaxUnacked]
    BY <1>22, <2>1 DEF ChangeSettings, Sockets, SockState
  <2>3. QED
    <3>2. user_init_mqtt
      BY <1>22 DEF ChangeSettings
    <3>1. LookupOK' /\ status' \in Status /\ lastWifiStatus' \in Status
      BY <1>22, <3>2, Initialised DEF ChangeSettings, wifi
    <3>3. QED
      BY <2>1, <2>2, <3>1, <3>2, Initialised DEF Sockets
<1>23. CASE UNCHANGED vars
  BY <1>23 DEF vars, client, net, wifi
<1>24. QED
  BY <1>2, <1>3, <1>4, <1>5, <1>6, <1>7, <1>8, <1>9, <1>10, <1>11, <1>12, <1>13, <1>14,
     <1>16, <1>17, <1>18, <1>19, <1>20, <1>21, <1>22, <1>23
     DEF Next, Handlers, MQTT_Task

LEMMA TypeInvariant == Spec => []TypeInv
BY InitTyped, NextTyped, PTL DEF Spec

\* Every variable keeps its range: the ticks never pass their limits, whatever
\* callbacks reset them or fail to (mqtt.c:389-412).
THEOREM ClientTyped == Spec => []TypeOK
<1>1. TypeInv => TypeOK
  BY DEF TypeInv
<1>2. QED
  BY <1>1, TypeInvariant, PTL
-----------------------------------------------------------------------------
\* Attended needs nothing but itself: whoever enters a state the task must act
\* upon posts, and the task leaves such a state when it takes the event.

LEMMA AttendedKept == TypeInv /\ Attended /\ [Next]_vars => Attended'
<1> SUFFICES ASSUME TypeInv, Attended, [Next]_vars PROVE Attended'
  OBVIOUS
<1> USE SocketZero DEF TypeInv, TypeOK, Attended
<1>1. CASE Task_Reconnect
  BY <1>1 DEF Task_Reconnect, MQTT_Connect
<1>2. CASE Task_Disconnect
  BY <1>2 DEF Task_Disconnect, espconn_disconnect, Established
<1>3. CASE Task_Disconnected
  BY <1>3 DEF Task_Disconnected
<1>4. CASE Task_KeepAlive
  BY <1>4 DEF Task_KeepAlive
<1>5. CASE Task_Data
  BY <1>5 DEF Task_Data
<1>6. CASE Task_Nothing
  BY <1>6 DEF Task_Nothing
<1>7. CASE MQTT_Publish
  BY <1>7 DEF MQTT_Publish, Wake, net
<1>8. CASE mqtt_timer
  BY <1>8 DEF mqtt_timer, Wake, net
<1>9. CASE wifi_check_ip
  BY <1>9 DEF wifi_check_ip, wifiConnectCb, MQTT_Connect, MQTT_Disconnect
<1>10. ASSUME NEW s \in Socket, Connected(s) PROVE Attended'
  BY <1>10 DEF Connected, Handshake
<1>11. ASSUME NEW s \in Socket, NEW answer \in {"online", "refused"}, Connack(s, answer)
       PROVE Attended'
  BY <1>11 DEF Connack
<1>12. ASSUME NEW s \in Socket, Data(s) PROVE Attended'
  BY <1>12 DEF Data
<1>13. ASSUME NEW s \in Socket, SentCb(s) PROVE Attended'
  BY <1>13 DEF SentCb, Reported
<1>14. ASSUME NEW s \in Socket, Closed(s) PROVE Attended'
  BY <1>14 DEF Closed
<1>15. ASSUME NEW s \in Socket, Broke(s) PROVE Attended'
  BY <1>15 DEF Broke
<1>16. CASE DnsFailed
  BY <1>16 DEF DnsFailed, Retry
<1>17. ASSUME NEW zero \in BOOLEAN, DnsFound(zero) PROVE Attended'
  BY <1>17 DEF DnsFound
<1>18. CASE DnsFoundTooLate \/ ChangeSettings
  BY <1>18 DEF DnsFoundTooLate, ChangeSettings, user_init_mqtt
<1>19. CASE LinkChange \/ UNCHANGED vars
  BY <1>19 DEF LinkChange, vars, client, net
<1>20. QED
  BY <1>1, <1>2, <1>3, <1>4, <1>5, <1>6, <1>7, <1>8, <1>9, <1>10, <1>11, <1>12, <1>13, <1>14,
     <1>15, <1>16, <1>17, <1>18, <1>19 DEF Next, Handlers, MQTT_Task

\* No wakeup is lost to the task queue of length one, in any order of callbacks,
\* ticks, polls and changes of the settings (mqtt.c:44 and 613-683).
THEOREM ClientAttended == Spec => []Attended
<1>1. Init => Attended
  BY DEF Init, Attended
<1>2. QED
  BY <1>1, AttendedKept, TypeInvariant, PTL DEF Spec

-----------------------------------------------------------------------------
\* Until the settings change there is one socket, and what the client believes
\* of it holds.  The three parts need each other: a broker's answer starts a
\* session on the right socket because nothing else is connected and because
\* CONNECT is the pending message.

Alone == changes = 0 => \A s \in Socket \ {0} : sock[s] = "none" /\ unacked[s] = 0

Agreed == /\ HandshakePending
          /\ Alone
          /\ sock[0] # "deaf"
          /\ SessionOpen
          /\ changes = 0 => sock[0] # "broken"

LEMMA AgreedKept == TypeInv /\ Agreed /\ [Next]_vars => Agreed'
<1> SUFFICES ASSUME TypeInv, Agreed, [Next]_vars PROVE Agreed'
  OBVIOUS
<1> USE ClientAssumption, SocketZero
    DEF TypeInv, TypeOK, Agreed, HandshakePending, Alone, SessionOpen, InSession
<1>1. CASE Task_Reconnect
  BY <1>1 DEF Task_Reconnect, TakeEvent, MQTT_Connect, espconn_connect
<1>2. CASE Task_Disconnect
  BY <1>2 DEF Task_Disconnect, TakeEvent, espconn_disconnect
<1>3. CASE Task_Disconnected
  BY <1>3 DEF Task_Disconnected, TakeEvent
<1>4. CASE Task_KeepAlive
  BY <1>4 DEF Task_KeepAlive, TakeEvent, espconn_send, After
<1>5. CASE Task_Data
  BY <1>5 DEF Task_Data, TakeEvent, espconn_send, After
<1>6. CASE Task_Nothing
  BY <1>6 DEF Task_Nothing, TakeEvent, net
<1>7. CASE MQTT_Publish
  BY <1>7 DEF MQTT_Publish, net
<1>8. CASE mqtt_timer
  BY <1>8 DEF mqtt_timer, net
<1>9. CASE wifi_check_ip
  BY <1>9 DEF wifi_check_ip, wifiConnectCb, MQTT_Connect, MQTT_Disconnect, espconn_connect, net
<1>10. ASSUME NEW s \in Socket, Connected(s) PROVE Agreed'
  BY <1>10 DEF Connected, Handshake, espconn_send, After
<1>11. ASSUME NEW s \in Socket, NEW answer \in {"online", "refused"}, Connack(s, answer)
       PROVE Agreed'
  BY <1>11 DEF Connack, espconn_disconnect
<1>12. ASSUME NEW s \in Socket, Data(s) PROVE Agreed'
  BY <1>12 DEF Data, net
<1>13. ASSUME NEW s \in Socket, SentCb(s) PROVE Agreed'
  BY <1>13 DEF SentCb
<1>14. ASSUME NEW s \in Socket, Closed(s) PROVE Agreed'
  BY <1>14 DEF Closed, Ended, MQTT_Connect, espconn_connect
<1>15. ASSUME NEW s \in Socket, Broke(s) PROVE Agreed'
  BY <1>15 DEF Broke, Ended, Retry
<1>16. CASE DnsFailed
  BY <1>16 DEF DnsFailed, Retry
<1>17. ASSUME NEW zero \in BOOLEAN, DnsFound(zero) PROVE Agreed'
  BY <1>17 DEF DnsFound, espconn_connect
<1>18. CASE DnsFoundTooLate
  BY <1>18 DEF DnsFoundTooLate, user_init_mqtt
<1>19. CASE ChangeSettings
  BY <1>19 DEF ChangeSettings, user_init_mqtt
<1>20. CASE LinkChange \/ UNCHANGED vars
  BY <1>20 DEF LinkChange, vars, client, net
<1>21. QED
  BY <1>1, <1>2, <1>3, <1>4, <1>5, <1>6, <1>7, <1>8, <1>9, <1>10, <1>11, <1>12, <1>13, <1>14,
     <1>15, <1>16, <1>17, <1>18, <1>19, <1>20 DEF Next, Handlers, MQTT_Task

LEMMA Agreement == Spec => []Agreed
<1>1. Init => Agreed
  BY SocketZero DEF Init, Agreed, HandshakePending, Alone, SessionOpen, InSession
<1>2. QED
  BY <1>1, AgreedKept, TypeInvariant, PTL DEF Spec

\* The branch for an invalid packet while a CONNACK is waited for is never taken,
\* changes of the settings or not (mqtt.c:253-266).
THEOREM ClientPending == Spec => []HandshakePending
<1>1. Agreed => HandshakePending
  BY DEF Agreed
<1>2. QED
  BY <1>1, Agreement, PTL

\* Until the settings change, the client is in a session only when the broker
\* answered on its very socket, and the broker never sees packets out of order
\* (mqtt.c:252-272, 443-476 and 653-680).
THEOREM ClientAgreesWithBroker == Spec => [](SessionOpen /\ ProtocolOrder)
<1>1. Agreed => SessionOpen /\ ProtocolOrder
  BY SocketZero DEF Agreed, Alone, ProtocolOrder
<1>2. QED
  BY <1>1, Agreement, PTL

\* Until the settings change the broker sees CONNECT first, once, and nothing before
\* its answer, on every connection (mqtt.c:443-476, 653-680).
THEOREM ClientOrder == Spec => []ProtocolOrder
<1> QED BY ClientAgreesWithBroker, PTL

-----------------------------------------------------------------------------
\* TCP_CONNECTING is entered by MQTT_Connect, which starts a lookup, finds one under
\* way or has its answer at once, and by the answer to a lookup that connects the
\* socket; a passed over answer may be the last that was awaited.

LEMMA AttemptKept ==
  ASSUME HostIsName
  PROVE  TypeInv /\ Agreed /\ AttemptUnderWay /\ [Next]_vars => AttemptUnderWay'
<1> SUFFICES ASSUME TypeInv, Agreed, AttemptUnderWay, [Next]_vars
             PROVE AttemptUnderWay'
  OBVIOUS
<1> USE ClientAssumption, SocketZero DEF TypeInv, TypeOK, AttemptUnderWay, UnderWay, Stranded
<1>1. ASSUME NEW sk, MQTT_Connect(sk) PROVE dns' > 0 \/ passed'
  BY <1>1 DEF MQTT_Connect, espconn_gethostbyname
<1>2. CASE Task_Reconnect
  BY <1>1, <1>2 DEF Task_Reconnect
<1>3. CASE Task_Disconnect
  BY <1>3 DEF Task_Disconnect
<1>4. CASE Task_Disconnected
  BY <1>4 DEF Task_Disconnected
<1>5. CASE Task_KeepAlive
  BY <1>5 DEF Task_KeepAlive
<1>6. CASE Task_Data
  BY <1>6 DEF Task_Data
<1>7. CASE Task_Nothing
  BY <1>7 DEF Task_Nothing, net, lookup
<1>8. CASE MQTT_Publish
  BY <1>8 DEF MQTT_Publish, net, lookup
<1>9. CASE mqtt_timer
  BY <1>9 DEF mqtt_timer, net, lookup
<1>10. CASE wifi_check_ip
  BY <1>1, <1>10 DEF wifi_check_ip, wifiConnectCb, MQTT_Disconnect
<1>11. ASSUME NEW s \in Socket, Connected(s) PROVE AttemptUnderWay'
  BY <1>11 DEF Connected, Handshake
<1>12. ASSUME NEW s \in Socket, NEW answer \in {"online", "refused"}, Connack(s, answer)
       PROVE AttemptUnderWay'
  BY <1>12 DEF Connack, Established, lookup
<1>13. ASSUME NEW s \in Socket, Data(s) PROVE AttemptUnderWay'
  BY <1>13 DEF Data, net, lookup
<1>14. ASSUME NEW s \in Socket, SentCb(s) PROVE AttemptUnderWay'
  BY <1>14 DEF SentCb, lookup
<1>15. ASSUME NEW s \in Socket, Closed(s) PROVE AttemptUnderWay'
  BY <1>1, <1>15 DEF Closed
<1>16. ASSUME NEW s \in Socket, Broke(s) PROVE AttemptUnderWay'
  BY <1>16 DEF Broke, Retry
<1>17. CASE DnsFailed
  BY <1>17 DEF DnsFailed, Retry
<1>18. ASSUME NEW zero \in BOOLEAN, DnsFound(zero) PROVE AttemptUnderWay'
  BY <1>18 DEF DnsFound, espconn_connect, Agreed, SockState
<1>19. CASE DnsFoundTooLate \/ ChangeSettings
  BY <1>19 DEF DnsFoundTooLate, ChangeSettings, user_init_mqtt
<1>20. CASE LinkChange \/ UNCHANGED vars
  BY <1>20 DEF LinkChange, vars, client, net, lookup
<1>21. QED
  BY <1>2, <1>3, <1>4, <1>5, <1>6, <1>7, <1>8, <1>9, <1>10, <1>11, <1>12, <1>13, <1>14, <1>15,
     <1>16, <1>17, <1>18, <1>19, <1>20 DEF Next, Handlers, MQTT_Task

\* With a host name, TCP_CONNECTING always has something under way that ends it, changes
\* of the settings or not, but after an answer that was known at once or passed over:
\* these are the only ways to strand (mqtt.c:59-97 and 786-833).
THEOREM ClientAttempts == ASSUME HostIsName PROVE Spec => []AttemptUnderWay
<1>1. Init => AttemptUnderWay
  BY DEF Init, AttemptUnderWay
<1>2. TypeInv /\ Agreed /\ AttemptUnderWay /\ [Next]_vars => AttemptUnderWay'
  BY AttemptKept
<1>3. QED
  BY <1>1, <1>2, TypeInvariant, Agreement, PTL DEF Spec
-----------------------------------------------------------------------------
\* The seconds of silence that count are seconds that the client counts too: whatever
\* sets keepAliveTick back either sends, ends the session, or reports a packet that
\* was under way and kept the silence at zero.

Counting ==
  /\ quiet \in Nat
  /\ unacked[0] > 0 => quiet = 0
  /\ connState = "MQTT_DATA" => quiet <= keepAliveTick
  /\ connState = "MQTT_KEEPALIVE_SEND" => quiet <= KeepAlive + 1

PingNext == Tick(Prompt) \/ Handle \/ (Receive /\ quiet' = 0)

LEMMA CountingKept ==
  ASSUME MaxChanges = 0
  PROVE  TypeInv /\ Agreed /\ Attended /\ Counting /\ [PingNext]_<<vars, quiet>> => Counting'
<1> SUFFICES ASSUME TypeInv, Agreed, Attended, Counting, [PingNext]_<<vars, quiet>>
             PROVE  Counting'
  OBVIOUS
<1> USE ClientAssumption, PingAssumption, SocketZero
    DEF TypeInv, TypeOK, PingDue, Agreed, SessionOpen, InSession, Attended, Counting
<1>1. Socket = {0} /\ changes = 0
  BY DEF Socket
<1>2. CASE Tick(Prompt)
  <2>1. mqtt_timer /\ quiet' = IF InSession /\ Prompt THEN Lesser(quiet + 1, QuietMax) ELSE 0
    BY <1>2 DEF Tick
  <2>2. quiet' \in Nat /\ quiet' <= quiet + 1
    BY <2>1 DEF Lesser
  <2>3. unacked' = unacked
    BY <2>1 DEF mqtt_timer, net
  <2>4. CASE connState = "MQTT_DATA"
    BY <2>1, <2>2, <2>3, <2>4 DEF mqtt_timer, Prompt
  <2>5. CASE connState = "MQTT_KEEPALIVE_SEND"
    BY <2>1, <2>3, <2>5 DEF mqtt_timer, Prompt
  <2>6. CASE ~InSession
    BY <2>1, <2>3, <2>6 DEF mqtt_timer
  <2> QED BY <2>4, <2>5, <2>6
<1>3. CASE Receive /\ quiet' = 0
  BY <1>3 DEF Receive, Data
<1>4. CASE Handle
  <2>1. quiet' = IF ~InSession \/ unacked'[0] > unacked[0] THEN 0 ELSE quiet
    BY <1>4 DEF Handle
  <2>2. quiet' \in Nat /\ (quiet' = 0 \/ quiet' = quiet)
    BY <2>1
  <2> DEFINE Left == connState' \notin {"MQTT_DATA", "MQTT_KEEPALIVE_SEND"}
             Fewer == unacked'[0] > 0 => unacked[0] > 0
  <2>3. ASSUME Left, Fewer PROVE Counting'
    BY <2>2, <2>3
  <2>4. ASSUME UNCHANGED <<connState, keepAliveTick, unacked>> PROVE Counting'
    BY <2>2, <2>4
  <2>5. ASSUME quiet' = 0, keepAliveTick' \in Nat PROVE Counting'
    BY <2>5
  <2>6. CASE Task_Reconnect
    BY <2>3, <2>6 DEF Task_Reconnect, MQTT_Connect
  <2>7. CASE Task_Disconnect
    BY <2>4, <2>7 DEF Task_Disconnect
  <2>8. CASE Task_Disconnected
    BY <2>3, <2>8 DEF Task_Disconnected
  <2>9. CASE Task_KeepAlive
    <3>1. PICK ok \in BOOLEAN : /\ espconn_send(sock, "PINGREQ", ok)
                                /\ IF ok THEN connState' = "MQTT_DATA" /\ keepAliveTick' = 0
                                   ELSE connState' = "TCP_RECONNECT_DISCONNECTING" /\ UNCHANGED keepAliveTick
      BY <2>9 DEF Task_KeepAlive
    <3>2. CASE ok
      BY <2>1, <2>5, <3>1, <3>2 DEF espconn_send
    <3>3. CASE ~ok
      BY <2>3, <3>1, <3>3 DEF espconn_send
    <3> QED BY <3>2, <3>3
  <2>10. CASE Task_Data
    <3>1. PICK ok \in BOOLEAN : espconn_send(sock, "OTHER", ok)
      BY <2>10 DEF Task_Data
    <3>2. UNCHANGED <<connState, keepAliveTick>>
      BY <2>10 DEF Task_Data
    <3>3. CASE ok
      BY <2>1, <2>5, <3>1, <3>2, <3>3 DEF espconn_send
    <3>4. CASE ~ok
      BY <2>4, <3>1, <3>2, <3>4 DEF espconn_send
    <3> QED BY <3>3, <3>4
  <2>11. CASE Task_Nothing
    BY <2>4, <2>11 DEF Task_Nothing, net
  <2>12. CASE MQTT_Publish \/ LinkChange
    BY <2>4, <2>12 DEF MQTT_Publish, LinkChange, client, net
  <2>13. CASE wifi_check_ip
    BY <2>3, <2>13 DEF wifi_check_ip, wifiConnectCb, MQTT_Connect, MQTT_Disconnect, net
  <2>14. CASE DnsFailed \/ DnsFoundTooLate
    <3>1. Left /\ (UNCHANGED unacked \/ unacked' = [s \in Socket |-> 0])
      BY <2>14 DEF DnsFailed, DnsFoundTooLate, Retry, user_init_mqtt
    <3> QED BY <2>3, <3>1
  <2>21. ASSUME NEW zero \in BOOLEAN, DnsFound(zero) PROVE Counting'
    <3>1. UNCHANGED <<keepAliveTick, unacked>> /\ connState' \in {connState, "TCP_CONNECTING"}
      BY <2>21 DEF DnsFound
    <3> QED BY <2>3, <2>4, <3>1
  <2>15. CASE ChangeSettings
    BY <2>15, <1>1 DEF ChangeSettings
  <2>16. CASE Connected(0)
    <3>1. ~InSession /\ keepAliveTick' = keepAliveTick
      BY <1>1, <2>16 DEF Connected
    <3> QED BY <2>1, <2>5, <3>1
  <2>17. CASE SentCb(0)
    BY <2>1, <2>17 DEF SentCb, Reported
  <2>18. CASE Closed(0) \/ Broke(0)
    BY <2>3, <2>18 DEF Closed, Broke, MQTT_Connect, Retry
  <2>19. ASSUME NEW answer \in {"online", "refused"}, Connack(0, answer) PROVE Counting'
    <3>1. ~InSession /\ keepAliveTick' = 0
      BY <1>1, <2>19 DEF Connack
    <3> QED BY <2>1, <2>5, <3>1
  <2>20. \/ MQTT_Task \/ wifi_check_ip \/ MQTT_Publish \/ ChangeSettings
         \/ Connected(0) \/ SentCb(0) \/ Closed(0) \/ Broke(0)
         \/ \E answer \in {"online", "refused"} : Connack(0, answer)
         \/ (\E zero \in BOOLEAN : DnsFound(zero)) \/ DnsFailed \/ DnsFoundTooLate \/ LinkChange
    BY <1>1, <1>4 DEF Handle, Handlers
  <2> QED BY <2>6, <2>7, <2>8, <2>9, <2>10, <2>11, <2>12, <2>13, <2>14, <2>15, <2>16, <2>17,
             <2>18, <2>19, <2>20, <2>21 DEF MQTT_Task
<1>5. CASE UNCHANGED <<vars, quiet>>
  BY <1>5 DEF vars, client, net
<1> QED BY <1>2, <1>3, <1>4, <1>5 DEF PingNext

\* Where nothing else than answers comes from the broker and the settings stay, a
\* prompt client is never silent for one and a half keepalive periods, for every period
\* of two ticks or more (mqtt.c:393-398).
THEOREM ClientPings ==
  ASSUME MaxChanges = 0, KeepAlive >= 2
  PROVE  LiveSpec => []PingsInTime
<1>1. PingInit => Init /\ Counting
  BY SocketZero DEF PingInit, Init, Counting
<1>2. [PingNext]_<<vars, quiet>> => [Next]_vars
  BY DEF PingNext, Tick, Handle, Receive, Next
<1>3. TypeInv /\ Agreed /\ Attended /\ Counting /\ [PingNext]_<<vars, quiet>> => Counting'
  BY CountingKept
<1>4. TypeInv /\ Counting => PingsInTime
  BY ClientAssumption DEF TypeInv, TypeOK, PingDue, Counting, PingsInTime, InSession
<1>5. LiveSpec => Init /\ Counting /\ [][Next]_vars /\ [][PingNext]_<<vars, quiet>>
  <2>1. LiveSpec => PingInit /\ [][PingNext]_<<vars, quiet>>
    BY DEF LiveSpec, PingNext
  <2> QED BY <1>1, <1>2, <2>1, PTL
<1>6. Spec => []TypeInv /\ []Agreed /\ []Attended
  BY TypeInvariant, Agreement, ClientAttended, PTL
<1> QED BY <1>3, <1>4, <1>5, <1>6, PTL DEF Spec
=============================================================================
