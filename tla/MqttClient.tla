----------------------------- MODULE MqttClient -----------------------------
(***************************************************************************)
(* mqtt/mqtt.c, the connection state machine of the MQTT client, with the  *)
(* callbacks of the application around it: modules/wifi.c polls the        *)
(* station and tells user/user_main.c, which connects and disconnects the  *)
(* client; user/user_mqtt.c reacts to the client's events; a web request   *)
(* that changes the settings reinitialises it.                             *)
(*                                                                         *)
(* Tasks, timers and network callbacks of the SDK run to completion, so a  *)
(* handler is one action.  The TCP layer below (espconn) and the broker    *)
(* are external.  Socket 0 is the espconn the client points at (pCon); the *)
(* others are espconns that a reinitialisation forgot without closing.     *)
(***************************************************************************)
EXTENDS Integers, FiniteSets

CONSTANTS KeepAlive,         \* connect_info.keepalive, in ticks
          ReconnectTimeout,  \* MQTT_RECONNECT_TIMEOUT, in ticks
          SendTimeout,       \* MQTT_SEND_TIMOUT, in ticks
          AppReconnects,     \* what disconnectedCb may do: call MQTT_Connect or not
          HostIsName,        \* whether the host needs a DNS lookup
          QMax,              \* messages the send queue may hold
          MaxLookups,        \* lookups the DNS client holds at a time
          MaxUnacked,        \* packets a socket accepts before one is sent
          MaxChanges         \* bound: changes of the settings

ASSUME ClientAssumption ==
  /\ {KeepAlive, ReconnectTimeout, MaxChanges} \subseteq Nat
  /\ {SendTimeout, QMax, MaxLookups, MaxUnacked} \subseteq Nat \ {0}
  /\ AppReconnects \subseteq BOOLEAN /\ HostIsName \in BOOLEAN

VARIABLES
  connState,      \* client->connState
  pending,        \* client->mqtt_state.pending_msg_type
  keepAliveTick, reconnectTick, sendTimeout,
  queued,         \* whole messages in client->msgQueue (see MsgQueue)
  timer,          \* mqttTimer is armed
  posted,         \* the task queue of length one holds an event
  sock,           \* what the TCP layer and the broker know of each socket
  unacked,        \* packets handed to a socket and not yet reported sent
  dns,            \* lookups under way
  ip,             \* client->ip is not 0.0.0.0
  passed,         \* auxiliary: the last answer to a lookup was not connected to
  status,         \* wifi_station_get_connect_status()
  lastWifiStatus, \* what wifi_check_ip saw last
  changes         \* changes of the settings so far

client == <<connState, pending, keepAliveTick, reconnectTick, sendTimeout, queued, timer, posted>>
lookup == <<dns, ip, passed>>
net    == <<sock, unacked, lookup>>
wifi   == <<status, lastWifiStatus>>
vars   == <<client, net, wifi, changes>>

Socket == 0 .. MaxChanges

\* open: connected, nothing sent; handshake: CONNECT sent; online, refused: the
\* broker answered; deaf: connected without receive and disconnect callbacks;
\* broken: the broker saw packets in an order MQTT forbids.
Established == {"open", "handshake", "online", "refused", "broken"}
SockState == Established \cup {"none", "idle", "connecting", "closing", "deaf"}

ConnState == {"WIFI_INIT", "TCP_DISCONNECTING", "TCP_DISCONNECTED",
              "TCP_RECONNECT_DISCONNECTING", "TCP_RECONNECT_REQ", "TCP_RECONNECT",
              "TCP_CONNECTING", "MQTT_CONNECT_SENDING", "MQTT_DATA", "MQTT_KEEPALIVE_SEND"}

Lesser(a, b) == IF a < b THEN a ELSE b

InSession == connState \in {"MQTT_DATA", "MQTT_KEEPALIVE_SEND"}

-----------------------------------------------------------------------------
\* The external TCP layer, as operators on the sockets sk.

\* espconn_connect: fails, unnoticed, without a network; does nothing to a
\* socket that is connecting or connected already.
espconn_connect(sk) ==
  IF sk[0] = "idle" /\ status = "gotIp" THEN [sk EXCEPT ![0] = "connecting"] ELSE sk

\* espconn_disconnect: the disconnect callback is only registered once
\* connected, so an attempt under way ends without one.
espconn_disconnect(sk) ==
  [sk EXCEPT ![0] = IF @ \in Established THEN "closing"
                    ELSE IF @ = "connecting" THEN "idle" ELSE @]

\* The broker's view of a socket in state s after a packet of type p: CONNECT
\* comes first and once, everything else after the broker's answer.
After(s, p) == IF p = "CONNECT" THEN (IF s = "open" THEN "handshake" ELSE "broken")
               ELSE IF s \in {"online", "refused"} THEN s ELSE "broken"

\* espconn_send of a packet of type p on the current socket.
espconn_send(sk, p, ok) ==
  /\ ok => sk[0] \in Established /\ unacked[0] < MaxUnacked
  /\ sock' = IF ok THEN [sk EXCEPT ![0] = After(@, p)] ELSE sk
  /\ unacked' = IF ok THEN [unacked EXCEPT ![0] = @ + 1] ELSE unacked

-----------------------------------------------------------------------------
\* The client's functions.

Init ==
  /\ connState = "WIFI_INIT" /\ pending = "none"
  /\ keepAliveTick = 0 /\ reconnectTick = 0 /\ sendTimeout = 0
  /\ queued = 0
  /\ timer = FALSE
  /\ posted = TRUE                      \* MQTT_InitClient posts
  /\ sock = [s \in Socket |-> "none"]
  /\ unacked = [s \in Socket |-> 0]
  /\ dns = 0 /\ ip = FALSE /\ passed = FALSE
  /\ status = "idle" /\ lastWifiStatus = "idle"
  /\ changes = 0

\* user_init_mqtt, with MQTT_InitConnection and MQTT_InitClient: the client is
\* cleared and the task gets a first event.
user_init_mqtt ==
  /\ connState' = "WIFI_INIT" /\ pending' = "none"
  /\ keepAliveTick' = 0 /\ reconnectTick' = 0 /\ sendTimeout' = 0
  /\ queued' = 0
  /\ timer' = FALSE
  /\ posted' = TRUE
  /\ ip' = FALSE /\ passed' = FALSE

\* How many messages r requests of the application leave: old ones may be
\* evicted, and all of them with the new one (MsgQueue).
Requested(r) == {k \in 0 .. QMax : k <= queued + r}

\* The application's callbacks ask for two subscriptions and a publication, for
\* one publication, and per message received for an acknowledgement and two more.
mqttConnectedCb == Requested(3)
mqttDisconnectedCb == Requested(1)
mqttDataCb == 0 .. QMax

\* espconn_gethostbyname (external) asks the network, whose answer mqtt_dns_found
\* gets, unless its table is full; or it knows the answer, also 0.0.0.0, writes it to
\* client->ip and calls nobody.  The result, which tells these apart, is not looked at.
espconn_gethostbyname ==
  \/ /\ dns' = IF dns < MaxLookups THEN dns + 1 ELSE dns
     /\ passed' = FALSE
     /\ UNCHANGED ip
  \/ /\ ip' \in BOOLEAN
     /\ passed' = TRUE
     /\ UNCHANGED dns

\* MQTT_Connect with mqtt_tcpclient_delete: a new socket replaces the old one.
MQTT_Connect(sk) ==
  /\ sock' = LET fresh == [sk EXCEPT ![0] = "idle"]
             IN IF HostIsName THEN fresh ELSE espconn_connect(fresh)
  /\ unacked' = [unacked EXCEPT ![0] = 0]
  /\ IF HostIsName THEN espconn_gethostbyname ELSE UNCHANGED lookup
  /\ keepAliveTick' = 0
  /\ reconnectTick' = 0
  /\ timer' = TRUE
  /\ connState' = "TCP_CONNECTING"

MQTT_Disconnect ==
  /\ connState' = "TCP_DISCONNECTING"
  /\ posted' = TRUE
  /\ timer' = FALSE

\* Variant: the post is forgotten.
WakeNever(due) == UNCHANGED posted

\* system_os_post when due; with an event there already the new one is dropped.
Wake(due) == posted' = (posted \/ due)

\* Variant: the client does not notice.
RetryNever == UNCHANGED connState

\* Leave it to the timer to connect again.
Retry == connState' = "TCP_RECONNECT_REQ"

\* A request of the application at any time: a frame from the UART is published.
MQTT_Publish ==
  /\ queued' \in Requested(1)
  /\ Wake(queued' # 0)
  /\ UNCHANGED <<connState, pending, keepAliveTick, reconnectTick, sendTimeout, timer, net, wifi, changes>>

-----------------------------------------------------------------------------
\* MQTT_Task, one action per group of states.

TakeEvent == posted /\ UNCHANGED <<wifi, changes>>

Task_Reconnect ==
  /\ TakeEvent /\ connState = "TCP_RECONNECT"
  /\ MQTT_Connect(sock)
  /\ posted' = FALSE
  /\ UNCHANGED <<pending, sendTimeout, queued>>

Task_Disconnect ==
  /\ TakeEvent /\ connState \in {"TCP_DISCONNECTING", "TCP_RECONNECT_DISCONNECTING"}
  /\ sock' = espconn_disconnect(sock)
  /\ posted' = FALSE
  /\ UNCHANGED <<connState, pending, keepAliveTick, reconnectTick, sendTimeout, queued, timer, unacked, lookup>>

Task_Disconnected ==
  /\ TakeEvent /\ connState = "TCP_DISCONNECTED"
  /\ sock' = [sock EXCEPT ![0] = "none"]
  /\ unacked' = [unacked EXCEPT ![0] = 0]
  /\ posted' = FALSE
  /\ UNCHANGED <<connState, pending, keepAliveTick, reconnectTick, sendTimeout, queued, timer, lookup>>

\* mqtt_send_keepalive
Task_KeepAlive == \E ok \in BOOLEAN :
  /\ TakeEvent /\ connState = "MQTT_KEEPALIVE_SEND"
  /\ pending' = "PINGREQ"
  /\ sendTimeout' = SendTimeout
  /\ espconn_send(sock, "PINGREQ", ok)
  /\ IF ok THEN connState' = "MQTT_DATA" /\ keepAliveTick' = 0
           ELSE connState' = "TCP_RECONNECT_DISCONNECTING" /\ UNCHANGED keepAliveTick
  /\ posted' = TRUE
  /\ UNCHANGED <<reconnectTick, queued, timer, lookup>>

\* The result of espconn_send is not looked at.
Task_Data == \E ok \in BOOLEAN :
  /\ TakeEvent /\ connState = "MQTT_DATA" /\ queued > 0 /\ sendTimeout = 0
  /\ queued' = queued - 1
  /\ pending' = "OTHER"
  /\ sendTimeout' = SendTimeout
  /\ espconn_send(sock, "OTHER", ok)
  /\ posted' = FALSE
  /\ UNCHANGED <<connState, keepAliveTick, reconnectTick, timer, lookup>>

Task_Nothing ==
  /\ TakeEvent
  /\ \/ connState \in {"WIFI_INIT", "TCP_RECONNECT_REQ", "TCP_CONNECTING", "MQTT_CONNECT_SENDING"}
     \/ connState = "MQTT_DATA" /\ (queued = 0 \/ sendTimeout # 0)
  /\ posted' = FALSE
  /\ UNCHANGED <<connState, pending, keepAliveTick, reconnectTick, sendTimeout, queued, timer, net>>

MQTT_Task == \/ Task_Reconnect \/ Task_Disconnect \/ Task_Disconnected
             \/ Task_KeepAlive \/ Task_Data \/ Task_Nothing

\* Variant: the count goes below zero.
CountDownBlind == sendTimeout - 1

CountDown == IF sendTimeout > 0 THEN sendTimeout - 1 ELSE 0

\* Once a second while armed.
mqtt_timer ==
  /\ timer
  /\ sendTimeout' = CountDown
  /\ keepAliveTick' = IF connState = "MQTT_DATA" THEN keepAliveTick + 1 ELSE keepAliveTick
  /\ LET pingDue == connState = "MQTT_DATA" /\ keepAliveTick' > KeepAlive
         retryDue == connState = "TCP_RECONNECT_REQ" /\ reconnectTick + 1 > ReconnectTimeout
     IN /\ reconnectTick' = IF retryDue THEN 0
                            ELSE IF connState = "TCP_RECONNECT_REQ" THEN reconnectTick + 1
                            ELSE reconnectTick
        /\ connState' = IF pingDue THEN "MQTT_KEEPALIVE_SEND"
                        ELSE IF retryDue THEN "TCP_RECONNECT" ELSE connState
        /\ Wake(pingDue \/ retryDue)
  /\ UNCHANGED <<pending, queued, timer, net, wifi, changes>>

-----------------------------------------------------------------------------
\* Callbacks of the TCP layer, on the current socket or on a forgotten one.

\* Variant: the session starts without waiting for the broker's answer.
HandshakeSkipped ==
  pending' = "CONNECT" /\ sendTimeout' = SendTimeout /\ connState' = "MQTT_DATA" /\ posted' = TRUE

\* Variant: the pending message type is left from the last connection.
HandshakeUnmarked ==
  UNCHANGED pending /\ sendTimeout' = SendTimeout /\ connState' = "MQTT_CONNECT_SENDING" /\ posted' = TRUE

\* CONNECT is on its way.
Handshake ==
  pending' = "CONNECT" /\ sendTimeout' = SendTimeout /\ connState' = "MQTT_CONNECT_SENDING" /\ posted' = TRUE

\* mqtt_tcpclient_connect_cb: the callbacks are registered and CONNECT is sent
\* on the client's current socket, whichever socket connected.
Connected(s) == \E ok \in BOOLEAN :
  /\ sock[s] = "connecting" /\ status = "gotIp"
  /\ espconn_send([sock EXCEPT ![s] = IF s = 0 THEN "open" ELSE "deaf"], "CONNECT", ok)
  /\ Handshake
  /\ UNCHANGED <<keepAliveTick, reconnectTick, queued, timer, lookup, wifi, changes>>

\* mqtt_tcpclient_recv of the broker's answer: its return code is not looked at.
Connack(s, answer) ==
  /\ sock[s] = "handshake" /\ status = "gotIp"
  /\ LET sk == [sock EXCEPT ![s] = answer]
         accepted == connState = "MQTT_CONNECT_SENDING" /\ pending = "CONNECT"
     IN /\ connState' = IF accepted THEN "MQTT_DATA" ELSE connState
        /\ queued' \in IF accepted THEN mqttConnectedCb ELSE {queued}
        /\ sock' = IF connState = "MQTT_CONNECT_SENDING" /\ ~accepted
                   THEN espconn_disconnect(sk) ELSE sk
  /\ keepAliveTick' = 0
  /\ posted' = TRUE
  /\ UNCHANGED <<pending, reconnectTick, sendTimeout, timer, unacked, lookup, wifi, changes>>

\* mqtt_tcpclient_recv of anything else: in a session it may queue an
\* acknowledgement, and dataCb may make requests.
Data(s) ==
  /\ sock[s] = "online" /\ status = "gotIp"
  /\ queued' \in IF InSession THEN mqttDataCb ELSE {queued}
  /\ keepAliveTick' = 0
  /\ posted' = TRUE
  /\ UNCHANGED <<connState, pending, reconnectTick, sendTimeout, timer, net, wifi, changes>>

\* Variant: the task is not told that it may send again.
ReportedQuietly == sendTimeout' = 0 /\ keepAliveTick' = 0 /\ UNCHANGED posted

Reported == sendTimeout' = 0 /\ keepAliveTick' = 0 /\ posted' = TRUE

\* mqtt_tcpclient_sent_cb; publishedCb only logs.
SentCb(s) ==
  /\ unacked[s] > 0 /\ sock[s] \in Established
  /\ unacked' = [unacked EXCEPT ![s] = @ - 1]
  /\ Reported
  /\ UNCHANGED <<connState, pending, reconnectTick, queued, timer, sock, lookup, wifi, changes>>

\* What is left of socket s when its connection is over.
Ended(s) == [sock EXCEPT ![s] = IF s = 0 THEN "idle" ELSE "none"]

\* mqtt_tcpclient_discon_cb; this firmware's callback publishes its status and
\* connects, one that does neither leaves it to the timer.
Closed(s) == \E connects \in AppReconnects :
  /\ sock[s] \in Established \cup {"closing"}
  /\ posted' = TRUE
  /\ IF connects
     THEN /\ MQTT_Connect(Ended(s))
          /\ queued' \in mqttDisconnectedCb
          /\ UNCHANGED <<pending, sendTimeout, wifi, changes>>
     ELSE /\ connState' = IF connState = "TCP_DISCONNECTING" THEN "TCP_DISCONNECTED"
                          ELSE "TCP_RECONNECT_REQ"
          /\ sock' = Ended(s)
          /\ unacked' = [unacked EXCEPT ![s] = 0]
          /\ UNCHANGED <<pending, keepAliveTick, reconnectTick, sendTimeout, queued, timer, lookup, wifi, changes>>

\* mqtt_tcpclient_recon_cb: the attempt failed or the connection broke.
Broke(s) ==
  /\ sock[s] \in Established \cup {"connecting", "closing", "deaf"}
  /\ sock' = Ended(s)
  /\ unacked' = [unacked EXCEPT ![s] = 0]
  /\ Retry
  /\ posted' = TRUE
  /\ UNCHANGED <<pending, keepAliveTick, reconnectTick, sendTimeout, queued, timer, lookup, wifi, changes>>

\* mqtt_dns_found without an address: nothing is posted.
DnsFailed ==
  /\ dns > 0
  /\ dns' = dns - 1
  /\ Retry
  /\ UNCHANGED <<pending, keepAliveTick, reconnectTick, sendTimeout, queued, timer, posted, sock, unacked, ip, passed, wifi, changes>>

\* mqtt_dns_found with an address, also when it is the answer to an earlier lookup:
\* client->ip is never set here, so any but 0.0.0.0 connects the current socket, until
\* an answer known at once has set it.
Taken(zero) == ~ip /\ ~zero

DnsFound(zero) ==
  /\ dns > 0 /\ status = "gotIp" /\ (Taken(zero) => sock[0] # "none")
  /\ dns' = dns - 1
  /\ sock' = IF Taken(zero) THEN espconn_connect(sock) ELSE sock
  /\ connState' = IF Taken(zero) THEN "TCP_CONNECTING" ELSE connState
  /\ passed' = ~Taken(zero)
  /\ posted' = TRUE
  /\ UNCHANGED <<pending, keepAliveTick, reconnectTick, sendTimeout, queued, timer, unacked, ip, wifi, changes>>

\* The same without a socket writes through a null pointer: the chip resets.
DnsFoundTooLate ==
  /\ dns > 0 /\ status = "gotIp" /\ Taken(FALSE) /\ sock[0] = "none"
  /\ user_init_mqtt
  /\ sock' = [s \in Socket |-> "none"]
  /\ unacked' = [s \in Socket |-> 0]
  /\ dns' = 0
  /\ status' = "idle" /\ lastWifiStatus' = "idle"
  /\ UNCHANGED changes

-----------------------------------------------------------------------------
\* The station and the application.

Status == {"idle", "connecting", "gotIp"}

\* The station gets or loses its address, or tries again.
LinkChange ==
  /\ status' \in Status \ {status}
  /\ UNCHANGED <<client, net, lastWifiStatus, changes>>

\* What the application does with a new status; the rest of it is the clock.
wifiConnectCb ==
  IF status = "gotIp"
  THEN MQTT_Connect(sock) /\ UNCHANGED posted
  ELSE MQTT_Disconnect /\ UNCHANGED <<keepAliveTick, reconnectTick, net>>

\* wifi_check_ip tells wifiConnectCb only when the status differs from the one
\* it saw last: what happens between two polls stays unseen.
wifi_check_ip ==
  /\ status # lastWifiStatus
  /\ lastWifiStatus' = status
  /\ wifiConnectCb
  /\ UNCHANGED <<pending, sendTimeout, queued, status, changes>>

\* userWebServerDataChangedCb: MQTT_Disconnect, and at once user_init_mqtt, which
\* clears the client before the task has run.  The socket stays connected, with
\* its callbacks leading to the client, which knows it no more.
ChangeSettings ==
  /\ changes < MaxChanges
  /\ changes' = changes + 1
  /\ user_init_mqtt
  /\ sock' = [sock EXCEPT ![0] = "none", ![changes + 1] = IF sock[0] = "idle" THEN "none" ELSE sock[0]]
  /\ unacked' = [unacked EXCEPT ![0] = 0, ![changes + 1] = unacked[0]]
  /\ UNCHANGED <<dns, wifi>>

-----------------------------------------------------------------------------

\* Everything but the tick of the timer and the arrival of data.
Handlers ==
  \/ MQTT_Task \/ wifi_check_ip
  \/ MQTT_Publish \/ ChangeSettings
  \/ \E s \in Socket : \/ Connected(s) \/ SentCb(s) \/ Closed(s) \/ Broke(s)
                       \/ \E answer \in {"online", "refused"} : Connack(s, answer)
  \/ \E zero \in BOOLEAN : DnsFound(zero)
  \/ DnsFailed \/ DnsFoundTooLate
  \/ LinkChange

Next == Handlers \/ mqtt_timer \/ (\E s \in Socket : Data(s))

\* The SDK runs posted tasks and armed timers.  A posted event is taken long
\* before the ticks of a keepalive period are over, so a send that is due again
\* and again is not overtaken by the timer each time; nor is the report of a sent
\* packet, which the peer's TCP acknowledges.  Every attempt of the network ends
\* somehow: a lookup, a connection, a disconnection, a packet handed over.
\* A broker answers CONNECT or closes, and closes a connection that it refused
\* or that the client has stopped pinging.  What is tried again and again on a
\* network that works succeeds at some time.
Fairness ==
  /\ WF_vars(MQTT_Task) /\ WF_vars(mqtt_timer) /\ WF_vars(wifi_check_ip)
  /\ SF_vars(Task_Data)
  /\ WF_vars(DnsFound(FALSE) \/ DnsFound(TRUE) \/ DnsFailed) /\ SF_vars(DnsFound(FALSE))
  /\ WF_vars(sock[0] = "connecting" /\ (Connected(0) \/ Broke(0)))
  /\ SF_vars(Connected(0) /\ sock'[0] = "handshake")
  /\ WF_vars(sock[0] = "closing" /\ (Closed(0) \/ Broke(0)))
  /\ WF_vars(sock[0] = "handshake" /\ (Closed(0) \/ Connack(0, "online")))
  /\ SF_vars(Connack(0, "online"))
  /\ WF_vars(SentCb(0)) /\ SF_vars(connState = "MQTT_DATA" /\ SentCb(0))
  /\ WF_vars((sock[0] \in {"open", "refused"} \/ (sock[0] = "online" /\ ~InSession)) /\ Closed(0))

Spec == Init /\ [][Next]_vars
FairSpec == Spec /\ Fairness

-----------------------------------------------------------------------------

TypeOK ==
  /\ connState \in ConnState
  /\ pending \in {"none", "CONNECT", "PINGREQ", "OTHER"}
  /\ keepAliveTick \in 0 .. KeepAlive + 1
  /\ reconnectTick \in 0 .. ReconnectTimeout
  /\ sendTimeout \in 0 .. SendTimeout
  /\ queued \in 0 .. QMax
  /\ timer \in BOOLEAN /\ posted \in BOOLEAN
  /\ sock \in [Socket -> SockState]
  /\ unacked \in [Socket -> 0 .. MaxUnacked]
  /\ dns \in 0 .. MaxLookups /\ ip \in BOOLEAN /\ passed \in BOOLEAN
  /\ status \in Status /\ lastWifiStatus \in Status
  /\ changes \in 0 .. MaxChanges

\* The client's idea of the session agrees with the connection it has: until the
\* settings change it is in a session only on the current socket, after the broker
\* answered on that very socket, and waits for an answer only on a connected one;
\* no old event ever leads it astray (mqtt.c:252-272, 443-476).
SessionOpen ==
  changes = 0 =>
    /\ InSession => sock[0] \in {"online", "refused"}
    /\ connState = "MQTT_CONNECT_SENDING" => sock[0] \in {"open", "handshake"}

\* On every connection made until the settings change, the broker sees CONNECT
\* first, once, and nothing else before its answer (mqtt.c:443-476, 653-680).
ProtocolOrder == changes = 0 => \A s \in Socket : sock[s] # "broken"

\* A CONNACK that is waited for always finds CONNECT as the pending message, even
\* after a change of settings, so the branch for an invalid packet is dead
\* (mqtt.c:253-266).
HandshakePending == connState = "MQTT_CONNECT_SENDING" => pending = "CONNECT"

\* No state that the task must act upon is left without an event for it, though
\* the queue holds one event and a full queue drops a post: either the event is
\* there or the task has done its part (mqtt.c:621-683 against every writer of
\* connState).
Attended ==
  \/ posted
  \/ /\ connState \notin {"TCP_RECONNECT", "MQTT_KEEPALIVE_SEND"}
     /\ connState = "TCP_DISCONNECTED" => sock[0] = "none"
     /\ connState \in {"TCP_DISCONNECTING", "TCP_RECONNECT_DISCONNECTING"} => sock[0] \notin Established

\* A lookup, an attempt or a connection is there whose end will call the client back.
UnderWay == dns > 0 \/ sock[0] \in Established \cup {"connecting", "closing"}

\* In TCP_CONNECTING, a state without a timeout, nothing is under way, after an answer
\* that espconn_gethostbyname knew at once or that mqtt_dns_found passed over.
Stranded == connState = "TCP_CONNECTING" /\ ~UnderWay /\ passed

\* The client waits in TCP_CONNECTING for nothing only if it is stranded: no failed
\* lookup, refused or broken connection, full table of lookups or late callback leads
\* there.  This needs a host name: with an address espconn_connect may fail at once
\* and nobody is called (mqtt.c:59-103, 417-436, 813-832).
AttemptUnderWay == connState = "TCP_CONNECTING" => UnderWay \/ Stranded

\* Once Wi-Fi stays up and unless the client strands, it is in a session again and
\* again, whatever connections broke, answers were late and callbacks crossed before
\* (mqtt.c:59-103, 371-400, 417-436, 621-655).
Reconnects == <>[](status = "gotIp" /\ ~Stranded) => []<>(connState = "MQTT_DATA" /\ sock[0] = "online")

\* In a session that lasts while Wi-Fi is up and messages wait, messages are sent again and again,
\* though only an event lets the task look at the queue and none is posted when
\* sendTimeout runs out (mqtt.c:656-658, 410-411).
Flows == <>[](status = "gotIp" /\ InSession /\ queued > 0) => []<><<Task_Data>>_vars
=============================================================================
