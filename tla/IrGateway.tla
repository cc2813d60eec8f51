----------------------------- MODULE IrGateway ------------------------------
(***************************************************************************)
(* The way of an infrared command through the device and of a report back: *)
(* received segments of MQTT (mqtt/mqtt.c, mqtt_tcpclient_recv), the       *)
(* callbacks of the application (user/user_mqtt.c, user/user_main.c), the  *)
(* JSON text and the statics it is read into and written from              *)
(* (user/user_ir.c), and the packets to the controller (IrUart).  Packets  *)
(* of MQTT are made and read with MqttMsg; what is queued is sent as in    *)
(* MsgQueue, and connections come and go as in MqttClient.                 *)
(*                                                                         *)
(* A text of JSON is its four numbers and its data behind Wording bytes    *)
(* for all the rest.  A number is what Atoi makes of its text, -1 if that  *)
(* is no number; a field that is missing reads Absent.                     *)
(***************************************************************************)
EXTENDS MqttMsg, IrUart, Base64, SequencesExt

CONSTANTS Info,          \* connect_info
          statusTopic, cmdTopic, fbTopic,
          lwtData, lwtDataLive,
          Wording,       \* bytes of a text besides its numbers and its data
          Segments,      \* segments that a broker sends, as sequences of packets
          Reports        \* payloads, of reports and of commands

Absent == -2

VARIABLES
  connState,
  message_id,    \* of mqtt_connection
  pdata,         \* what mqtt_tcpclient_recv has not read of a segment
  todo,          \* history: the packets that pdata was made of
  out,           \* packets that the last handler put into the queue
  asked,         \* history: what they are to say
  ir,            \* the statics of user_ir.c
  loose          \* history: length and data of ir were not given together

mqttVars == <<connState, message_id, pdata, todo>>
vars == <<mqttVars, out, asked, ir, loose, txVars>>

-----------------------------------------------------------------------------
\* Packets as MQTT 3.1 defines them: a first byte, the remaining length, and a body
\* with an identifier in it; Own stands for one that the device chooses.

None == 0
Own == -1

Says(first, before, id, after) == [first |-> first, before |-> before, id |-> id, after |-> after]

Ack(type, qos, id) == Says(16 * type + 2 * qos, <<>>, id, <<>>)
Subscription(topic) == Says(16 * Type.SUBSCRIBE + 2, <<>>, Own, append_string(topic) \o <<0>>)
Publication(topic, text, retain) == Says(16 * Type.PUBLISH + 4 + retain, append_string(topic), Own, text)

\* CONNECT with a will of quality 2 that is kept; user and password only if there are any.
Connection(info) ==
  LET given(s) == IF s = <<>> THEN <<>> ELSE append_string(s)
      flags == 2 + 4 + 16 + 32 + (IF info.username = <<>> THEN 0 ELSE 128) + (IF info.password = <<>> THEN 0 ELSE 64)
  IN Says(16 * Type.CONNECT,
          <<0, 6, 77, 81, 73, 115, 100, 112, 3, flags>> \o Bytes2(info.keepalive)
          \o append_string(info.client_id) \o append_string(info.will_topic) \o append_string(info.will_message)
          \o given(info.username) \o given(info.password), None, <<>>)

\* A packet of the broker: a PUBLISH of quality qos, or one with an identifier only.
Sent(type, qos, id, topic, text) == [type |-> type, qos |-> qos, id |-> id, topic |-> topic, text |-> text]

\* An identifier, if there is one.
Number(id) == IF id = None THEN <<>> ELSE Bytes2(id)

\* A remaining length of one digit or two, lowest first, the first of two marked.
Remaining(n) == IF n < Digit THEN <<n>> ELSE <<Digit + (n % Digit), n \div Digit>>

Content(p) == IF p.type = Type.PUBLISH THEN append_string(p.topic) \o Number(p.id) \o p.text ELSE Number(p.id)

Wire(p) == <<16 * p.type + 2 * p.qos>> \o Remaining(Len(Content(p))) \o Content(p)

\* What a broker sends: a PUBLISH has a topic, and an identifier if its quality asks
\* for one; the packets that are answered by identifier have one.
BrokerPackets ==
  {p \in [type : 1 .. 15, qos : 0 .. 2, id : Nat, topic : Seq(Int), text : Seq(Int)] :
     /\ p.type = Type.PUBLISH => p.topic # <<>> /\ (p.id = None <=> p.qos = 0)
     /\ p.type \in {Type.PUBREC, Type.PUBREL} => p.id # None}

\* Packets one behind the other.
OnWire(s) == FlattenSeq([k \in 1 .. Len(s) |-> Wire(s[k])])

\* The bytes b say p: the length is that of the body in the fewest digits, lowest
\* first, each but the last marked.
Means(b, p) ==
  \E k \in 1 .. 4, id \in IF p.id = Own THEN 1 .. IdSpan - 1 ELSE {p.id} :
    /\ k < Len(b) /\ b[1] = p.first
    /\ \A i \in 2 .. k : b[i] >= Digit
    /\ b[k + 1] < Digit /\ (k > 1 => b[k + 1] # 0)
    /\ Len(b) - k - 1 = Digits(b, k)
    /\ SubSeq(b, k + 2, Len(b)) = p.before \o Number(id) \o p.after

\* The lengths of coded texts that stand for no more than tx_buf takes.
Lengths == {n \in Nat : (6 * n) \div 8 <= TxBuf}

\* A remaining length in the buffer has two digits at most, broker and controller send
\* what they can, the fixed texts fit into the buffer, and Info is what
\* MQTT_InitClient and MQTT_InitLWT leave.
ASSUME IrGatewayAssumption ==
  /\ BufSize <= Digit * Digit
  /\ Wording \in Nat
  /\ Segments \subseteq Seq(BrokerPackets) \ {<<>>}
  /\ Reports \subseteq Seq(Byte) /\ \A d \in Reports : Len(base64_encode(d)) \in Lengths
  /\ {statusTopic, cmdTopic, fbTopic} \subseteq Seq(Int) \ {<<>>}
  /\ {lwtData, lwtDataLive} \subseteq Seq(Int) \ {<<>>}
  /\ MQTT_MAX_FIXED_HEADER_SIZE + Len(statusTopic) + Len(lwtDataLive) + 4 <= BufSize
  /\ MQTT_MAX_FIXED_HEADER_SIZE + Len(cmdTopic) + 5 <= BufSize
  /\ Info \in [client_id : Seq(Int) \ {<<>>}, will_topic : Seq(Int) \ {<<>>}, will_message : Seq(Int),
              username : Seq(Int), password : Seq(Int), keepalive : Nat,
              clean_session : {TRUE}, will_retain : {TRUE}, will_qos : {2}]

-----------------------------------------------------------------------------
\* Requests to the client: what goes into the queue, and what was meant.

\* One request: a message that failed is not queued, and one that fits must not fail.
Request(packet, meant) ==
  /\ out' = IF packet = fail_message THEN <<>> ELSE <<packet>>
  /\ asked' = IF MQTT_MAX_FIXED_HEADER_SIZE + Len(meant.before) + Len(meant.after)
                  + (IF meant.id = None THEN 0 ELSE 2) <= BufSize
              THEN <<meant>> ELSE <<>>

Quiet == out' = <<>> /\ asked' = <<>>

\* MQTT_Publish of the status.  Nothing of a fixed text fails.
Status(text, id) == mqtt_msg_publish(statusTopic, text, 2, 1, id)

mqttConnectedCb ==
  LET first == NextId(message_id)
      second == NextId(first)
      third == NextId(second)
  IN /\ out' = <<mqtt_msg_subscribe(statusTopic, 0, first), Status(lwtDataLive, second),
                 mqtt_msg_subscribe(cmdTopic, 0, third)>>
     /\ asked' = <<Subscription(statusTopic), Publication(statusTopic, lwtDataLive, 1), Subscription(cmdTopic)>>
     /\ message_id' = third

mqttDisconnectedCb ==
  /\ Request(Status(lwtData, NextId(message_id)), Publication(statusTopic, lwtData, 1))
  /\ message_id' = NextId(message_id)

-----------------------------------------------------------------------------
\* The infrared commands.

Cut(s, n) == [k \in 1 .. n |-> IF k <= Len(s) THEN s[k] ELSE 0]

Filler == [k \in 1 .. Wording |-> 0]

\* json_ws_send of the statics.
JsonText(v) == Filler \o <<v.cmd, v.id_cmd, v.token, v.len_data>> \o v.data

uint8(x)  == x % 256
uint16(x) == x % 65536

\* ir_info_subscribed: each field of the text that is there.
ir_info_subscribed(v, text) ==
  LET fields == SubSeq(text, Wording + 1, Len(text))
      given(n) == Len(fields) >= n /\ fields[n] # Absent
  IN [cmd      |-> IF given(1) THEN uint8(fields[1]) ELSE v.cmd,
      id_cmd   |-> IF given(2) THEN uint8(fields[2]) ELSE v.id_cmd,
      token    |-> IF given(3) THEN uint16(fields[3]) ELSE v.token,
      len_data |-> IF given(4) THEN uint16(fields[4]) ELSE v.len_data,
      data     |-> IF given(5) THEN SubSeq(fields, 5, Len(fields)) ELSE v.data]

\* Which of length and data a text gives.
GivesLength(text) == Len(text) >= Wording + 4 /\ text[Wording + 4] # Absent
GivesData(text) == Len(text) > Wording + 4

\* A command with both has one of the payloads, coded, and its length.
HasPayload(text) ==
  \E d \in Reports : /\ SubSeq(text, Wording + 5, Len(text)) = base64_encode(d)
                    /\ uint16(text[Wording + 4]) = Len(base64_encode(d))

Payable(p) ==
  IsPrefix(cmdTopic, p.topic) /\ GivesLength(p.text) =>
    /\ uint16(p.text[Wording + 4]) \in Lengths
    /\ GivesData(p.text) => HasPayload(p.text)

ASSUME PayloadAssumption == \A s \in Segments : \A k \in 1 .. Len(s) : Payable(s[k])

irCmdCallback(v) ==
  LET coded == Cut(v.data, v.len_data)
  IN IF v.cmd = 1 THEN user_uart_packet_send(v.cmd, v.id_cmd, <<>>)
     ELSE IF v.cmd = 3
     THEN user_uart_packet_send(v.cmd, v.id_cmd, Cut(base64_decode(coded), base64_dec_len(coded)))
     ELSE UNCHANGED txVars

\* user_ir_json_parse with both its callbacks.
user_ir_json_parse(text) ==
  /\ ir' = ir_info_subscribed(ir, text)
  /\ loose' = IF GivesData(text) THEN ~GivesLength(text) ELSE GivesLength(text) \/ loose
  /\ irCmdCallback(ir')

\* Variant: the length stays that of the last command.
json_createNoLength(cmd, id, coded) == [ir EXCEPT !.cmd = cmd, !.id_cmd = id, !.data = coded]

\* user_ir_json_create; the token stays that of the last command.
user_ir_json_create(cmd, id, coded) ==
  [ir EXCEPT !.cmd = cmd, !.id_cmd = id, !.len_data = Len(coded), !.data = coded]

\* uartDataCallback: the controller reports.
uartDataCallback(cmd, id, d) ==
  /\ pdata = <<>>
  /\ IF cmd \in {2, 4}
     THEN /\ ir' = user_ir_json_create(cmd, id, base64_encode(d))
          /\ loose' = FALSE
          /\ Request(mqtt_msg_publish(fbTopic, JsonText(ir'), 2, 0, NextId(message_id)),
                     Publication(fbTopic, JsonText(ir'), 0))
          /\ message_id' = NextId(message_id)
     ELSE Quiet /\ UNCHANGED <<ir, loose, message_id>>
  /\ UNCHANGED <<connState, pdata, todo, txVars>>

\* A change of the mode.
user_ir_cmd_init ==
  /\ pdata = <<>>
  /\ ir' = [ir EXCEPT !.cmd = 0, !.id_cmd = 0, !.token = 0, !.len_data = 0]
  /\ Quiet
  /\ UNCHANGED <<mqttVars, loose, txVars>>

-----------------------------------------------------------------------------
\* The client.

Init ==
  /\ connState = "TCP_CONNECTING" /\ message_id = 0
  /\ pdata = <<>> /\ todo = <<>> /\ out = <<>> /\ asked = <<>>
  /\ ir = [cmd |-> 0, id_cmd |-> 0, token |-> 0, len_data |-> 0, data |-> <<>>]
  /\ loose = FALSE
  /\ InitTx

\* CONNECT is sent at once, not queued.
mqtt_tcpclient_connect_cb ==
  /\ connState = "TCP_CONNECTING" /\ pdata = <<>>
  /\ connState' = "MQTT_CONNECT_SENDING"
  /\ message_id' = 0
  /\ Request(mqtt_msg_connect(Info), Connection(Info))
  /\ UNCHANGED <<pdata, todo, ir, loose, txVars>>

mqtt_tcpclient_discon_cb ==
  /\ connState # "TCP_CONNECTING" /\ pdata = <<>>
  /\ connState' = "TCP_CONNECTING"
  /\ mqttDisconnectedCb
  /\ UNCHANGED <<pdata, todo, ir, loose, txVars>>

\* A segment arrives; it holds whole packets.
mqtt_tcpclient_recv == \E s \in Segments :
  /\ connState # "TCP_CONNECTING" /\ pdata = <<>>
  /\ pdata' = OnWire(s)
  /\ todo' = s
  /\ Quiet
  /\ UNCHANGED <<connState, message_id, ir, loose, txVars>>

\* Nothing of the rest is read.
Done == pdata' = <<>> /\ todo' = <<>>

\* mqttDataCb: the answer to a publication, if any, is in the queue before what the
\* callback puts there.
mqttDataCb(topic, text, response, acknowledged) ==
  IF IsPrefix(statusTopic, topic)
  THEN LET first == NextId(message_id)
           second == NextId(first)
       IN /\ out' = response \o <<mqtt_msg_unsubscribe(statusTopic, first), Status(lwtDataLive, second)>>
          /\ asked' = acknowledged \o
               <<Says(16 * Type.UNSUBSCRIBE + 2, <<>>, Own, append_string(statusTopic)),
                 Publication(statusTopic, lwtDataLive, 1)>>
          /\ message_id' = second
          /\ UNCHANGED <<ir, loose, txVars>>
  ELSE /\ out' = response /\ asked' = acknowledged
       /\ UNCHANGED message_id
       /\ IF IsPrefix(cmdTopic, topic) THEN user_ir_json_parse(text) ELSE UNCHANGED <<ir, loose, txVars>>

\* One round of mqtt_tcpclient_recv.  Only behind a PUBLISH the rest is read.
ReadPublish ==
  LET qos == mqtt_get_qos(pdata)
      id == mqtt_get_id(pdata)
      total == mqtt_get_total_length(pdata)
  IN /\ mqtt_get_type(pdata) = Type.PUBLISH
     /\ mqttDataCb(mqtt_get_publish_topic(pdata), mqtt_get_publish_data(pdata),
                   IF qos = 1 THEN <<mqtt_msg_puback(id)>> ELSE IF qos = 2 THEN <<mqtt_msg_pubrec(id)>> ELSE <<>>,
                   IF qos = 1 THEN <<Ack(Type.PUBACK, 0, Head(todo).id)>>
                   ELSE IF qos = 2 THEN <<Ack(Type.PUBREC, 0, Head(todo).id)>> ELSE <<>>)
     /\ IF total < Len(pdata) THEN pdata' = SubSeq(pdata, total + 1, Len(pdata)) /\ todo' = Tail(todo)
        ELSE Done

ReadOther ==
  LET id == mqtt_get_id(pdata)
      type == mqtt_get_type(pdata)
  IN /\ type # Type.PUBLISH
     /\ IF type = Type.PUBREC THEN Request(mqtt_msg_pubrel(id), Ack(Type.PUBREL, 1, Head(todo).id))
        ELSE IF type = Type.PUBREL THEN Request(mqtt_msg_pubcomp(id), Ack(Type.PUBCOMP, 0, Head(todo).id))
        ELSE IF type = Type.PINGREQ THEN Request(mqtt_msg_pingresp, Ack(Type.PINGRESP, 0, None))
        ELSE Quiet
     /\ Done
     /\ UNCHANGED <<message_id, ir, loose, txVars>>

\* A segment as long as the buffer is dropped.
TooLong ==
  /\ pdata # <<>> /\ Len(pdata) >= BufSize
  /\ Done /\ Quiet
  /\ UNCHANGED <<connState, message_id, ir, loose, txVars>>

ReadData ==
  /\ connState = "MQTT_DATA" /\ pdata # <<>> /\ Len(pdata) < BufSize
  /\ ReadPublish \/ ReadOther
  /\ UNCHANGED connState

ReadAnswer ==
  /\ connState = "MQTT_CONNECT_SENDING" /\ pdata # <<>> /\ Len(pdata) < BufSize
  /\ IF mqtt_get_type(pdata) = Type.CONNACK
     THEN connState' = "MQTT_DATA" /\ mqttConnectedCb
     ELSE Quiet /\ UNCHANGED <<connState, message_id>>
  /\ Done
  /\ UNCHANGED <<ir, loose, txVars>>

ReadPacket == ReadData \/ ReadAnswer \/ TooLong

-----------------------------------------------------------------------------

Timer == pdata = <<>> /\ tx_timeoutfunc /\ Quiet /\ UNCHANGED <<mqttVars, ir, loose>>
Line == Drain /\ Quiet /\ UNCHANGED <<mqttVars, ir, loose>>

Next ==
  \/ mqtt_tcpclient_connect_cb \/ mqtt_tcpclient_discon_cb \/ mqtt_tcpclient_recv \/ ReadPacket
  \/ \E cmd \in {2, 3}, id \in {0}, d \in Reports : uartDataCallback(cmd, id, d)
  \/ user_ir_cmd_init
  \/ Timer \/ Line

\* The UART sends what is in its FIFO, a handler ends (its rounds are always
\* possible and leave less to read), and a timer that is due again and again gets its
\* turn between two handlers.
Spec == Init /\ [][Next]_vars /\ []<>(pdata = <<>>) /\ WF_vars(Line) /\ SF_vars(Timer)

-----------------------------------------------------------------------------

\* Every packet that the device queues or sends is one that a broker reads as what
\* was meant: the length in one byte or two, flags, topic and text, an identifier of
\* its own that is not 0 across the wrap, and the peer's in an answer
\* (mqtt_msg.c:63-126 behind every request and answer).
Understood ==
  /\ Len(out) = Len(asked)
  /\ \A k \in 1 .. Len(out) : Means(out[k], asked[k])

\* However publications lie one behind the other in a segment, each is read from
\* its first byte, with its own topic, text and identifier, and what lies behind it
\* is neither taken into it nor skipped (mqtt.c:343-356, mqtt_msg.c:135-289).
ReadsPackets ==
  pdata # <<>> =>
    /\ pdata = OnWire(todo)
    /\ Head(todo).type = Type.PUBLISH /\ Len(pdata) < BufSize =>
         /\ mqtt_get_publish_topic(pdata) = Head(todo).topic
         /\ mqtt_get_publish_data(pdata) = Head(todo).text
         /\ Head(todo).qos > 0 => mqtt_get_id(pdata) = Head(todo).id

\* What the controller is sent is never put together from two things: a command
\* without data repeats a whole payload, be it of an earlier command or of a report
\* in between, or has none after a change of the mode; only a command that gives a
\* length without data, or data without its length, mixes (user_ir.c:99-131, 184-191).
WholePayloads == [][ rest = <<>> /\ rest' # <<>> /\ ~loose' => rest' \in Reports ]_vars

\* A payload under way is sent to its end, however many commands come meanwhile
\* (user_uart.c:66-79, 104).
SendsOut == is_uart_sending ~> ~is_uart_sending
=============================================================================
