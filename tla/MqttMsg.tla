------------------------------ MODULE MqttMsg -------------------------------
(***************************************************************************)
(* mqtt/mqtt_msg.c: the packets of MQTT 3.1, made in a buffer of BufSize   *)
(* bytes and read from one.  A packet is a sequence of bytes; the code     *)
(* puts the body behind room for the longest fixed header and the header   *)
(* in front of it when the length is known.                                *)
(***************************************************************************)
EXTENDS Integers, Sequences, FiniteSetsExt

CONSTANTS BufSize,   \* MQTT_BUF_SIZE
          IdSpan,    \* message identifiers wrap here: 2^16
          Digit      \* a byte of a length holds a digit below this: 128

ASSUME MsgAssumption ==
  BufSize \in Nat /\ IdSpan \in Nat \ {0, 1} /\ Digit \in Nat \ {0, 1, 2}

MQTT_MAX_FIXED_HEADER_SIZE == 3

\* mqtt_message_type
Type == [CONNECT |-> 1, CONNACK |-> 2, PUBLISH |-> 3, PUBACK |-> 4, PUBREC |-> 5, PUBREL |-> 6,
         PUBCOMP |-> 7, SUBSCRIBE |-> 8, SUBACK |-> 9, UNSUBSCRIBE |-> 10, UNSUBACK |-> 11,
         PINGREQ |-> 12, PINGRESP |-> 13]

-----------------------------------------------------------------------------
\* Making packets.

\* A message that failed has length 0.
fail_message == <<>>

Bytes2(n) == <<n \div 256, n % 256>>
append_string(s) == Bytes2(Len(s)) \o s

\* message_id of append_message_id: the next one that is not 0.
NextId(id) == IF (id + 1) % IdSpan = 0 THEN 1 ELSE (id + 1) % IdSpan

\* Variant: the length one too long for a digit still gets one.
LengthFieldShort(n) == IF n > Digit THEN <<Digit + (n % Digit), n \div Digit>> ELSE <<n>>

LengthField(n) == IF n > Digit - 1 THEN <<Digit + (n % Digit), n \div Digit>> ELSE <<n>>

\* fini_message, with the tests that every append makes: they differ only in what
\* they leave in the buffer, and the last of them is the hardest.
fini_message(type, qos, retain, body) ==
  IF MQTT_MAX_FIXED_HEADER_SIZE + Len(body) > BufSize THEN fail_message
  ELSE <<16 * type + 2 * qos + retain>> \o LengthField(Len(body)) \o body

\* mqtt_msg_connect for a client identifier, a will, a user and a password; an
\* empty one of the last three is left out, and no packet is without the first.
mqtt_msg_connect(info) ==
  LET has(s) == s # <<>>
      flag(c, n) == IF c THEN n ELSE 0
      optional(s) == IF has(s) THEN append_string(s) ELSE <<>>
      flags == flag(info.clean_session, 2) + flag(has(info.username), 128) + flag(has(info.password), 64)
               + flag(has(info.will_topic), 4 + flag(info.will_retain, 32) + 8 * info.will_qos)
      name == <<0, 6, 77, 81, 73, 115, 100, 112, 3>>
  IN IF ~has(info.client_id) THEN fail_message
     ELSE fini_message(Type.CONNECT, 0, 0,
            name \o <<flags>> \o Bytes2(info.keepalive) \o append_string(info.client_id)
            \o (IF has(info.will_topic) THEN append_string(info.will_topic) \o append_string(info.will_message)
                ELSE <<>>)
            \o optional(info.username) \o optional(info.password))

\* The identifier is only taken with a quality of service.
mqtt_msg_publish(topic, data, qos, retain, id) ==
  IF topic = <<>> THEN fail_message
  ELSE fini_message(Type.PUBLISH, qos, retain,
                    append_string(topic) \o (IF qos > 0 THEN Bytes2(id) ELSE <<>>) \o data)

mqtt_msg_puback(id)  == fini_message(Type.PUBACK, 0, 0, Bytes2(id))
mqtt_msg_pubrec(id)  == fini_message(Type.PUBREC, 0, 0, Bytes2(id))
mqtt_msg_pubrel(id)  == fini_message(Type.PUBREL, 1, 0, Bytes2(id))
mqtt_msg_pubcomp(id) == fini_message(Type.PUBCOMP, 0, 0, Bytes2(id))

mqtt_msg_subscribe(topic, qos, id) ==
  IF topic = <<>> THEN fail_message
  ELSE fini_message(Type.SUBSCRIBE, 1, 0, Bytes2(id) \o append_string(topic) \o <<qos>>)

mqtt_msg_unsubscribe(topic, id) ==
  IF topic = <<>> THEN fail_message
  ELSE fini_message(Type.UNSUBSCRIBE, 1, 0, Bytes2(id) \o append_string(topic))

mqtt_msg_pingresp == fini_message(Type.PINGRESP, 0, 0, <<>>)

-----------------------------------------------------------------------------
\* Reading packets from the buffer b.  An index counts from 0 as in the code, so
\* b[i + 1] is the byte at i.

mqtt_get_type(b) == b[1] \div 16
mqtt_get_qos(b)  == (b[1] % 8) \div 2

\* Where the body begins: behind the first byte that ends the length.
Body(b) ==
  LET last == {i \in 1 .. Len(b) - 1 : b[i + 1] < Digit}
  IN IF last = {} THEN Len(b) ELSE Min(last) + 1

\* The number that the k bytes behind the first one hold, lowest digit first.
Digits(b, k) ==
  LET from[i \in 1 .. k + 1] == IF i = k + 1 THEN 0 ELSE (b[i + 1] % Digit) + Digit * from[i + 1]
  IN from[1]

\* Variant: only the lowest digit counts.
mqtt_get_total_lengthLow(b) == Body(b) + (b[2] % Digit)

mqtt_get_total_length(b) == Body(b) + Digits(b, Body(b) - 1)

Number2(b, i) == 256 * b[i + 1] + b[i + 2]

NULL == <<-1>>

\* mqtt_get_publish_topic
mqtt_get_publish_topic(b) ==
  LET i == Body(b) IN
  IF i + 2 >= Len(b) \/ i + 2 + Number2(b, i) > Len(b) THEN NULL
  ELSE SubSeq(b, i + 3, i + 2 + Number2(b, i))

\* mqtt_get_publish_data, NULL with length 0 being no data: a packet without data
\* gives that, and one that is longer than what was read is cut.
mqtt_get_publish_data(b) ==
  LET i == Body(b)
      behind == i + 2 + Number2(b, i)
      start == behind + IF mqtt_get_qos(b) > 0 THEN 2 ELSE 0
      total == mqtt_get_total_length(b)
  IN IF \/ i + 2 >= Len(b) \/ behind >= Len(b)
        \/ mqtt_get_qos(b) > 0 /\ behind + 2 >= Len(b)
        \/ total < start
     THEN <<>>
     ELSE SubSeq(b, start + 1, IF total <= Len(b) THEN total ELSE Len(b))

\* mqtt_get_id, called with the size of the buffer as its length: of a PUBLISH it
\* is the two bytes behind the topic, which lie in the buffer if the packet does;
\* of an acknowledgement those behind a length of one byte.
mqtt_get_id(b) ==
  LET i == Body(b)
      behind == i + 2 + Number2(b, i)
      numbered == {Type[t] : t \in {"PUBACK", "PUBREC", "PUBREL", "PUBCOMP", "SUBACK", "UNSUBACK", "SUBSCRIBE"}}
  IN IF mqtt_get_type(b) = Type.PUBLISH /\ mqtt_get_qos(b) > 0 /\ i + 2 < BufSize /\ behind + 2 < BufSize
     THEN Number2(b, behind)
     ELSE IF mqtt_get_type(b) \in numbered /\ b[2] < Digit THEN Number2(b, 2)
     ELSE 0
=============================================================================
