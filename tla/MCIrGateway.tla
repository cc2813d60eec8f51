---------------------------- MODULE MCIrGateway -----------------------------
(* Texts whose packets are one byte below, at and above the lengths where the
   number of digits changes and where the buffer ends. *)
EXTENDS IrGateway

MCstatusTopic == <<1>>
MCcmdTopic == <<2>>
MCfbTopic == <<3>>
MCInfo == [client_id |-> <<7>>, will_topic |-> <<1>>, will_message |-> <<0>>, will_qos |-> 2, will_retain |-> TRUE,
           username |-> <<8>>, password |-> <<9>>, keepalive |-> 60, clean_session |-> TRUE]
MClwtData == [k \in 1 .. 10 |-> 0]
MClwtDataLive == [k \in 1 .. 11 |-> 1]

\* A report of the second is too long for the buffer, a command with it is not.
Short == <<9>>
Long == <<100, 101, 255, 7>>
MCReports == {Short, Long}

Command(cmd, d) == Filler \o <<cmd, 0, 0, Len(base64_encode(d))>> \o base64_encode(d)
\* An identifier that is no number.
Learn == Filler \o <<1, -1, Absent, Absent>>
Texts == {Command(3, Short), Command(3, Long), Learn, Filler \o <<3, Absent, Absent, Absent>>,
          Filler \o <<3, Absent, Absent, 4>>, <<>>}

Publish(topic, qos, text) == Sent(Type.PUBLISH, qos, IF qos = 0 THEN None ELSE 258, topic, text)
Pubrec == Sent(Type.PUBREC, 0, 258, <<>>, <<>>)
Pubrel == Sent(Type.PUBREL, 1, 258, <<>>, <<>>)
MCSegments ==
  {<<p>> : p \in {Sent(Type.CONNACK, 0, None, <<>>, <<>>), Sent(Type.PINGREQ, 0, None, <<>>, <<>>),
                  Publish(MCcmdTopic, 2, Learn)}}
  \cup {<<Publish(MCcmdTopic, 0, t)>> : t \in Texts}
  \cup {<<Publish(MCstatusTopic, 1, <<0>>), Publish(MCcmdTopic, 0, Learn)>>,
        <<Publish(MCcmdTopic, 0, Command(3, Short)), Pubrec>>,
        <<Pubrel, Publish(MCcmdTopic, 0, Learn)>>,
        <<Publish(MCcmdTopic, 0, Command(3, Long)), Publish(MCcmdTopic, 0, Learn)>>}
=============================================================================
