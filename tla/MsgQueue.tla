------------------------------ MODULE MsgQueue ------------------------------
(***************************************************************************)
(* The MQTT send queue: mqtt/queue.c and the byte framing of mqtt/proto.c  *)
(* over the ring buffer, driven by the three kinds of callers in           *)
(* mqtt/mqtt.c.  A frame is 7E, the bytes of the message with 7D, 7E and   *)
(* 7F escaped as 7D and the byte xor 20, then 7F.                          *)
(*                                                                         *)
(* The ring buffer is the sequence of its characters (RingBuf implements   *)
(* ByteFifo).  Every caller runs to completion, so a call is one step.     *)
(***************************************************************************)
EXTENDS Integers, Sequences, SequencesExt

CONSTANTS QUEUE_BUFFER_SIZE,  \* characters the ring holds
          MaxLen,             \* MQTT_BUF_SIZE: the longest message
          Msg                 \* the messages, sequences of characters

Char == 0 .. 255

ASSUME QueueAssumption == /\ QUEUE_BUFFER_SIZE \in Nat /\ QUEUE_BUFFER_SIZE >= 2
                          /\ MaxLen \in Nat
                          /\ \A m \in Msg : m \in Seq(Char) /\ Len(m) <= MaxLen

VARIABLES rb,      \* characters in the ring, oldest first
          sent,    \* the last message handed to espconn_send
          res      \* how the last call ended

queueVars == <<rb, sent, res>>

Esc == 125
Begin == 126
End == 127

\* value ^ 0x20
Xor20(v) == IF (v \div 32) % 2 = 1 THEN v - 32 ELSE v + 32

-----------------------------------------------------------------------------
\* Writing: PROTO_AddRb.

Escaped(v) == IF v \in {Esc, Begin, End} THEN <<Esc, Xor20(v)>> ELSE <<v>>

Frame == [m \in Msg |-> <<Begin>> \o FlattenSeq([i \in DOMAIN m |-> Escaped(m[i])]) \o <<End>>]

\* Variant: a put that finds no room takes back what it wrote.
PutsOrNothing(r, m) ==
  LET f == Frame[m] fits == Len(r) + Len(f) <= QUEUE_BUFFER_SIZE
  IN [ok |-> fits, rb |-> IF fits THEN r \o f ELSE r]

\* QUEUE_Puts: the frame goes in one character at a time; when the ring is full
\* the characters already written stay behind as a fragment.
QUEUE_Puts(r, m) ==
  LET all == r \o Frame[m]
  IN [ok |-> Len(all) <= QUEUE_BUFFER_SIZE, rb |-> SubSeq(all, 1, IF Len(all) <= QUEUE_BUFFER_SIZE THEN Len(all) ELSE QUEUE_BUFFER_SIZE)]

-----------------------------------------------------------------------------
\* Reading: PROTO_ParseRb.

\* PROTO_Init leaves isBegin unset: b is what the stack held.
PROTO_Init(b) == [data |-> <<>>, esc |-> FALSE, begin |-> b]

\* One character other than 7F.
PROTO_ParseByte(p, v) ==
  CASE v = Esc   -> [p EXCEPT !.esc = TRUE]
    [] v = Begin -> [data |-> <<>>, esc |-> FALSE, begin |-> TRUE]
    [] OTHER     ->
         IF ~p.begin THEN p
         ELSE LET w == IF p.esc THEN Xor20(v) ELSE v
              IN [p EXCEPT !.esc = FALSE,
                           !.data = IF Len(@) < MaxLen THEN Append(@, w) ELSE @]

Decode(r, b) ==
  LET after[n \in 0 .. Len(r)] == IF n = 0 THEN PROTO_Init(b)
                                  ELSE PROTO_ParseByte(after[n - 1], r[n])
  IN after[Len(r)].data

\* Variant: no more characters are read than an unescaped message takes.
GetsTooShort(r, b) ==
  LET e == SelectInSeq(r, LAMBDA v : v = End)
  IN IF e = 0 \/ e > MaxLen + 2
     THEN [ok |-> FALSE, rb |-> SubSeq(r, MaxLen + 3, Len(r)), msg |-> <<>>]
     ELSE [ok |-> TRUE, rb |-> SubSeq(r, e + 1, Len(r)), msg |-> Decode(SubSeq(r, 1, e - 1), b)]

\* QUEUE_Gets takes the characters up to the first 7F, or the whole ring when
\* there is none.
QUEUE_Gets(r, b) ==
  LET e == SelectInSeq(r, LAMBDA v : v = End)
  IN IF e = 0 THEN [ok |-> FALSE, rb |-> <<>>, msg |-> <<>>]
     ELSE [ok |-> TRUE, rb |-> SubSeq(r, e + 1, Len(r)), msg |-> Decode(SubSeq(r, 1, e - 1), b)]

-----------------------------------------------------------------------------
\* The callers in mqtt/mqtt.c.

\* Variant: the message is dropped at the first lack of room.
MakeRoomOnce(r, m) ==
  LET p == QUEUE_Puts(r, m) IN [state |-> IF p.ok THEN "queued" ELSE "failed", rb |-> p.rb]

\* One round of the loop of MQTT_Publish: put, and if that fails take the oldest
\* message out.
Round(l, m) ==
  LET p == QUEUE_Puts(l.rb, m) g == QUEUE_Gets(p.rb, FALSE)
  IN IF l.state # "putting" THEN l
     ELSE IF p.ok THEN [state |-> "queued", rb |-> p.rb]
     ELSE [state |-> IF g.ok THEN "putting" ELSE "failed", rb |-> g.rb]

\* A round that is not the last takes one 7F out of the ring, and a put that fails
\* brings none in, so there are no more rounds than these.
MakeRoom(r, m) ==
  LET after[n \in 0 .. QUEUE_BUFFER_SIZE + 1] ==
        IF n = 0 THEN [state |-> "putting", rb |-> r] ELSE Round(after[n - 1], m)
  IN after[QUEUE_BUFFER_SIZE + 1]

QueueInit == rb = <<>> /\ sent = <<>> /\ res = "none"

\* MQTT_Publish, MQTT_Subscribe, MQTT_UnSubscribe and MQTT_Ping.
Enqueue(m) == LET e == MakeRoom(rb, m) IN
  /\ rb' = e.rb
  /\ res' = e.state
  /\ UNCHANGED sent

\* mqtt_tcpclient_recv queues an acknowledgement and only logs a failure.
Reply(m) == LET p == QUEUE_Puts(rb, m) IN
  /\ rb' = p.rb
  /\ res' = IF p.ok THEN "queued" ELSE "dropped"
  /\ UNCHANGED sent

\* MQTT_Task in MQTT_DATA takes the next message, if the queue is not empty.
Send(b) == LET g == QUEUE_Gets(rb, b) IN
  /\ rb # <<>>
  /\ rb' = g.rb
  /\ sent' = IF g.ok THEN g.msg ELSE sent
  /\ res' = IF g.ok THEN "sent" ELSE "nothing"

QueueNext == \/ \E m \in Msg : Enqueue(m) \/ Reply(m)
             \/ \E b \in BOOLEAN : Send(b)

QueueSpec == QueueInit /\ [][QueueNext]_queueVars

-----------------------------------------------------------------------------

\* A reader always starts at the beginning of a frame or of a fragment, so the
\* isBegin flag that PROTO_Init leaves unset never decides anything
\* (proto.c:60-61 and 34).
StartsAtBegin == rb # <<>> => Head(rb) = Begin

\* What the task would take out of the ring r from now on, oldest first: each message
\* with the characters it takes up, which are its frame and, before it, the fragments
\* of puts that found the ring full.
ScanByte(s, v) ==
  IF v = End THEN [whole  |-> Append(s.whole, [msg |-> s.parser.data, len |-> s.taken + 1]),
                   parser |-> PROTO_Init(FALSE), taken |-> 0]
  ELSE [s EXCEPT !.parser = PROTO_ParseByte(@, v), !.taken = @ + 1]

Scan(r) ==
  LET after[n \in 0 .. Len(r)] == IF n = 0 THEN [whole |-> <<>>, parser |-> PROTO_Init(FALSE), taken |-> 0]
                                  ELSE ScanByte(after[n - 1], r[n])
  IN after[Len(r)].whole

\* The whole messages in the ring.
Waiting == LET w == Scan(rb) IN [k \in DOMAIN w |-> w[k].msg]

Queue == INSTANCE LossyFifo WITH queue <- Waiting

\* The framed ring is a FIFO of whole messages: whatever fragments full rings
\* leave behind, no message is ever cut, joined with another, altered or sent
\* out of order (queue.c:42-50, proto.c:13-128).
WholeMessages == Queue!Spec

\* A request succeeds if its frame fits now, or if some single queued
\* message takes up as much as the frame: each failing put fills the room that
\* the last eviction made, so evictions do not add up.  A success costs the
\* messages up to the first such one, a failure costs the whole queue
\* (mqtt.c:521-527 and the same loop in Subscribe, UnSubscribe and Ping).
RoomNeeded == [][\A m \in Msg : Enqueue(m) =>
  LET need == Len(Frame[m])
      k == IF Len(rb) + need <= QUEUE_BUFFER_SIZE THEN 0
           ELSE SelectInSeq(Scan(rb), LAMBDA w : w.len >= need)
  IN IF k = 0 /\ Len(rb) + need > QUEUE_BUFFER_SIZE
     THEN res' = "failed" /\ rb' = <<>>
     ELSE res' = "queued" /\ Waiting' = Append(SubSeq(Waiting, k + 1, Len(Waiting)), m)]_queueVars
=============================================================================
