------------------------------ MODULE UserUart ------------------------------
(***************************************************************************)
(* user/user_uart.c, the receiver of frames from the IR controller: a      *)
(* timer polls every 5 ms, takes at most one byte from the driver's line   *)
(* (SerialLine) and assembles START, two bytes of length, command,         *)
(* identifier, data, END.  A change of the communication mode initialises  *)
(* the receiver anew and arms one more poll timer, which makes polls more  *)
(* frequent and is one and the same action here.                           *)
(*                                                                         *)
(* The sender is external.  Within a frame it keeps the receiver waiting   *)
(* for at most Patience polls; between frames it may pause for any time.   *)
(***************************************************************************)
EXTENDS Integers, Sequences, SequencesExt

CONSTANTS MaxLen,      \* UART_RX_PKT_LEN
          Timeout,     \* polls without a byte that a packet survives
          Capacity,    \* bytes the driver and the hardware FIFO hold
          Patience,
          Frames,      \* frames the IR controller sends
          MaxLost      \* bound: bytes that get lost

START_PKT_FLAG == 200
END_PKT_FLAG == 201
HEADER_LEN == 6
Byte == 0 .. 255
\* What two bytes hold.
Lengths == {256 * h + l : h, l \in Byte}

FrameLen(f) == 256 * f[2] + f[3]

ASSUME UserUartAssumption ==
  /\ {Timeout, Capacity, Patience} \subseteq Nat \ {0} /\ MaxLost \in Nat
  /\ MaxLen \in Nat /\ MaxLen >= HEADER_LEN
  /\ Patience <= Timeout
  /\ \A f \in Frames : /\ f \in Seq(Byte) /\ Len(f) \in HEADER_LEN .. MaxLen /\ FrameLen(f) = Len(f)
                       /\ f[1] = START_PKT_FLAG /\ f[Len(f)] = END_PKT_FLAG

VARIABLES
  rest,           \* what the sender has still to send of its frame
  silence,        \* polls since the sender's last byte, within a frame
  line,           \* bytes that wait in the driver
  armed,          \* the poll timer runs
  startF,         \* inside a packet
  rxPacket, rxPacketIdx, rxPacketLen, rxTimeoutCntr,
  lost,           \* bytes lost so far
  got,            \* the last call of onUartDataAvailable
  owed,           \* auxiliary: frames sent and not delivered since in step
  inStep          \* auxiliary: nothing was lost or cut since both were at rest

sender   == <<rest, silence, lost>>
receiver == <<armed, startF, rxPacket, rxPacketIdx, rxPacketLen, rxTimeoutCntr, got>>
vars     == <<sender, line, receiver, owed, inStep>>

\* Slot MaxLen lies behind the array: the test of the length comes too late by one.
Slots == 0 .. MaxLen

Zeros == [s \in Slots |-> 0]

Init ==
  /\ rest = <<>> /\ silence = 0 /\ lost = 0 /\ line = <<>>
  /\ armed = FALSE /\ startF = FALSE
  /\ rxPacket = Zeros /\ rxPacketIdx = 0 /\ rxPacketLen = HEADER_LEN
  /\ rxTimeoutCntr = 0
  /\ got = <<>> /\ owed = <<>> /\ inStep = TRUE

-----------------------------------------------------------------------------
\* The sender and the line.

SendFrame(f) ==
  /\ rest = <<>>
  /\ rest' = f
  /\ silence' = 0
  /\ owed' = IF inStep THEN Append(owed, f) ELSE owed
  /\ UNCHANGED <<lost, line, receiver, inStep>>

OutOfStep == inStep' = FALSE /\ owed' = <<>>

SendByte ==
  /\ rest # <<>> /\ Len(line) < Capacity
  /\ line' = Append(line, Head(rest))
  /\ rest' = Tail(rest)
  /\ silence' = 0
  /\ UNCHANGED <<lost, receiver, owed, inStep>>

\* A byte is disturbed on its way or finds the driver full.
LoseByte ==
  /\ rest # <<>> /\ lost < MaxLost
  /\ lost' = lost + 1
  /\ rest' = Tail(rest)
  /\ silence' = 0
  /\ OutOfStep
  /\ UNCHANGED <<line, receiver>>

-----------------------------------------------------------------------------
\* The receiver.

user_uart_init ==
  /\ armed' = TRUE /\ startF' = FALSE
  /\ rxPacket' = Zeros /\ rxPacketIdx' = 0 /\ rxPacketLen' = HEADER_LEN
  /\ IF startF THEN OutOfStep ELSE UNCHANGED <<owed, inStep>>
  /\ UNCHANGED <<sender, line, rxTimeoutCntr, got>>

\* Variant: the packet times out one poll early.
InTimeEarly == rxTimeoutCntr + 1 < Timeout

InTime == rxTimeoutCntr + 1 <= Timeout

\* startF once the timeout was looked at, the first thing a poll does.
Inside == startF /\ InTime

\* Variant: polls without a byte are not counted.
CountedNever == rxTimeoutCntr

\* The counter after that; outside a packet it is left alone.
Counted == IF ~startF THEN rxTimeoutCntr ELSE IF InTime THEN rxTimeoutCntr + 1 ELSE 0

\* A poll that takes the line to newLine; at rest, both are in step again.
Poll(newLine, delivers) ==
  /\ armed
  /\ rest # <<>> => silence < Patience
  /\ silence' = IF rest # <<>> THEN silence + 1 ELSE 0
  /\ line' = newLine
  /\ inStep' = (inStep \/ (~startF' /\ newLine = <<>> /\ rest = <<>>))
  /\ owed' = IF delivers /\ owed # <<>> THEN Tail(owed) ELSE owed
  /\ UNCHANGED <<rest, lost, armed>>

\* No byte.
PollNothing ==
  /\ line = <<>>
  /\ startF' = Inside
  /\ rxTimeoutCntr' = Counted
  /\ Poll(<<>>, FALSE)
  /\ UNCHANGED <<rxPacket, rxPacketIdx, rxPacketLen, got>>

\* A byte that is no START, outside a packet.
PollSkip ==
  /\ line # <<>> /\ Head(line) # START_PKT_FLAG /\ ~Inside
  /\ startF' = FALSE
  /\ rxTimeoutCntr' = Counted
  /\ Poll(Tail(line), FALSE)
  /\ UNCHANGED <<rxPacket, rxPacketIdx, rxPacketLen, got>>

\* The length to expect before a byte is taken: the header's until it is read.
Expected == IF Inside THEN rxPacketLen ELSE HEADER_LEN

\* Variant: the data is taken to begin after the length of a whole header.
CallTooFar(p, n) == <<p[3], p[4], n - HEADER_LEN, [i \in 1 .. n - HEADER_LEN |-> p[HEADER_LEN - 1 + i]]>>

\* What the callback gets of the packet p of length n: command, identifier,
\* length and data.
Call(p, n) == <<p[3], p[4], n - HEADER_LEN, [i \in 1 .. n - HEADER_LEN |-> p[HEADER_LEN - 2 + i]]>>

\* Variant: the bound on the length is looked at one byte later.
GivenUpLate(complete, i) == complete \/ i > MaxLen + 1

\* Whether a packet with its first i bytes is over, well or not.
GivenUp(complete, i) == complete \/ i > MaxLen

\* A byte of a packet: START when it is the first.
PollByte ==
  /\ line # <<>> /\ (Head(line) = START_PKT_FLAG \/ Inside)
  /\ LET i == IF Inside THEN rxPacketIdx ELSE 0
         takes == i < Expected
         complete == rxPacketIdx' = rxPacketLen'
         ends == complete /\ rxPacket'[rxPacketLen' - 1] = END_PKT_FLAG
     IN /\ rxPacketLen' = IF takes /\ i = 3 THEN 256 * rxPacket[1] + rxPacket[2] ELSE Expected
        /\ rxPacket' = IF takes THEN [rxPacket EXCEPT ![i] = Head(line)] ELSE rxPacket
        /\ rxPacketIdx' = IF takes THEN i + 1 ELSE i
        /\ rxTimeoutCntr' = 0
        /\ startF' = ~GivenUp(complete, rxPacketIdx')
        /\ got' = IF ends THEN Call(rxPacket', rxPacketLen') ELSE got
        /\ Poll(Tail(line), ends)

uart_timer_func == PollNothing \/ PollSkip \/ PollByte

-----------------------------------------------------------------------------

Next == (\E f \in Frames : SendFrame(f)) \/ SendByte \/ LoseByte \/ user_uart_init \/ uart_timer_func

Spec == Init /\ [][Next]_vars

\* The communication mode is set in the end and the poll timer repeats; the
\* sender may stop at any time.
FairSpec == Spec /\ WF_vars(~armed /\ user_uart_init) /\ WF_vars(uart_timer_func)

-----------------------------------------------------------------------------

TypeOK ==
  /\ rest \in Seq(Byte) /\ line \in Seq(Byte) /\ Len(line) <= Capacity
  /\ silence \in 0 .. Patience /\ lost \in 0 .. MaxLost
  /\ {armed, startF, inStep} \subseteq BOOLEAN
  /\ rxPacket \in [Slots -> Byte]
  /\ rxPacketIdx \in 0 .. MaxLen + 1
  /\ rxPacketLen \in Lengths
  /\ rxTimeoutCntr \in 0 .. Timeout
  /\ owed \in Seq(Frames)

\* What the receiver has taken of the packet it is in.
Received == IF startF THEN [i \in 1 .. rxPacketIdx |-> rxPacket[i - 1]] ELSE <<>>

\* In step, what was taken, what waits in the driver and what is still to be sent
\* make up exactly the frames that are owed: the receiver never begins a packet
\* within a frame, nor ends one early or late, whatever flags the data imitates
\* and however slow the polls are (user_uart.c:132-208).
InStep == inStep => Received \o line \o rest = FlattenSeq(owed)

\* The callback gets every frame sent in step, once and in order, with the right
\* command, identifier and data; only a lost byte or a change of the mode within
\* a packet puts the two out of step (user_uart.c:40-54, 162-206).
Fields(f) == <<f[4], f[5], Len(f) - HEADER_LEN, SubSeq(f, HEADER_LEN, Len(f) - 1)>>
Link == INSTANCE FrameLink WITH Packet <- Fields
DeliversFrames == Link!Spec

\* After any disturbance, a pause of the sender brings the two in step again: no
\* length field, wanting or wrong, keeps the receiver inside a packet for ever
\* (user_uart.c:134-141, 193-199).
Resynchronises == <>[](rest = <<>>) => []<>inStep
=============================================================================
