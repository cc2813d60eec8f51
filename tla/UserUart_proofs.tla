-------------------------- MODULE UserUart_proofs --------------------------
(***************************************************************************)
(* Proofs about the receiver of user/user_uart.c, for every length of the  *)
(* packet's array, every timeout and every set of frames.                  *)
(***************************************************************************)
EXTENDS UserUart, SeqLemmas, TLAPS

\* While a packet is being received the next slot is one of the array's or the one
\* behind it, which the late test of the length lets a byte into.
IndexInside == startF => rxPacketIdx <= MaxLen

TypeInv == TypeOK /\ IndexInside

-----------------------------------------------------------------------------
\* What the constants and the types say, in the portions the steps need.

LEMMA Bounds == /\ Timeout \in Nat /\ Capacity \in Nat /\ Patience \in Nat /\ MaxLost \in Nat
                /\ Timeout > 0 /\ Patience > 0 /\ Capacity > 0
                /\ MaxLen \in Nat /\ HEADER_LEN \in Nat /\ 3 < HEADER_LEN /\ HEADER_LEN <= MaxLen
<1>1. {Timeout, Capacity, Patience} \subseteq Nat \ {0} /\ MaxLost \in Nat /\ MaxLen \in Nat /\ MaxLen >= HEADER_LEN
  BY UserUartAssumption
<1> QED BY <1>1 DEF HEADER_LEN

LEMMA FrameBytes == ASSUME NEW f \in Frames PROVE f \in Seq(Byte)
BY UserUartAssumption

LEMMA TwoBytes == ASSUME NEW a \in Byte, NEW b \in Byte PROVE 256 * a + b \in Lengths
BY DEF Lengths

LEMMA HeaderLength == HEADER_LEN \in Lengths
<1>1. 0 \in Byte /\ 6 \in Byte /\ 6 = 256 * 0 + 6
  BY DEF Byte
<1> QED BY <1>1 DEF Lengths, HEADER_LEN

LEMMA ZerosTyped == Zeros \in [Slots -> Byte]
<1>1. 0 \in Byte
  BY DEF Byte
<1> QED BY <1>1 DEF Zeros

LEMMA HeadTail ==
  ASSUME NEW S, NEW s \in Seq(S), s # <<>>
  PROVE  Head(s) \in S /\ Tail(s) \in Seq(S) /\ Len(Tail(s)) = Len(s) - 1 /\ Len(s) \in Nat
OBVIOUS

LEMMA LineTail ==
  ASSUME TypeOK, line # <<>>
  PROVE  Head(line) \in Byte /\ Tail(line) \in Seq(Byte) /\ Len(Tail(line)) <= Capacity
<1>1. line \in Seq(Byte) /\ Len(line) <= Capacity
  BY DEF TypeOK
<1>2. Head(line) \in Byte /\ Tail(line) \in Seq(Byte) /\ Len(Tail(line)) = Len(line) - 1 /\ Len(line) \in Nat
  BY <1>1, HeadTail
<1> QED BY <1>1, <1>2, Bounds

LEMMA NoBytes == <<>> \in Seq(Byte) /\ <<>> \in Seq(Frames) /\ Len(<<>>) = 0
OBVIOUS

LEMMA Flags == TypeOK <=> /\ rest \in Seq(Byte) /\ line \in Seq(Byte) /\ Len(line) <= Capacity
                          /\ silence \in 0 .. Patience /\ lost \in 0 .. MaxLost
                          /\ armed \in BOOLEAN /\ startF \in BOOLEAN /\ inStep \in BOOLEAN
                          /\ rxPacket \in [Slots -> Byte]
                          /\ rxPacketIdx \in 0 .. MaxLen + 1
                          /\ rxPacketLen \in Lengths
                          /\ rxTimeoutCntr \in 0 .. Timeout
                          /\ owed \in Seq(Frames)
<1>1. {armed, startF, inStep} \subseteq BOOLEAN <=> armed \in BOOLEAN /\ startF \in BOOLEAN /\ inStep \in BOOLEAN
  BY Zenon
<1> QED BY <1>1, Zenon DEF TypeOK

LEMMA TypedNext ==
  ASSUME rest' \in Seq(Byte), line' \in Seq(Byte), Len(line') <= Capacity,
         silence' \in 0 .. Patience, lost' \in 0 .. MaxLost,
         armed' \in BOOLEAN, startF' \in BOOLEAN, inStep' \in BOOLEAN,
         rxPacket' \in [Slots -> Byte],
         rxPacketIdx' \in 0 .. MaxLen + 1, rxPacketLen' \in Lengths,
         rxTimeoutCntr' \in 0 .. Timeout, owed' \in Seq(Frames)
  PROVE  TypeOK'
<1>1. {armed', startF', inStep'} \subseteq BOOLEAN
  BY Zenon
<1> QED BY <1>1, Zenon DEF TypeOK

-----------------------------------------------------------------------------

LEMMA InitTyped == Init => TypeInv
<1> SUFFICES ASSUME Init PROVE TypeInv
  OBVIOUS
<1>1. armed \in BOOLEAN /\ startF \in BOOLEAN /\ inStep \in BOOLEAN /\ IndexInside
  BY Zenon DEF Init, IndexInside
<1>2. /\ silence \in 0 .. Patience /\ lost \in 0 .. MaxLost /\ Len(line) <= Capacity
      /\ rxPacketIdx \in 0 .. MaxLen + 1 /\ rxTimeoutCntr \in 0 .. Timeout
  BY Bounds, NoBytes DEF Init
<1> QED BY <1>1, <1>2, HeaderLength, ZerosTyped, NoBytes, Flags, Zenon DEF Init, TypeInv

\* What every poll does besides its own variables.
LEMMA PollTyped ==
  ASSUME TypeOK, NEW newLine \in Seq(Byte), Len(newLine) <= Capacity,
         NEW delivers, startF' \in BOOLEAN, Poll(newLine, delivers)
  PROVE  /\ rest' \in Seq(Byte) /\ line' \in Seq(Byte) /\ Len(line') <= Capacity
         /\ silence' \in 0 .. Patience /\ lost' \in 0 .. MaxLost
         /\ armed' \in BOOLEAN /\ inStep' \in BOOLEAN
         /\ owed' \in Seq(Frames)
<1>1. silence' \in 0 .. Patience
  <2>1. /\ rest # <<>> => silence < Patience
        /\ silence' = IF rest # <<>> THEN silence + 1 ELSE 0
    BY Zenon DEF Poll
  <2>2. silence \in 0 .. Patience
    BY Flags
  <2> QED BY <2>1, <2>2, Bounds
<1>2. owed' \in Seq(Frames)
  <2>1. owed \in Seq(Frames)
    BY Flags
  <2>2. owed' = IF delivers /\ owed # <<>> THEN Tail(owed) ELSE owed
    BY Zenon DEF Poll
  <2>3. owed # <<>> => Tail(owed) \in Seq(Frames)
    BY <2>1, HeadTail, Zenon
  <2> QED BY <2>1, <2>2, <2>3, Zenon
<1>3. inStep' \in BOOLEAN
  <2>1. inStep' = (inStep \/ (~startF' /\ newLine = <<>> /\ rest = <<>>))
    BY Zenon DEF Poll
  <2> QED BY <2>1, Zenon
<1>4. rest' = rest /\ lost' = lost /\ armed' = armed /\ line' = newLine
  BY Zenon DEF Poll
<1> QED BY <1>1, <1>2, <1>3, <1>4, Flags

LEMMA CountTyped == ASSUME TypeOK PROVE Counted \in 0 .. Timeout
<1>1. rxTimeoutCntr \in 0 .. Timeout
  BY Flags
<1> QED BY <1>1, Bounds DEF Counted, InTime

\* The byte goes into a slot; after the one behind the array the packet is given up.
LEMMA ByteTyped == ASSUME TypeInv, PollByte PROVE TypeInv'
<1> DEFINE i == IF Inside THEN rxPacketIdx ELSE 0
           takes == i < Expected
           complete == rxPacketIdx' = rxPacketLen'
           ends == complete /\ rxPacket'[rxPacketLen' - 1] = END_PKT_FLAG
<1>1. /\ line # <<>>
      /\ rxPacketLen' = IF takes /\ i = 3 THEN 256 * rxPacket[1] + rxPacket[2] ELSE Expected
      /\ rxPacket' = IF takes THEN [rxPacket EXCEPT ![i] = Head(line)] ELSE rxPacket
      /\ rxPacketIdx' = IF takes THEN i + 1 ELSE i
      /\ rxTimeoutCntr' = 0
      /\ startF' = ~GivenUp(complete, rxPacketIdx')
      /\ Poll(Tail(line), ends)
  BY Zenon DEF PollByte
<1>2. TypeOK /\ IndexInside
  BY DEF TypeInv
<1>3. i \in 0 .. MaxLen
  <2>1. CASE Inside
    <3>1. startF /\ rxPacketIdx \in 0 .. MaxLen + 1 /\ rxPacketIdx <= MaxLen
      BY <1>2, <2>1, Flags, Zenon DEF Inside, IndexInside
    <3> QED BY <2>1, <3>1, Bounds
  <2>2. CASE ~Inside
    BY <2>2, Bounds
  <2> QED BY <2>1, <2>2
<1>4. Expected \in Lengths
  <2>1. rxPacketLen \in Lengths
    BY <1>2, Flags
  <2> QED BY <2>1, HeaderLength, Zenon DEF Expected
<1>5. Head(line) \in Byte /\ Tail(line) \in Seq(Byte) /\ Len(Tail(line)) <= Capacity
  BY <1>1, <1>2, LineTail, Zenon
<1>6. rxPacket \in [Slots -> Byte]
  BY <1>2, Flags
<1> HIDE DEF i, takes, complete, ends
<1>7. rxPacket' \in [Slots -> Byte]
  <2>1. i \in Slots
    BY <1>3 DEF Slots
  <2> QED BY <1>1, <1>5, <1>6, <2>1, Zenon
<1>8. rxPacketLen' \in Lengths
  <2>1. 1 \in Slots /\ 2 \in Slots
    BY Bounds DEF Slots
  <2>2. rxPacket[1] \in Byte /\ rxPacket[2] \in Byte
    BY <1>6, <2>1
  <2>3. 256 * rxPacket[1] + rxPacket[2] \in Lengths
    BY <2>2, TwoBytes
  <2> QED BY <1>1, <1>4, <2>3, Zenon
<1>9. rxPacketIdx' \in 0 .. MaxLen + 1 /\ rxTimeoutCntr' \in 0 .. Timeout
  BY <1>1, <1>3, Bounds
<1>10. startF' \in BOOLEAN /\ IndexInside'
  <2>1. startF' = ~(complete \/ rxPacketIdx' > MaxLen)
    BY <1>1, Zenon DEF GivenUp
  <2>2. startF' \in BOOLEAN
    BY <2>1, Zenon
  <2>3. startF' => ~(rxPacketIdx' > MaxLen)
    BY <2>1, Zenon
  <2>4. startF' => rxPacketIdx' <= MaxLen
    BY <2>3, <1>9, Bounds
  <2> QED BY <2>2, <2>4, Zenon DEF IndexInside
<1>11. /\ rest' \in Seq(Byte) /\ line' \in Seq(Byte) /\ Len(line') <= Capacity
       /\ silence' \in 0 .. Patience /\ lost' \in 0 .. MaxLost
       /\ armed' \in BOOLEAN /\ inStep' \in BOOLEAN
       /\ owed' \in Seq(Frames)
  <2>1. TypeOK /\ Tail(line) \in Seq(Byte) /\ Len(Tail(line)) <= Capacity /\ startF' \in BOOLEAN
    BY <1>2, <1>5, <1>10
  <2>2. Poll(Tail(line), ends)
    BY <1>1
  <2> QED BY <2>1, <2>2, PollTyped, Zenon DEF Poll
<1>12. TypeOK'
  BY <1>7, <1>8, <1>9, <1>10, <1>11, TypedNext, Zenon
<1> QED BY <1>10, <1>12, Zenon DEF TypeInv

\* A poll that takes no byte of a packet.
LEMMA IdlePollTyped ==
  ASSUME TypeInv, NEW newLine \in Seq(Byte), Len(newLine) <= Capacity, Poll(newLine, FALSE),
         startF' \in BOOLEAN, startF' => startF, rxTimeoutCntr' = Counted,
         UNCHANGED <<rxPacket, rxPacketIdx, rxPacketLen, got>>
  PROVE  TypeInv'
<1>1. TypeOK /\ IndexInside
  BY DEF TypeInv
<1>2. /\ rest' \in Seq(Byte) /\ line' \in Seq(Byte) /\ Len(line') <= Capacity
      /\ silence' \in 0 .. Patience /\ lost' \in 0 .. MaxLost
      /\ armed' \in BOOLEAN /\ inStep' \in BOOLEAN
      /\ owed' \in Seq(Frames)
  BY <1>1, PollTyped, Zenon DEF Poll
<1>3. rxTimeoutCntr' \in 0 .. Timeout
  BY <1>1, CountTyped
<1>4. /\ rxPacket' = rxPacket /\ rxPacketIdx' = rxPacketIdx /\ rxPacketLen' = rxPacketLen
      /\ rxPacket \in [Slots -> Byte] /\ rxPacketIdx \in 0 .. MaxLen + 1 /\ rxPacketLen \in Lengths
  BY <1>1, Flags
<1>5. TypeOK'
  BY <1>2, <1>3, <1>4, TypedNext
<1>6. IndexInside'
  BY <1>1, <1>4 DEF IndexInside
<1> QED BY <1>5, <1>6 DEF TypeInv

LEMMA NextTyped == TypeInv /\ [Next]_vars => TypeInv'
<1> SUFFICES ASSUME TypeInv, [Next]_vars PROVE TypeInv'
  OBVIOUS
<1>0. /\ rest \in Seq(Byte) /\ line \in Seq(Byte) /\ Len(line) <= Capacity
      /\ silence \in 0 .. Patience /\ lost \in 0 .. MaxLost
      /\ armed \in BOOLEAN /\ startF \in BOOLEAN /\ inStep \in BOOLEAN
      /\ rxPacket \in [Slots -> Byte] /\ rxPacketIdx \in 0 .. MaxLen + 1
      /\ rxPacketLen \in Lengths /\ rxTimeoutCntr \in 0 .. Timeout
      /\ owed \in Seq(Frames) /\ TypeOK /\ IndexInside
  BY Flags, Zenon DEF TypeInv
<1>1. ASSUME NEW f \in Frames, SendFrame(f) PROVE TypeInv'
  <2>1. owed' \in Seq(Frames)
    <3>1. owed' = Append(owed, f) \/ owed' = owed
      BY <1>1, Zenon DEF SendFrame
    <3>2. owed \in Seq(Frames)
      BY <1>0
    <3>3. Append(owed, f) \in Seq(Frames)
      BY <1>1, <3>2
    <3> QED BY <3>1, <3>2, <3>3
  <2>2. rest' \in Seq(Byte) /\ silence' \in 0 .. Patience
    BY <1>1, FrameBytes, Bounds DEF SendFrame
  <2>3. UNCHANGED <<lost, line, armed, startF, rxPacket, rxPacketIdx, rxPacketLen, rxTimeoutCntr, inStep>>
    BY <1>1 DEF SendFrame, receiver
  <2>4. TypeOK'
    BY <1>0, <2>1, <2>2, <2>3, TypedNext
  <2> QED BY <1>0, <2>3, <2>4 DEF TypeInv, IndexInside
<1>2. CASE SendByte
  <2>1. Head(rest) \in Byte /\ Tail(rest) \in Seq(Byte)
    BY <1>0, <1>2, HeadTail DEF SendByte
  <2>2. rest' \in Seq(Byte) /\ silence' \in 0 .. Patience /\ line' \in Seq(Byte)
    BY <1>0, <1>2, <2>1, Bounds DEF SendByte
  <2>3. Len(line') <= Capacity
    <3>1. line' = Append(line, Head(rest)) /\ Len(line) < Capacity
      BY <1>2 DEF SendByte
    <3> QED BY <1>0, <2>1, <3>1, Bounds
  <2>4. UNCHANGED <<lost, armed, startF, rxPacket, rxPacketIdx, rxPacketLen, rxTimeoutCntr, owed, inStep>>
    BY <1>2 DEF SendByte, receiver
  <2>5. TypeOK'
    BY <1>0, <2>2, <2>3, <2>4, TypedNext
  <2> QED BY <1>0, <2>4, <2>5 DEF TypeInv, IndexInside
<1>3. CASE LoseByte
  <2>1. Tail(rest) \in Seq(Byte)
    BY <1>0, <1>3, HeadTail DEF LoseByte
  <2>2. /\ rest' \in Seq(Byte) /\ silence' \in 0 .. Patience /\ lost' \in 0 .. MaxLost
    BY <1>0, <1>3, <2>1, Bounds DEF LoseByte
  <2>3. inStep' \in BOOLEAN /\ owed' \in Seq(Frames)
    BY <1>3, NoBytes, Zenon DEF LoseByte, OutOfStep
  <2>4. UNCHANGED <<line, armed, startF, rxPacket, rxPacketIdx, rxPacketLen, rxTimeoutCntr>>
    BY <1>3 DEF LoseByte, receiver
  <2>5. TypeOK'
    BY <1>0, <2>2, <2>3, <2>4, TypedNext
  <2> QED BY <1>0, <2>4, <2>5 DEF TypeInv, IndexInside
<1>4. CASE user_uart_init
  <2>1. rxPacket' \in [Slots -> Byte] /\ rxPacketLen' \in Lengths
    BY <1>4, ZerosTyped, HeaderLength DEF user_uart_init
  <2>2. rxPacketIdx' \in 0 .. MaxLen + 1
    BY <1>4, Bounds DEF user_uart_init
  <2>3. inStep' \in BOOLEAN /\ owed' \in Seq(Frames)
    BY <1>0, <1>4, NoBytes, Zenon DEF user_uart_init, OutOfStep
  <2>4. armed' \in BOOLEAN /\ startF' \in BOOLEAN /\ ~startF'
    BY <1>4, Zenon DEF user_uart_init
  <2>5. UNCHANGED <<rest, silence, lost, line, rxTimeoutCntr>>
    BY <1>4 DEF user_uart_init, sender
  <2>6. TypeOK'
    BY <1>0, <2>1, <2>2, <2>3, <2>4, <2>5, TypedNext
  <2> QED BY <2>4, <2>6 DEF TypeInv, IndexInside
<1>5. CASE PollNothing
  <2>1. Poll(<<>>, FALSE) /\ rxTimeoutCntr' = Counted /\ UNCHANGED <<rxPacket, rxPacketIdx, rxPacketLen, got>>
    BY <1>5 DEF PollNothing
  <2>2. startF' = (startF /\ InTime)
    BY <1>5, Zenon DEF PollNothing, Inside
  <2>3. startF' \in BOOLEAN /\ (startF' => startF)
    BY <2>2, Zenon
  <2>4. <<>> \in Seq(Byte) /\ Len(<<>>) <= Capacity
    BY NoBytes, Bounds
  <2> QED BY <2>1, <2>3, <2>4, IdlePollTyped, Zenon DEF Poll
<1>6. CASE PollSkip
  <2>1. /\ Poll(Tail(line), FALSE) /\ rxTimeoutCntr' = Counted
        /\ UNCHANGED <<rxPacket, rxPacketIdx, rxPacketLen, got>> /\ line # <<>>
    BY <1>6 DEF PollSkip
  <2>2. startF' \in BOOLEAN /\ (startF' => startF)
    BY <1>6, Zenon DEF PollSkip
  <2>3. Tail(line) \in Seq(Byte) /\ Len(Tail(line)) <= Capacity
    BY <1>0, <2>1, LineTail
  <2> QED BY <2>1, <2>2, <2>3, IdlePollTyped, Zenon DEF Poll
<1>7. CASE PollByte
  BY <1>7, ByteTyped
<1>8. CASE UNCHANGED vars
  <2>1. UNCHANGED <<rest, silence, lost, line, armed, startF, rxPacket, rxPacketIdx, rxPacketLen,
                    rxTimeoutCntr, owed, inStep>>
    BY <1>8 DEF vars, sender, receiver
  <2>2. TypeOK'
    BY <1>0, <2>1, TypedNext
  <2> QED BY <1>0, <2>1, <2>2 DEF TypeInv, IndexInside
<1> QED BY <1>1, <1>2, <1>3, <1>4, <1>5, <1>6, <1>7, <1>8, Zenon DEF Next, uart_timer_func

\* Whatever bytes arrive, lost ones and wrong lengths included, none is written
\* further than the one slot behind the packet's array: the bound that is looked at
\* after the write (user_uart.c:159-199) is late by one and by no more.
THEOREM ReceiverTyped == Spec => []TypeOK
<1>1. TypeInv => TypeOK
  BY DEF TypeInv
<1> QED BY <1>1, InitTyped, NextTyped, PTL DEF Spec

-----------------------------------------------------------------------------
\* Out of step nothing is owed.
NothingOwed == ~inStep => owed = <<>>

\* In step, the packet under way is the beginning of the oldest frame that is owed,
\* and its length is known from the fourth byte on.
Parsing == inStep /\ startF =>
  /\ owed # <<>>
  /\ rxPacketIdx \in 1 .. Len(Head(owed)) - 1
  /\ rxPacketLen = IF rxPacketIdx > 3 THEN Len(Head(owed)) ELSE HEADER_LEN

\* In step, the packet under way does not time out: the polls since its last byte are
\* fewer than those since the sender's, which are within its patience.
Patient == inStep /\ startF => rxTimeoutCntr < Timeout /\ (line = <<>> => rxTimeoutCntr < silence)

\* The invariant: types, and the two in step.
StepInv == TypeInv /\ NothingOwed /\ Parsing /\ Patient /\ InStep

-----------------------------------------------------------------------------
\* What a frame is made of: its flags at both ends and its own length behind the first.
LEMMA FrameFacts ==
  ASSUME NEW f \in Frames
  PROVE  /\ f \in Seq(Byte) /\ Len(f) \in Nat /\ HEADER_LEN <= Len(f) /\ Len(f) <= MaxLen
         /\ f[1] = START_PKT_FLAG /\ f[Len(f)] = END_PKT_FLAG
         /\ 256 * f[2] + f[3] = Len(f)
<1>1. /\ f \in Seq(Byte) /\ Len(f) \in HEADER_LEN .. MaxLen /\ FrameLen(f) = Len(f)
      /\ f[1] = START_PKT_FLAG /\ f[Len(f)] = END_PKT_FLAG
  BY UserUartAssumption, Zenon
<1>2. Len(f) \in Nat /\ HEADER_LEN <= Len(f) /\ Len(f) <= MaxLen
  BY <1>1, Bounds
<1> QED BY <1>1, <1>2, Zenon DEF FrameLen

\* Frames that are owed are bytes when they are joined.
LEMMA OwedTyped == ASSUME NEW o \in Seq(Frames) PROVE o \in Seq(Seq(Byte)) /\ FlattenSeq(o) \in Seq(Byte)
<1>1. Frames \subseteq Seq(Byte)
  BY FrameFacts
<1>2. o \in Seq(Seq(Byte))
  BY <1>1, SeqMonotonic
<1> QED BY <1>2, FlattenTyped

\* The frames that are owed are the oldest one and the rest.
LEMMA OldestFrame ==
  ASSUME NEW o \in Seq(Frames), o # <<>>
  PROVE  /\ Head(o) \in Frames /\ Tail(o) \in Seq(Frames)
         /\ FlattenSeq(Tail(o)) \in Seq(Byte)
         /\ FlattenSeq(o) = Head(o) \o FlattenSeq(Tail(o))
<1>1. Head(o) \in Frames /\ Tail(o) \in Seq(Frames)
  BY HeadTailProperties
<1> QED BY <1>1, OwedTyped, FlattenHead

\* What the receiver has taken is its array up to the next slot.
LEMMA ReceivedTyped ==
  ASSUME TypeInv
  PROVE  /\ Received \in Seq(Byte)
         /\ startF => /\ Len(Received) = rxPacketIdx
                      /\ \A i \in 1 .. rxPacketIdx : Received[i] = rxPacket[i - 1]
<1>1. /\ rxPacket \in [Slots -> Byte] /\ rxPacketIdx \in 0 .. MaxLen + 1
      /\ (startF => rxPacketIdx <= MaxLen) /\ MaxLen \in Nat
  BY Flags, Bounds, Zenon DEF TypeInv, IndexInside
<1>2. CASE startF
  <2>1. Received = [i \in 1 .. rxPacketIdx |-> rxPacket[i - 1]]
    BY <1>2, Zenon DEF Received
  <2>2. \A i \in 1 .. rxPacketIdx : rxPacket[i - 1] \in Byte
    BY <1>1, <1>2 DEF Slots
  <2>3. rxPacketIdx \in Nat
    BY <1>1
  <2> QED BY <2>1, <2>2, <2>3
<1>3. CASE ~startF
  BY <1>3 DEF Received
<1> QED BY <1>2, <1>3

\* What was taken, what waits and what is to be sent, as one sequence: taking the next
\* byte of the line moves it from the second part to the first.
LEMMA Three ==
  ASSUME NEW a \in Seq(Byte), NEW l \in Seq(Byte), NEW r \in Seq(Byte)
  PROVE  /\ a \o l \o r \in Seq(Byte)
         /\ Len(a \o l \o r) = Len(a) + Len(l) + Len(r)
         /\ \A i \in 1 .. Len(a) : (a \o l \o r)[i] = a[i]
         /\ a \o l \o r = a \o (l \o r)
         /\ l # <<>> => (a \o l \o r)[Len(a) + 1] = Head(l)
         /\ l # <<>> => a \o l \o r = Append(a, Head(l)) \o Tail(l) \o r
<1>1. a \o l \in Seq(Byte) /\ Len(a \o l) = Len(a) + Len(l)
      /\ \A i \in 1 .. Len(a) + Len(l) : (a \o l)[i] = IF i <= Len(a) THEN a[i] ELSE l[i - Len(a)]
  BY ConcatProperties
<1>2. a \o l \o r \in Seq(Byte) /\ Len(a \o l \o r) = Len(a \o l) + Len(r)
      /\ \A i \in 1 .. Len(a \o l) + Len(r) : (a \o l \o r)[i] = IF i <= Len(a \o l) THEN (a \o l)[i] ELSE r[i - Len(a \o l)]
  BY <1>1, ConcatProperties
<1>3. Len(a) \in Nat /\ Len(l) \in Nat /\ Len(r) \in Nat
  BY LenProperties
<1>4. a \o l \o r = a \o (l \o r)
  BY ConcatAssociative
<1>5. ASSUME l # <<>> PROVE (a \o l \o r)[Len(a) + 1] = Head(l)
  <2>1. Len(l) >= 1 /\ Head(l) = l[1]
    BY <1>5, EmptySeq
  <2> DEFINE n == Len(a) + 1
  <2>2. n \in 1 .. Len(a \o l) + Len(r) /\ n <= Len(a \o l) /\ ~(n <= Len(a)) /\ n - Len(a) = 1
        /\ n \in 1 .. Len(a) + Len(l)
    BY <1>1, <1>3, <2>1
  <2> HIDE DEF n
  <2>3. (a \o l \o r)[n] = l[1]
    BY <1>1, <1>2, <2>2
  <2> QED BY <2>1, <2>3 DEF n
<1>6. ASSUME l # <<>> PROVE a \o l \o r = Append(a, Head(l)) \o Tail(l) \o r
  <2>1. Head(l) \in Byte /\ Tail(l) \in Seq(Byte)
    BY <1>6, HeadTailProperties
  <2>2. a \o l = Append(a, Head(l)) \o Tail(l)
    BY <1>6, <2>1
  <2> QED BY <2>2
<1>7. \A i \in 1 .. Len(a) : (a \o l \o r)[i] = a[i]
  BY <1>1, <1>2, <1>3
<1>8. Len(a \o l \o r) = Len(a) + Len(l) + Len(r)
  BY <1>1, <1>2
<1> QED BY <1>2, <1>4, <1>5, <1>6, <1>7, <1>8

\* a is the beginning of f where they begin the same sequence.
LEMMA BeginsWithin ==
  ASSUME NEW a \in Seq(Byte), NEW u \in Seq(Byte), NEW f \in Seq(Byte), NEW v \in Seq(Byte),
         a \o u = f \o v, Len(a) < Len(f)
  PROVE  (\A i \in 1 .. Len(a) : a[i] = f[i]) /\ u # <<>> /\ u[1] = f[Len(a) + 1]
<1>1. /\ Len(a) \in Nat /\ Len(f) \in Nat /\ Len(u) \in Nat /\ Len(v) \in Nat
      /\ Len(a) + Len(u) = Len(f) + Len(v)
  BY ConcatProperties, LenProperties
<1>2. /\ \A i \in 1 .. Len(a) + Len(u) : (a \o u)[i] = IF i <= Len(a) THEN a[i] ELSE u[i - Len(a)]
      /\ \A i \in 1 .. Len(f) + Len(v) : (a \o u)[i] = IF i <= Len(f) THEN f[i] ELSE v[i - Len(f)]
  BY ConcatProperties
<1>3. \A i \in 1 .. Len(a) : a[i] = f[i]
  BY <1>1, <1>2
<1>4. Len(u) > 0
  BY <1>1
<1> DEFINE n == Len(a) + 1
<1>5. n \in 1 .. Len(a) + Len(u) /\ n \in 1 .. Len(f) + Len(v) /\ ~(n <= Len(a)) /\ n <= Len(f) /\ n - Len(a) = 1
  BY <1>1, <1>4
<1> HIDE DEF n
<1>6. u[1] = f[n]
  BY <1>2, <1>5
<1> QED BY <1>3, <1>4, <1>6, EmptySeq DEF n

\* If it is as long as f, it is f.
LEMMA BeginsWhole ==
  ASSUME NEW a \in Seq(Byte), NEW u \in Seq(Byte), NEW f \in Seq(Byte), NEW v \in Seq(Byte),
         a \o u = f \o v, Len(a) = Len(f)
  PROVE  a = f /\ u = v
<1>1. /\ Len(a) \in Nat /\ Len(f) \in Nat /\ Len(u) \in Nat /\ Len(v) \in Nat
  BY LenProperties
<1>2. /\ \A i \in 1 .. Len(a) + Len(u) : (a \o u)[i] = IF i <= Len(a) THEN a[i] ELSE u[i - Len(a)]
      /\ \A i \in 1 .. Len(f) + Len(v) : (a \o u)[i] = IF i <= Len(f) THEN f[i] ELSE v[i - Len(f)]
  BY ConcatProperties, SMTT(30)
<1>3. a = f
  <2>1. \A i \in 1 .. Len(a) : a[i] = f[i]
    BY <1>1, <1>2
  <2> QED BY <2>1, SeqEqual
<1> QED BY <1>3, ConcatSimplifications

\* In step and inside a packet.
LEMMA Within ==
  ASSUME StepInv, inStep, startF, NEW f, f = Head(owed)
  PROVE  /\ f \in Frames /\ owed # <<>> /\ Tail(owed) \in Seq(Frames)
         /\ rxPacketIdx \in 1 .. Len(f) - 1
         /\ rxPacketLen = IF rxPacketIdx > 3 THEN Len(f) ELSE HEADER_LEN
         /\ \A i \in 1 .. rxPacketIdx : rxPacket[i - 1] = f[i]
         /\ line # <<>> => Head(line) = f[rxPacketIdx + 1]
         /\ line = <<>> => rest # <<>>
         /\ Received \in Seq(Byte) /\ Len(Received) = rxPacketIdx
         /\ Received \o line \o rest = f \o FlattenSeq(Tail(owed))
         /\ FlattenSeq(Tail(owed)) \in Seq(Byte)
<1>1. /\ owed # <<>> /\ rxPacketIdx \in 1 .. Len(f) - 1
      /\ rxPacketLen = IF rxPacketIdx > 3 THEN Len(f) ELSE HEADER_LEN
      /\ TypeInv /\ Received \o line \o rest = FlattenSeq(owed)
  BY DEF StepInv, Parsing, InStep
<1>2. owed \in Seq(Frames) /\ line \in Seq(Byte) /\ rest \in Seq(Byte)
  BY <1>1, Flags, Zenon DEF TypeInv
<1>3. /\ f \in Frames /\ Tail(owed) \in Seq(Frames) /\ FlattenSeq(Tail(owed)) \in Seq(Byte)
      /\ FlattenSeq(owed) = f \o FlattenSeq(Tail(owed))
  BY <1>1, <1>2, OldestFrame
<1>4. f \in Seq(Byte) /\ Len(f) \in Nat
  BY <1>3, FrameFacts
<1>5. /\ Received \in Seq(Byte) /\ Len(Received) = rxPacketIdx
      /\ \A i \in 1 .. rxPacketIdx : Received[i] = rxPacket[i - 1]
  BY <1>1, ReceivedTyped
<1>6. /\ Received \o line \o rest = Received \o (line \o rest)
      /\ line # <<>> => (Received \o line \o rest)[rxPacketIdx + 1] = Head(line)
  BY <1>2, <1>5, Three, SMTT(30)
<1>7. line \o rest \in Seq(Byte)
  BY <1>2, ConcatProperties
<1>8. Len(Received) < Len(f)
  BY <1>1, <1>4, <1>5
<1>9. /\ \A i \in 1 .. Len(Received) : Received[i] = f[i]
      /\ line \o rest # <<>> /\ (line \o rest)[1] = f[rxPacketIdx + 1]
  <2> DEFINE waiting == line \o rest
             others == FlattenSeq(Tail(owed))
             taken == Received
  <2>1. taken \o waiting = f \o others
    BY <1>1, <1>3, <1>6, Zenon
  <2>2. taken \in Seq(Byte) /\ waiting \in Seq(Byte) /\ others \in Seq(Byte) /\ f \in Seq(Byte)
    BY <1>3, <1>4, <1>5, <1>7, Zenon
  <2>3. Len(taken) < Len(f)
    BY <1>8
  <2> HIDE DEF waiting, others, taken
  <2>6. (\A i \in 1 .. Len(taken) : taken[i] = f[i]) /\ waiting # <<>> /\ waiting[1] = f[Len(taken) + 1]
    BY <2>1, <2>2, <2>3, BeginsWithin, ZenonT(40)
  <2> QED BY <1>5, <2>6, Zenon DEF waiting, taken
<1>10. \A i \in 1 .. rxPacketIdx : rxPacket[i - 1] = f[i]
  BY <1>5, <1>9
<1>11. line # <<>> => Head(line) = f[rxPacketIdx + 1]
  <2> SUFFICES ASSUME line # <<>> PROVE Head(line) = (line \o rest)[1]
    BY <1>9
  <2> QED BY <1>2
<1>12. line = <<>> => rest # <<>>
  BY <1>9, <1>2, ConcatEmptySeq
<1> QED BY <1>1, <1>3, <1>5, <1>10, <1>11, <1>12

\* In step and at rest between packets, the next byte is the first of a frame.
LEMMA Between ==
  ASSUME StepInv, inStep, ~startF
  PROVE  /\ line \o rest = FlattenSeq(owed)
         /\ line # <<>> => owed # <<>> /\ Head(line) = START_PKT_FLAG
<1>1. /\ TypeInv /\ Received \o line \o rest = FlattenSeq(owed) /\ Received = <<>>
  BY Zenon DEF StepInv, InStep, Received
<1>2. owed \in Seq(Frames) /\ line \in Seq(Byte) /\ rest \in Seq(Byte)
  BY <1>1, Flags, Zenon DEF TypeInv
<1>3. line \o rest = FlattenSeq(owed)
  BY <1>1, <1>2, ConcatEmptySeq
<1>4. ASSUME line # <<>> PROVE owed # <<>> /\ Head(line) = START_PKT_FLAG
  <2>1. line \o rest # <<>> /\ (line \o rest)[1] = Head(line)
    <3>1. line \o rest # <<>>
      BY <1>2, <1>4, ConcatEqualIffEmpty
    <3> QED BY <1>2, <1>4, <3>1
  <2>2. owed # <<>>
    BY <1>3, <2>1, FlattenEmpty
  <2> DEFINE f == Head(owed)
             v == FlattenSeq(Tail(owed))
  <2>3. f \in Frames /\ v \in Seq(Byte) /\ line \o rest = f \o v
    BY <1>2, <1>3, <2>2, OldestFrame
  <2> HIDE DEF f, v
  <2>4. f \in Seq(Byte) /\ f[1] = START_PKT_FLAG /\ Len(f) \in Nat /\ HEADER_LEN <= Len(f)
    BY <2>3, FrameFacts
  <2>5. (f \o v)[1] = f[1]
    <3>1. 1 <= Len(f)
      BY <2>4, Bounds
    <3>2. Len(v) \in Nat
      BY <2>3, LenProperties
    <3> QED BY <2>3, <2>4, <3>1, <3>2, ConcatProperties
  <2> QED BY <2>1, <2>2, <2>3, <2>4, <2>5
<1> QED BY <1>3, <1>4

\* No packet times out in step.
LEMMA KeepsOn ==
  ASSUME StepInv, inStep PROVE Inside <=> startF
<1>1. startF => rxTimeoutCntr < Timeout
  BY DEF StepInv, Patient
<1>2. rxTimeoutCntr \in Nat /\ Timeout \in Nat
  <2>1. rxTimeoutCntr \in 0 .. Timeout
    BY Flags, Zenon DEF StepInv, TypeInv
  <2> QED BY <2>1, Bounds
<1>3. startF => InTime
  BY <1>1, <1>2 DEF InTime
<1> QED BY <1>3, Zenon DEF Inside

\* What a byte within a packet does in step: it is the next one of the frame, and the
\* last one hands the frame over.
LEMMA ByteWithin ==
  ASSUME StepInv, inStep, startF, PollByte, NEW f, f = Head(owed)
  PROVE  /\ inStep' /\ rxTimeoutCntr' = 0 /\ line # <<>> /\ line' = Tail(line) /\ rest' = rest
         /\ (rest # <<>> => silence' = silence + 1)
         /\ rxPacketIdx + 1 < Len(f) =>
              /\ startF' /\ rxPacketIdx' = rxPacketIdx + 1 /\ owed' = owed /\ got' = got
              /\ rxPacketLen' = IF rxPacketIdx + 1 > 3 THEN Len(f) ELSE HEADER_LEN
              /\ Received' = Append(Received, Head(line))
         /\ rxPacketIdx + 1 >= Len(f) =>
              /\ rxPacketIdx + 1 = Len(f)
              /\ ~startF' /\ owed' = Tail(owed) /\ got' = Fields(f)
<1> DEFINE i == IF Inside THEN rxPacketIdx ELSE 0
           takes == i < Expected
           complete == rxPacketIdx' = rxPacketLen'
           ends == complete /\ rxPacket'[rxPacketLen' - 1] = END_PKT_FLAG
           next == Head(line)
           length == IF rxPacketIdx + 1 > 3 THEN Len(f) ELSE HEADER_LEN
<1>1. /\ line # <<>>
      /\ rxPacketLen' = IF takes /\ i = 3 THEN 256 * rxPacket[1] + rxPacket[2] ELSE Expected
      /\ rxPacket' = IF takes THEN [rxPacket EXCEPT ![i] = next] ELSE rxPacket
      /\ rxPacketIdx' = IF takes THEN i + 1 ELSE i
      /\ rxTimeoutCntr' = 0
      /\ startF' = ~GivenUp(complete, rxPacketIdx')
      /\ got' = IF ends THEN Call(rxPacket', rxPacketLen') ELSE got
      /\ Poll(Tail(line), ends)
  BY Zenon DEF PollByte
<1>2. Inside /\ i = rxPacketIdx /\ Expected = rxPacketLen
  BY KeepsOn, Zenon DEF Expected
<1>3. /\ f \in Frames /\ owed # <<>>
      /\ rxPacketIdx \in 1 .. Len(f) - 1
      /\ rxPacketLen = IF rxPacketIdx > 3 THEN Len(f) ELSE HEADER_LEN
      /\ \A k \in 1 .. rxPacketIdx : rxPacket[k - 1] = f[k]
      /\ next = f[rxPacketIdx + 1]
  BY <1>1, Within, Zenon
<1>4. /\ f \in Seq(Byte) /\ Len(f) \in Nat /\ HEADER_LEN <= Len(f) /\ Len(f) <= MaxLen
      /\ f[Len(f)] = END_PKT_FLAG /\ 256 * f[2] + f[3] = Len(f)
      /\ MaxLen \in Nat /\ HEADER_LEN = 6
  BY <1>3, FrameFacts, Bounds, Zenon DEF HEADER_LEN
<1>5. rxPacket \in [Slots -> Byte] /\ next \in Byte /\ line \in Seq(Byte) /\ inStep' = TRUE
  <2>1. rxPacket \in [Slots -> Byte] /\ line \in Seq(Byte)
    BY Flags, Zenon DEF StepInv, TypeInv
  <2>2. inStep'
    BY <1>1, Zenon DEF Poll
  <2> QED BY <1>1, <2>1, <2>2, HeadTail, Zenon
<1>6. rest' = rest /\ line' = Tail(line) /\ (rest # <<>> => silence' = silence + 1)
      /\ owed' = IF ends /\ owed # <<>> THEN Tail(owed) ELSE owed
  BY <1>1, Zenon DEF Poll
<1> HIDE DEF i, takes, complete, ends, next, length
<1>7. takes /\ rxPacketIdx' = rxPacketIdx + 1 /\ rxPacket' = [rxPacket EXCEPT ![rxPacketIdx] = next]
  <2>1. takes
    BY <1>2, <1>3, <1>4 DEF takes
  <2> QED BY <1>1, <1>2, <2>1, Zenon
<1>8. rxPacketLen' = length
  <2>1. CASE rxPacketIdx = 3
    <3>1. rxPacket[1] = f[2] /\ rxPacket[2] = f[3]
      <4>1. 2 \in 1 .. rxPacketIdx /\ 3 \in 1 .. rxPacketIdx /\ 2 - 1 = 1 /\ 3 - 1 = 2
        BY <2>1
      <4> QED BY <1>3, <4>1
    <3>2. rxPacketLen' = 256 * rxPacket[1] + rxPacket[2]
      BY <1>1, <1>2, <1>7, <2>1, Zenon
    <3>3. rxPacketLen' = Len(f)
      BY <1>4, <3>1, <3>2, Zenon
    <3> QED BY <2>1, <3>3 DEF length
  <2>2. CASE rxPacketIdx # 3
    <3>1. rxPacketLen' = rxPacketLen
      BY <1>1, <1>2, <2>2, Zenon
    <3>2. rxPacketIdx + 1 > 3 <=> rxPacketIdx > 3
      BY <1>3, <2>2
    <3> QED BY <1>3, <3>1, <3>2, Zenon DEF length
  <2> QED BY <2>1, <2>2
<1>9. /\ \A k \in 1 .. rxPacketIdx + 1 : rxPacket'[k - 1] = f[k]
      /\ \A k \in 1 .. rxPacketIdx : rxPacket'[k - 1] = rxPacket[k - 1]
  <2>1. rxPacketIdx \in Slots /\ \A k \in 1 .. rxPacketIdx : k - 1 \in Slots /\ k - 1 # rxPacketIdx
    BY <1>3, <1>4 DEF Slots
  <2>2. /\ rxPacket'[rxPacketIdx] = next
        /\ \A k \in 1 .. rxPacketIdx : rxPacket'[k - 1] = rxPacket[k - 1]
    BY <1>5, <1>7, <2>1, Zenon
  <2> QED BY <1>3, <2>2
<1>10. ASSUME rxPacketIdx + 1 < Len(f)
       PROVE  /\ startF' /\ owed' = owed /\ got' = got
              /\ Received' = Append(Received, next)
  <2>1. ~complete
    BY <1>3, <1>4, <1>7, <1>8, <1>10 DEF complete, length
  <2>2. ~ends
    BY <2>1, Zenon DEF ends
  <2>3. ~(rxPacketIdx' > MaxLen)
    BY <1>3, <1>4, <1>7, <1>10
  <2>4. startF'
    BY <1>1, <2>1, <2>3, Zenon DEF GivenUp
  <2>5. owed' = owed /\ got' = got
    BY <1>1, <1>6, <2>2, Zenon
  <2>6. Received' = Append(Received, next)
    <3>1. Received' = [k \in 1 .. rxPacketIdx + 1 |-> rxPacket'[k - 1]]
      BY <1>7, <2>4, Zenon DEF Received
    <3>2. Received = [k \in 1 .. rxPacketIdx |-> rxPacket[k - 1]]
      BY Zenon DEF Received
    <3>3. rxPacket'[rxPacketIdx] = next
      <4>1. rxPacketIdx \in Slots
        BY <1>3, <1>4 DEF Slots
      <4> QED BY <1>5, <1>7, <4>1, Zenon
    <3>4. Received = [k \in 1 .. rxPacketIdx |-> rxPacket'[k - 1]]
      BY <1>9, <3>2
    <3> QED BY <1>3, <3>1, <3>3, <3>4
  <2> QED BY <2>4, <2>5, <2>6
<1>11. ASSUME rxPacketIdx + 1 >= Len(f)
       PROVE  rxPacketIdx + 1 = Len(f) /\ ~startF' /\ owed' = Tail(owed) /\ got' = Fields(f)
  <2>1. rxPacketIdx + 1 = Len(f)
    BY <1>3, <1>4, <1>11
  <2>2. rxPacketLen' = Len(f) /\ rxPacketIdx' = Len(f)
    BY <1>4, <1>7, <1>8, <2>1 DEF length
  <2>3. complete
    BY <2>2 DEF complete
  <2>4. ends
    <3>1. Len(f) \in 1 .. rxPacketIdx + 1
      BY <1>3, <1>4, <2>1
    <3>2. rxPacket'[Len(f) - 1] = f[Len(f)]
      BY <1>9, <3>1
    <3> QED BY <1>4, <2>2, <2>3, <3>2, Zenon DEF ends
  <2>5. ~startF' /\ owed' = Tail(owed) /\ got' = Call(rxPacket', Len(f))
    BY <1>1, <1>3, <1>6, <2>2, <2>3, <2>4, Zenon DEF GivenUp
  <2>6. Call(rxPacket', Len(f)) = Fields(f)
    <3> DEFINE p == rxPacket'
               n == Len(f)
    <3>1. \A k \in 1 .. n : p[k - 1] = f[k]
      BY <1>9, <2>1
    <3> HIDE DEF p
    <3>2. p[3] = f[4] /\ p[4] = f[5]
      <4>1. 4 \in 1 .. n /\ 5 \in 1 .. n /\ 4 - 1 = 3 /\ 5 - 1 = 4
        BY <1>4
      <4> QED BY <3>1, <4>1
    <3>3. [k \in 1 .. n - HEADER_LEN |-> p[HEADER_LEN - 2 + k]] = SubSeq(f, HEADER_LEN, n - 1)
      <4>1. \A k \in 1 .. n - 6 : k + 5 \in 1 .. n /\ (k + 5) - 1 = 6 - 2 + k /\ 6 + k - 1 = k + 5
        BY <1>4
      <4>2. \A k \in 1 .. n - 6 : p[6 - 2 + k] = f[6 + k - 1]
        BY <3>1, <4>1
      <4>3. [k \in 1 .. n - 6 |-> p[6 - 2 + k]] = [k \in 1 .. n - 6 |-> f[6 + k - 1]]
        BY <4>2
      <4>4. SubSeq(f, 6, n - 1) = [k \in 1 .. n - 6 |-> f[6 + k - 1]]
        <5>1. \A k \in 6 .. n - 1 : f[k] \in Byte
          BY <1>4
        <5>2. /\ SubSeq(f, 6, n - 1) \in Seq(Byte)
              /\ Len(SubSeq(f, 6, n - 1)) = IF 6 <= n - 1 THEN n - 1 - 6 + 1 ELSE 0
              /\ \A k \in 1 .. n - 1 - 6 + 1 : SubSeq(f, 6, n - 1)[k] = f[6 + k - 1]
          <6>1. 6 \in Int /\ n - 1 \in Int
            BY <1>4
          <6> HIDE DEF n
          <6> QED BY <5>1, <6>1, SubSeqProperties
        <5>3. Len(SubSeq(f, 6, n - 1)) = n - 6 /\ n - 1 - 6 + 1 = n - 6
          <6> DEFINE m == Len(SubSeq(f, 6, n - 1))
          <6>1. m = IF 6 <= n - 1 THEN n - 1 - 6 + 1 ELSE 0
            BY <5>2
          <6>2. n \in Nat /\ 6 <= n
            BY <1>4
          <6> HIDE DEF m, n
          <6>3. m = n - 6 /\ n - 1 - 6 + 1 = n - 6
            BY <6>1, <6>2
          <6> QED BY <6>3 DEF m
        <5> DEFINE q == SubSeq(f, 6, n - 1)
        <5> HIDE DEF n, q
        <5>4. q = [k \in 1 .. n - 6 |-> q[k]]
          BY <5>2, <5>3, LenProperties DEF q
        <5>5. \A k \in 1 .. n - 6 : q[k] = f[6 + k - 1]
          BY <5>2, <5>3 DEF q
        <5>6. q = [k \in 1 .. n - 6 |-> f[6 + k - 1]]
          BY <5>4, <5>5
        <5> QED BY <5>6 DEF q
      <4> QED BY <1>4, <4>3, <4>4
    <3> QED BY <3>2, <3>3, Zenon DEF Call, Fields, p
  <2> QED BY <2>1, <2>5, <2>6
<1>12. next = Head(line)
  BY DEF next
<1> QED BY <1>1, <1>5, <1>6, <1>7, <1>8, <1>10, <1>11, <1>12, Zenon DEF length

\* The first byte of a frame.
LEMMA ByteFirst ==
  ASSUME StepInv, inStep, ~startF, PollByte
  PROVE  /\ inStep' /\ rxTimeoutCntr' = 0 /\ line # <<>> /\ line' = Tail(line) /\ rest' = rest
         /\ (rest # <<>> => silence' = silence + 1)
         /\ startF' /\ rxPacketIdx' = 1 /\ rxPacketLen' = HEADER_LEN /\ owed' = owed /\ got' = got
         /\ Received = <<>> /\ Received' = <<Head(line)>>
<1> DEFINE i == IF Inside THEN rxPacketIdx ELSE 0
           takes == i < Expected
           complete == rxPacketIdx' = rxPacketLen'
           ends == complete /\ rxPacket'[rxPacketLen' - 1] = END_PKT_FLAG
           next == Head(line)
<1>1. /\ line # <<>>
      /\ rxPacketLen' = IF takes /\ i = 3 THEN 256 * rxPacket[1] + rxPacket[2] ELSE Expected
      /\ rxPacket' = IF takes THEN [rxPacket EXCEPT ![i] = next] ELSE rxPacket
      /\ rxPacketIdx' = IF takes THEN i + 1 ELSE i
      /\ rxTimeoutCntr' = 0
      /\ startF' = ~GivenUp(complete, rxPacketIdx')
      /\ got' = IF ends THEN Call(rxPacket', rxPacketLen') ELSE got
      /\ Poll(Tail(line), ends)
  BY Zenon DEF PollByte
<1>2. ~Inside /\ i = 0 /\ Expected = HEADER_LEN
  BY Zenon DEF Expected, Inside
<1>3. HEADER_LEN = 6 /\ MaxLen \in Nat /\ 6 <= MaxLen
  BY Bounds DEF HEADER_LEN
<1>4. rxPacket \in [Slots -> Byte]
  BY Flags, Zenon DEF StepInv, TypeInv
<1>5. rest' = rest /\ line' = Tail(line) /\ (rest # <<>> => silence' = silence + 1)
      /\ owed' = (IF ends /\ owed # <<>> THEN Tail(owed) ELSE owed) /\ inStep'
  BY <1>1, Zenon DEF Poll
<1> HIDE DEF i, takes, complete, ends, next
<1>6. takes /\ i # 3
  BY <1>2, <1>3 DEF takes
<1>7. rxPacketIdx' = 1 /\ rxPacketLen' = 6 /\ rxPacket' = [rxPacket EXCEPT ![0] = next]
  <2>1. rxPacketIdx' = 0 + 1 /\ rxPacketLen' = HEADER_LEN /\ rxPacket' = [rxPacket EXCEPT ![0] = next]
    BY <1>1, <1>2, <1>6, Zenon
  <2> QED BY <1>3, <2>1
<1>8. ~complete /\ ~(rxPacketIdx' > MaxLen)
  BY <1>3, <1>7 DEF complete
<1>9. startF' /\ owed' = owed /\ got' = got
  BY <1>1, <1>5, <1>8, Zenon DEF GivenUp, ends
<1>10. Received = <<>>
  BY Zenon DEF Received
<1>11. Received' = <<next>>
  <2>1. Received' = [k \in 1 .. 1 |-> rxPacket'[k - 1]]
    BY <1>7, <1>9, Zenon DEF Received
  <2>2. 0 \in Slots
    BY <1>3 DEF Slots
  <2>3. rxPacket'[0] = next
    BY <1>4, <1>7, <2>2, Zenon
  <2>4. Received' = [k \in 1 .. 1 |-> next]
    BY <2>1, <2>3
  <2> QED BY <2>4
<1> QED BY <1>1, <1>3, <1>5, <1>7, <1>9, <1>10, <1>11, Zenon DEF next

\* The sender keeps the receiver waiting no longer than its patience.
LEMMA PollPatient ==
  ASSUME TypeInv, NEW newLine, NEW delivers, Poll(newLine, delivers), rest # <<>>
  PROVE  silence' = silence + 1 /\ silence \in Nat /\ silence < Timeout /\ silence' > 0
<1>1. silence' = silence + 1 /\ silence < Patience
  BY Zenon DEF Poll
<1>2. silence \in 0 .. Patience
  BY Flags, Zenon DEF TypeInv
<1>3. Patience \in Nat /\ Timeout \in Nat /\ Patience <= Timeout
  BY Bounds, UserUartAssumption
<1> QED BY <1>1, <1>2, <1>3

-----------------------------------------------------------------------------
\* Every step of the receiver and the sender keeps the invariant, and is a step of
\* FrameLink or leaves its variables alone.

\* A step that leaves what the link shows alone is one of the link.
LEMMA LinkUnchanged == owed' = owed /\ got' = got /\ inStep' = inStep => [Link!Next]_(Link!vars)
BY DEF Link!vars

\* The next byte of a packet keeps the two in step, and the last one delivers the frame.
LEMMA WithinStep ==
  ASSUME StepInv, inStep, startF, PollByte
  PROVE  Parsing' /\ Patient' /\ InStep' /\ NothingOwed' /\ [Link!Next]_(Link!vars)
<1> DEFINE f == Head(owed)
           others == FlattenSeq(Tail(owed))
<1>1. /\ inStep' /\ rxTimeoutCntr' = 0 /\ line # <<>> /\ line' = Tail(line) /\ rest' = rest
      /\ (rest # <<>> => silence' = silence + 1)
      /\ rxPacketIdx + 1 < Len(f) =>
           /\ startF' /\ rxPacketIdx' = rxPacketIdx + 1 /\ owed' = owed /\ got' = got
           /\ rxPacketLen' = IF rxPacketIdx + 1 > 3 THEN Len(f) ELSE HEADER_LEN
           /\ Received' = Append(Received, Head(line))
      /\ rxPacketIdx + 1 >= Len(f) =>
           /\ rxPacketIdx + 1 = Len(f)
           /\ ~startF' /\ owed' = Tail(owed) /\ got' = Fields(f)
  BY ByteWithin
<1>2. /\ f \in Frames /\ owed # <<>> /\ Tail(owed) \in Seq(Frames)
      /\ rxPacketIdx \in 1 .. Len(f) - 1
      /\ Head(line) = f[rxPacketIdx + 1]
      /\ Received \in Seq(Byte) /\ Len(Received) = rxPacketIdx
      /\ Received \o line \o rest = f \o others
      /\ others \in Seq(Byte)
  BY <1>1, Within, Zenon
<1>3. f \in Seq(Byte) /\ Len(f) \in Nat
  BY <1>2, FrameFacts
<1>4. line \in Seq(Byte) /\ rest \in Seq(Byte) /\ TypeInv
  BY Flags, Zenon DEF StepInv, TypeInv
<1>5. Head(line) \in Byte /\ Tail(line) \in Seq(Byte)
  BY <1>1, <1>4, HeadTail
<1>6. Received \o line \o rest = Append(Received, Head(line)) \o Tail(line) \o rest
  BY <1>1, <1>2, <1>4, Three
<1>7. NothingOwed'
  BY <1>1 DEF NothingOwed
<1> HIDE DEF f, others
<1>8. Append(Received, Head(line)) \in Seq(Byte) /\ Len(Append(Received, Head(line))) = rxPacketIdx + 1
  BY <1>2, <1>5
<1>9. CASE rxPacketIdx + 1 < Len(f)
  <2>1. /\ startF' /\ rxPacketIdx' = rxPacketIdx + 1 /\ owed' = owed /\ got' = got
        /\ rxPacketLen' = IF rxPacketIdx + 1 > 3 THEN Len(f) ELSE HEADER_LEN
        /\ Received' = Append(Received, Head(line))
    BY <1>1, <1>9, Zenon
  <2>2. Head(owed') = f
    BY <2>1 DEF f
  <2>3. rxPacketIdx' \in 1 .. Len(f) - 1
    BY <1>2, <1>3, <1>9, <2>1
  <2>4. Parsing'
    BY <1>2, <2>1, <2>2, <2>3, Zenon DEF Parsing
  <2>5. InStep'
    <3>1. FlattenSeq(owed') = Received \o line \o rest
      BY <2>1, Zenon DEF StepInv, InStep
    <3>2. Received' \o line' \o rest' = Received \o line \o rest
      BY <1>1, <1>6, <2>1, Zenon
    <3> QED BY <3>1, <3>2, Zenon DEF InStep
  <2>6. Patient'
    <3>1. 0 < Timeout
      BY Bounds
    <3>2. ASSUME line' = <<>> PROVE rest # <<>>
      <4> SUFFICES ASSUME rest = <<>> PROVE FALSE
        OBVIOUS
      <4>1. Append(Received, Head(line)) = f \o others
        <5> DEFINE a == Append(Received, Head(line))
        <5>1. a \o <<>> \o <<>> = a
          <6> HIDE DEF a
          <6> QED BY <1>8, ConcatEmptySeq DEF a
        <5> QED BY <1>1, <1>2, <1>6, <3>2, <5>1, Zenon
      <4>2. Len(f \o others) = Len(f) + Len(others) /\ Len(others) \in Nat
        BY <1>2, <1>3, ConcatProperties, LenProperties
      <4>3. rxPacketIdx + 1 = Len(f) + Len(others)
        BY <1>8, <4>1, <4>2, Zenon
      <4> QED BY <1>2, <1>3, <1>9, <4>2, <4>3
    <3>3. rest # <<>> => silence' > 0
      <4> SUFFICES ASSUME rest # <<>> PROVE silence' > 0
        OBVIOUS
      <4>1. silence' = silence + 1
        BY <1>1
      <4>2. silence \in 0 .. Patience
        BY <1>4, Flags, Zenon DEF TypeInv
      <4> QED BY <4>1, <4>2, Bounds
    <3> QED BY <1>1, <3>1, <3>2, <3>3 DEF Patient
  <2>7. [Link!Next]_(Link!vars)
    BY <1>1, <2>1, LinkUnchanged
  <2> QED BY <1>7, <2>4, <2>5, <2>6, <2>7
<1>10. CASE ~(rxPacketIdx + 1 < Len(f))
  <2>1. rxPacketIdx + 1 >= Len(f)
    BY <1>2, <1>3, <1>10
  <2>2. rxPacketIdx + 1 = Len(f) /\ ~startF' /\ owed' = Tail(owed) /\ got' = Fields(f)
    BY <1>1, <2>1, Zenon
  <2>3. Parsing' /\ Patient'
    BY <2>2 DEF Parsing, Patient
  <2>4. Tail(line) \o rest = others
    <3> DEFINE taken == Append(Received, Head(line))
               waiting == Tail(line) \o rest
    <3>1. taken \in Seq(Byte) /\ waiting \in Seq(Byte) /\ taken \o waiting = taken \o Tail(line) \o rest
      <4>1. waiting \in Seq(Byte)
        BY <1>4, <1>5, ConcatProperties
      <4> HIDE DEF taken
      <4>2. taken \in Seq(Byte)
        BY <1>8 DEF taken
      <4> QED BY <1>4, <1>5, <4>1, <4>2, Three
    <3>2. Len(taken) = Len(f)
      BY <1>8, <2>2
    <3>3. taken \o waiting = f \o others
      BY <1>2, <1>6, <3>1, Zenon
    <3> HIDE DEF taken, waiting
    <3>4. waiting = others
      BY <1>2, <1>3, <3>1, <3>2, <3>3, BeginsWhole
    <3> QED BY <3>4 DEF waiting
  <2>5. InStep'
    <3>1. Received' = <<>>
      BY <2>2, Zenon DEF Received
    <3>2. <<>> \o Tail(line) \o rest = Tail(line) \o rest
      BY <1>5, ConcatEmptySeq
    <3>3. FlattenSeq(owed') = others
      BY <2>2, Zenon DEF others
    <3> QED BY <1>1, <2>4, <3>1, <3>2, <3>3, Zenon DEF InStep
  <2>6. [Link!Next]_(Link!vars)
    <3>1. Link!Deliver
      BY <1>1, <1>2, <2>2, Zenon DEF Link!Deliver, f
    <3> QED BY <3>1, Zenon DEF Link!Next
  <2> QED BY <1>7, <2>3, <2>5, <2>6
<1> QED BY <1>9, <1>10

\* What every step has to keep, and that it is one of the link's.
Kept == Parsing' /\ Patient' /\ InStep' /\ NothingOwed' /\ [Link!Next]_(Link!vars)

\* So does the first byte of a frame.
LEMMA FirstStep ==
  ASSUME StepInv, inStep, ~startF, PollByte
  PROVE  Kept
<1>1. /\ inStep' /\ rxTimeoutCntr' = 0 /\ line # <<>> /\ line' = Tail(line) /\ rest' = rest
      /\ (rest # <<>> => silence' = silence + 1)
      /\ startF' /\ rxPacketIdx' = 1 /\ rxPacketLen' = HEADER_LEN /\ owed' = owed /\ got' = got
      /\ Received = <<>> /\ Received' = <<Head(line)>>
  BY ByteFirst
<1>2. line \in Seq(Byte) /\ rest \in Seq(Byte) /\ owed \in Seq(Frames) /\ silence \in 0 .. Patience
  BY Flags, Zenon DEF StepInv, TypeInv
<1>3. owed # <<>> /\ line \o rest = FlattenSeq(owed)
  BY <1>1, Between
<1> DEFINE f == Head(owed)
           others == FlattenSeq(Tail(owed))
<1>4. f \in Frames /\ others \in Seq(Byte) /\ FlattenSeq(owed) = f \o others
  BY <1>2, <1>3, OldestFrame
<1>5. f \in Seq(Byte) /\ Len(f) \in Nat /\ 6 <= Len(f)
  BY <1>4, FrameFacts DEF HEADER_LEN
<1>6. Head(line) \in Byte /\ Tail(line) \in Seq(Byte) /\ line = <<Head(line)>> \o Tail(line)
  BY <1>1, <1>2
<1>7. NothingOwed'
  BY <1>1 DEF NothingOwed
<1>8. Parsing'
  <2>1. 1 \in 1 .. Len(f) - 1 /\ ~(1 > 3)
    BY <1>5
  <2> QED BY <1>1, <1>3, <2>1, Zenon DEF Parsing
<1>9. InStep'
  <2>1. <<Head(line)>> \o Tail(line) \o rest = line \o rest
    BY <1>6, Zenon
  <2> QED BY <1>1, <1>3, <2>1, Zenon DEF InStep
<1>10. Patient'
  <2>1. 0 < Timeout
    BY Bounds
  <2>2. ASSUME line' = <<>>, rest = <<>> PROVE FALSE
    <3>1. Len(line \o rest) = 1
      <4>1. Len(line) = 1
        <5>1. Len(Tail(line)) = 0 /\ Len(Tail(line)) = Len(line) - 1 /\ Len(line) \in Nat
          <6>1. Len(Tail(line)) = Len(line) - 1 /\ Len(line) \in Nat
            BY <1>1, <1>2, HeadTail
          <6>2. Tail(line) = <<>>
            BY <1>1, <2>2
          <6> QED BY <6>1, <6>2, NoBytes
        <5> QED BY <5>1
      <4> QED BY <1>2, <2>2, <4>1, ConcatEmptySeq
    <3>2. Len(f \o others) = Len(f) + Len(others) /\ Len(others) \in Nat
      BY <1>4, <1>5, ConcatProperties, LenProperties
    <3>3. Len(f) + Len(others) = 1
      BY <1>3, <1>4, <3>1, <3>2, Zenon
    <3> HIDE DEF f, others
    <3> QED BY <1>5, <3>2, <3>3
  <2>3. rest # <<>> => silence' > 0
    BY <1>1, <1>2, Bounds
  <2> QED BY <1>1, <2>1, <2>2, <2>3 DEF Patient
<1> QED BY <1>1, <1>7, <1>8, <1>9, <1>10, LinkUnchanged, Zenon DEF Kept

\* Out of step a poll may only bring the two back in step, at rest.
LEMMA StrayStep ==
  ASSUME StepInv, ~inStep, NEW newLine, NEW delivers, Poll(newLine, delivers)
  PROVE  Kept
<1>1. /\ owed = <<>> /\ owed' = <<>> /\ rest' = rest /\ line' = newLine
      /\ inStep' = (inStep \/ (~startF' /\ newLine = <<>> /\ rest = <<>>))
  BY Zenon DEF StepInv, NothingOwed, Poll
<1>2. inStep' => ~startF' /\ line' = <<>> /\ rest' = <<>>
  BY <1>1, Zenon
<1>3. NothingOwed' /\ Parsing' /\ Patient'
  BY <1>1, <1>2, Zenon DEF NothingOwed, Parsing, Patient
<1>4. InStep'
  <2> SUFFICES ASSUME inStep' PROVE Received' \o line' \o rest' = FlattenSeq(owed')
    BY Zenon DEF InStep
  <2>1. Received' = <<>>
    BY <1>2, Zenon DEF Received
  <2>2. <<>> \o <<>> \o <<>> = <<>>
    BY NoBytes, ConcatEmptySeq
  <2> QED BY <1>1, <1>2, <2>1, <2>2, FlattenEmpty, Zenon
<1>5. Link!Stray
  <2>1. inStep' \in BOOLEAN
    <3>1. inStep' = (~startF' /\ newLine = <<>> /\ rest = <<>>)
      BY <1>1, Zenon
    <3> QED BY <3>1, Zenon
  <2> QED BY <1>1, <2>1, Zenon DEF Link!Stray
<1> QED BY <1>3, <1>4, <1>5, Zenon DEF Kept, Link!Next

\* A poll that finds no byte counts, and stays in time.
LEMMA NothingStep ==
  ASSUME StepInv, PollNothing
  PROVE  Kept
<1>1. /\ line = <<>> /\ startF' = Inside /\ rxTimeoutCntr' = Counted /\ Poll(<<>>, FALSE)
      /\ UNCHANGED <<rxPacket, rxPacketIdx, rxPacketLen, got>>
  BY Zenon DEF PollNothing
<1>2. CASE ~inStep
  BY <1>1, <1>2, StrayStep, Zenon DEF Poll
<1>3. CASE inStep
  <2>1. inStep' /\ owed' = owed /\ line' = line /\ rest' = rest
    BY <1>1, <1>3, Zenon DEF Poll
  <2>2. startF' <=> startF
    <3>1. Inside <=> startF
      BY <1>3, KeepsOn, Zenon
    <3>2. startF' = Inside
      BY <1>1
    <3>3. startF' <=> Inside
      BY <3>2, Zenon
    <3> QED BY <3>1, <3>3, Zenon
  <2>3. Received' = Received
    BY <1>1, <2>2, Zenon DEF Received
  <2>4. InStep' /\ NothingOwed' /\ Parsing'
    BY <1>1, <1>3, <2>1, <2>2, <2>3, Zenon DEF StepInv, InStep, NothingOwed, Parsing
  <2>5. Patient'
    <3> SUFFICES ASSUME startF PROVE rxTimeoutCntr' < Timeout /\ rxTimeoutCntr' < silence'
      BY <2>1, <2>2, Zenon DEF Patient
    <3>1. rest # <<>>
      BY <1>1, <1>3, Within, Zenon
    <3>2. silence' = silence + 1 /\ silence \in Nat /\ silence < Timeout
      BY <1>1, <3>1, PollPatient, Zenon DEF Poll, StepInv
    <3>3. rxTimeoutCntr < silence
      BY <1>1, <1>3 DEF StepInv, Patient
    <3>4. rxTimeoutCntr' = rxTimeoutCntr + 1
      BY <1>1, <1>3, KeepsOn, Zenon DEF Counted, Inside
    <3>5. rxTimeoutCntr \in 0 .. Timeout /\ Timeout \in Nat
      BY Flags, Bounds, Zenon DEF StepInv, TypeInv
    <3> QED BY <3>2, <3>3, <3>4, <3>5
  <2> QED BY <1>1, <1>3, <2>1, <2>4, <2>5, LinkUnchanged, Zenon DEF Kept
<1> QED BY <1>2, <1>3

\* No byte is skipped in step: between packets the next byte is a START.
LEMMA SkipStep ==
  ASSUME StepInv, PollSkip
  PROVE  Kept
<1>1. /\ line # <<>> /\ Head(line) # START_PKT_FLAG /\ ~Inside /\ Poll(Tail(line), FALSE)
  BY Zenon DEF PollSkip
<1>2. CASE ~inStep
  BY <1>1, <1>2, StrayStep, Zenon DEF Poll
<1>3. CASE inStep
  <2>1. ~startF
    BY <1>1, <1>3, KeepsOn, Zenon
  <2>2. Head(line) = START_PKT_FLAG
    BY <1>1, <1>3, <2>1, Between, Zenon
  <2> QED BY <1>1, <2>2, Zenon
<1> QED BY <1>2, <1>3

\* A poll that takes a byte.
LEMMA ByteStep ==
  ASSUME StepInv, PollByte
  PROVE  Kept
<1>1. CASE inStep /\ startF
  BY <1>1, WithinStep, Zenon DEF Kept
<1>2. CASE inStep /\ ~startF
  BY <1>2, FirstStep, Zenon
<1>3. CASE ~inStep
  <2>1. \E delivers : Poll(Tail(line), delivers)
    BY Zenon DEF PollByte
  <2>2. PICK delivers : Poll(Tail(line), delivers)
    BY <2>1, Zenon
  <2> QED BY <1>3, <2>2, StrayStep, Zenon DEF Poll
<1> QED BY <1>1, <1>2, <1>3

\* The sender begins a frame.
LEMMA FrameStep ==
  ASSUME StepInv, NEW f \in Frames, SendFrame(f)
  PROVE  Kept
<1>1. /\ rest = <<>> /\ rest' = f /\ owed' = IF inStep THEN Append(owed, f) ELSE owed
      /\ UNCHANGED <<lost, line, armed, startF, rxPacket, rxPacketIdx, rxPacketLen, rxTimeoutCntr, got, inStep>>
  BY DEF SendFrame, receiver
<1>2. line \in Seq(Byte) /\ rest \in Seq(Byte) /\ owed \in Seq(Frames) /\ TypeInv
  BY Flags, Zenon DEF StepInv, TypeInv
<1>3. Received' = Received /\ Received \in Seq(Byte)
  BY <1>1, <1>2, ReceivedTyped, Zenon DEF Received
<1>4. f \in Seq(Byte)
  BY FrameFacts
<1>5. CASE ~inStep
  <2>1. ~inStep' /\ owed' = owed /\ got' = got /\ inStep' = inStep
    BY <1>1, <1>5, Zenon
  <2> QED BY <1>5, <2>1, LinkUnchanged, Zenon DEF Kept, StepInv, NothingOwed, Parsing, Patient, InStep
<1>6. CASE inStep
  <2>1. owed' = Append(owed, f)
    BY <1>1, <1>6
  <2>2. Link!Send(f)
    BY <1>1, <1>6, <2>1, Zenon DEF Link!Send
  <2>3. InStep'
    <3>1. Received \o line \o rest = FlattenSeq(owed)
      BY <1>6, Zenon DEF StepInv, InStep
    <3>2. Received \o line \in Seq(Byte)
      BY <1>2, <1>3, ConcatProperties
    <3>3. Received \o line = FlattenSeq(owed)
      <4>1. (Received \o line) \o <<>> = Received \o line
        BY <3>2, ConcatEmptySeq
      <4> QED BY <1>1, <3>1, <4>1, Zenon
    <3>4. FlattenSeq(Append(owed, f)) = FlattenSeq(owed) \o f
      BY <1>2, <1>4, OwedTyped, FlattenAppend
    <3> QED BY <1>1, <1>3, <2>1, <3>3, <3>4, Zenon DEF InStep
  <2>4. NothingOwed'
    BY <1>1, <1>6, Zenon DEF NothingOwed
  <2>5. Parsing'
    <3> SUFFICES ASSUME startF PROVE Parsing'
      BY <1>1, Zenon DEF Parsing
    <3>1. owed # <<>> /\ rxPacketIdx \in 1 .. Len(Head(owed)) - 1
          /\ rxPacketLen = IF rxPacketIdx > 3 THEN Len(Head(owed)) ELSE HEADER_LEN
      BY <1>6, Zenon DEF StepInv, Parsing
    <3>2. owed' # <<>> /\ Head(owed') = Head(owed)
      BY <1>2, <2>1, <3>1
    <3> QED BY <1>1, <3>1, <3>2, Zenon DEF Parsing
  <2>6. Patient'
    <3> SUFFICES ASSUME startF PROVE Patient'
      BY <1>1, Zenon DEF Patient
    <3>1. line # <<>>
      BY <1>1, <1>6, Within, Zenon
    <3> QED BY <1>1, <1>6, <3>1, Zenon DEF StepInv, Patient
  <2> QED BY <2>2, <2>3, <2>4, <2>5, <2>6, Zenon DEF Kept, Link!Next
<1> QED BY <1>5, <1>6

\* A byte goes from the sender to the driver.
LEMMA SentStep ==
  ASSUME StepInv, SendByte
  PROVE  Kept
<1>1. /\ rest # <<>> /\ line' = Append(line, Head(rest)) /\ rest' = Tail(rest)
      /\ UNCHANGED <<armed, startF, rxPacket, rxPacketIdx, rxPacketLen, rxTimeoutCntr, got, owed, inStep>>
  BY DEF SendByte, receiver
<1>2. line \in Seq(Byte) /\ rest \in Seq(Byte) /\ TypeInv
  BY Flags, Zenon DEF StepInv, TypeInv
<1>3. Received' = Received /\ Received \in Seq(Byte)
  BY <1>1, <1>2, ReceivedTyped, Zenon DEF Received
<1>4. Head(rest) \in Byte /\ Tail(rest) \in Seq(Byte) /\ rest = <<Head(rest)>> \o Tail(rest)
  BY <1>1, <1>2
<1>5. line' # <<>>
  BY <1>1, <1>2, <1>4
<1>6. Received \o line' \o rest' = Received \o line \o rest
  <2>1. Append(line, Head(rest)) \o Tail(rest) = line \o rest
    <3> DEFINE h == Head(rest)
               behind == Tail(rest)
    <3>1. h \in Byte /\ behind \in Seq(Byte) /\ rest = <<h>> \o behind
      BY <1>4
    <3> HIDE DEF h, behind
    <3>2. Append(line, h) = line \o <<h>> /\ <<h>> \in Seq(Byte)
      BY <1>2, <3>1
    <3>3. (line \o <<h>>) \o behind = line \o (<<h>> \o behind)
      BY <1>2, <3>1, <3>2, ConcatAssociative
    <3>4. Append(line, h) \o behind = line \o rest
      BY <3>1, <3>2, <3>3, Zenon
    <3> QED BY <3>4 DEF h, behind
  <2>2. line' \in Seq(Byte)
    BY <1>1, <1>2, <1>4
  <2>3. Received \o line' \o rest' = Received \o (line' \o rest')
    BY <1>1, <1>3, <1>4, <2>2, Three
  <2>4. Received \o line \o rest = Received \o (line \o rest)
    BY <1>2, <1>3, Three
  <2> QED BY <1>1, <2>1, <2>3, <2>4, Zenon
<1>7. InStep'
  BY <1>1, <1>3, <1>6, Zenon DEF StepInv, InStep
<1>8. NothingOwed' /\ Parsing' /\ Patient'
  BY <1>1, <1>5, Zenon DEF StepInv, NothingOwed, Parsing, Patient
<1> QED BY <1>1, <1>7, <1>8, LinkUnchanged, Zenon DEF Kept

\* What puts the two out of step.
LEMMA DisturbStep ==
  ASSUME OutOfStep, got' = got
  PROVE  Kept
<1>1. ~inStep' /\ inStep' = FALSE /\ owed' = <<>>
  BY Zenon DEF OutOfStep
<1>2. Link!Disturb
  BY <1>1, Zenon DEF Link!Disturb
<1> QED BY <1>1, <1>2, Zenon DEF Kept, NothingOwed, Parsing, Patient, InStep, Link!Next

\* The receiver is initialised anew.
LEMMA ModeStep ==
  ASSUME StepInv, user_uart_init
  PROVE  Kept
<1>1. /\ ~startF' /\ (IF startF THEN OutOfStep ELSE UNCHANGED <<owed, inStep>>)
      /\ line' = line /\ rest' = rest /\ got' = got
  BY DEF user_uart_init, sender
<1>2. CASE startF
  BY <1>1, <1>2, DisturbStep, Zenon DEF OutOfStep
<1>3. CASE ~startF
  <2>1. owed' = owed /\ inStep' = inStep
    BY <1>1, <1>3
  <2>2. Received = <<>> /\ Received' = <<>>
    BY <1>1, <1>3, Zenon DEF Received
  <2>3. InStep' /\ NothingOwed' /\ Parsing' /\ Patient'
    BY <1>1, <2>1, <2>2, Zenon DEF StepInv, InStep, NothingOwed, Parsing, Patient
  <2> QED BY <1>1, <2>1, <2>3, LinkUnchanged, Zenon DEF Kept
<1> QED BY <1>2, <1>3

\* Nothing happens.
LEMMA IdleStep ==
  ASSUME StepInv, UNCHANGED vars
  PROVE  Kept
<1>1. UNCHANGED <<rest, line, startF, rxPacket, rxPacketIdx, rxPacketLen, rxTimeoutCntr, silence, got, owed, inStep>>
  BY DEF vars, sender, receiver
<1>2. Received' = Received
  BY <1>1, Zenon DEF Received
<1>3. InStep' /\ NothingOwed' /\ Parsing' /\ Patient'
  BY <1>1, <1>2, Zenon DEF StepInv, InStep, NothingOwed, Parsing, Patient
<1> QED BY <1>1, <1>3, LinkUnchanged, Zenon DEF Kept

\* Every step keeps the invariant and is one of the link.
LEMMA StepKept == StepInv /\ [Next]_vars => StepInv' /\ [Link!Next]_(Link!vars)
<1> SUFFICES ASSUME StepInv, [Next]_vars PROVE TypeInv' /\ Kept
  BY Zenon DEF Kept, StepInv
<1>1. TypeInv'
  BY NextTyped DEF StepInv
<1>2. ASSUME NEW f \in Frames, SendFrame(f) PROVE Kept
  BY <1>2, FrameStep
<1>3. ASSUME LoseByte PROVE Kept
  <2>1. OutOfStep /\ got' = got
    BY <1>3 DEF LoseByte, receiver
  <2> QED BY <2>1, DisturbStep, Zenon DEF OutOfStep
<1>4. ASSUME SendByte PROVE Kept
  BY <1>4, SentStep
<1>5. ASSUME user_uart_init PROVE Kept
  BY <1>5, ModeStep
<1>6. ASSUME PollNothing PROVE Kept
  BY <1>6, NothingStep
<1>7. ASSUME PollSkip PROVE Kept
  BY <1>7, SkipStep
<1>8. ASSUME PollByte PROVE Kept
  BY <1>8, ByteStep
<1>9. ASSUME UNCHANGED vars PROVE Kept
  BY <1>9, IdleStep
<1> QED BY <1>1, <1>2, <1>3, <1>4, <1>5, <1>6, <1>7, <1>8, <1>9, Zenon DEF Next, uart_timer_func

\* Both start in step with nothing owed.
LEMMA InitInStep == Init => StepInv /\ Link!Init
<1> SUFFICES ASSUME Init PROVE StepInv /\ Link!Init
  OBVIOUS
<1>1. TypeInv
  BY InitTyped
<1>2. ~startF /\ inStep /\ inStep = TRUE /\ owed = <<>> /\ line = <<>> /\ rest = <<>>
  BY Zenon DEF Init
<1>3. NothingOwed /\ Parsing /\ Patient
  BY <1>2, Zenon DEF NothingOwed, Parsing, Patient
<1>4. InStep
  <2>1. Received = <<>>
    BY <1>2, Zenon DEF Received
  <2>2. <<>> \o <<>> \o <<>> = <<>>
    BY NoBytes, ConcatEmptySeq
  <2> QED BY <1>2, <2>1, <2>2, FlattenEmpty, Zenon DEF InStep
<1>5. Link!Init
  BY <1>2, Zenon DEF Link!Init
<1> QED BY <1>1, <1>3, <1>4, <1>5, Zenon DEF StepInv

\* Sender and receiver stay in step until a byte is lost or the mode changes within a
\* packet: whatever flags the data imitates and however slow the polls are, what was
\* taken, what waits and what is to be sent make up the frames that are owed
\* (user_uart.c:132-208).
THEOREM ReceiverInStep == Spec => []InStep
<1>1. StepInv => InStep
  BY DEF StepInv
<1> QED BY <1>1, InitInStep, StepKept, PTL DEF Spec

\* Each step of the receiver is a step of the abstract link: the callback gets every
\* frame sent in step once, in order, and with the fields it was sent with
\* (user_uart.c:40-54, 162-206).
THEOREM ReceiverDelivers == Spec => DeliversFrames
BY InitInStep, StepKept, PTL DEF Spec, DeliversFrames, Link!Spec
=============================================================================
