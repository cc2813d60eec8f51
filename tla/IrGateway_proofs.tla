-------------------------- MODULE IrGateway_proofs ---------------------------
(***************************************************************************)
(* Proofs about the way of a command and of a report, for every broker,    *)
(* text, buffer and number of packets that the assumptions allow: what is  *)
(* read of a segment, what reaches the controller, and what is queued for  *)
(* the broker.  In order: the sender of user/user_uart.c on its own; the   *)
(* readers of mqtt/mqtt_msg.c against packets as MQTT defines them; base64 *)
(* there and back; the statics of user/user_ir.c, with the refinement of   *)
(* the sender; and the builders of packets against what was meant.         *)
(***************************************************************************)
EXTENDS IrGateway, SeqLemmas, TLAPS

-----------------------------------------------------------------------------
\* The sender.

\* The inductive invariant: line holds what is in the FIFO, unless a byte was
\* dropped, and then both histories are empty.
TxTyped == /\ fifo \in 0 .. TxFifo
           /\ rest \in Seq(Byte) /\ line \in Seq(Byte) /\ owed \in Seq(Byte)
           /\ overrun \in BOOLEAN

InLine == IF overrun THEN line = <<>> /\ owed = <<>> ELSE Len(line) = fifo

TxInv == TxTyped /\ InLine /\ WholePackets

-----------------------------------------------------------------------------
\* Sequences of bytes.

LEMMA Joins ==
  ASSUME NEW s \in Seq(Byte), NEW t \in Seq(Byte)
  PROVE  /\ s \o t \in Seq(Byte)
         /\ Len(s) \in Nat /\ Len(s \o t) = Len(s) + Len(t)
         /\ s \o <<>> = s /\ <<>> \o s = s
BY ConcatProperties, ConcatEmptySeq, LenProperties

LEMMA Regroups ==
  ASSUME NEW s \in Seq(Byte), NEW t \in Seq(Byte), NEW u \in Seq(Byte)
  PROVE  (s \o t) \o u = s \o (t \o u)
BY ConcatAssociative

LEMMA Empties == <<>> \in Seq(Byte) /\ Len(<<>>) = 0
BY EmptySeq

LEMMA Singles == \A x \in Byte : <<x>> \in Seq(Byte) /\ Len(<<x>>) = 1
OBVIOUS

LEMMA Splits ==
  ASSUME NEW s \in Seq(Byte), s # <<>>
  PROVE  /\ Head(s) \in Byte /\ Tail(s) \in Seq(Byte)
         /\ Len(Tail(s)) = Len(s) - 1
         /\ s = <<Head(s)>> \o Tail(s)
<1>1. /\ Head(s) \in Byte /\ Tail(s) \in Seq(Byte)
      /\ Len(Tail(s)) = Len(s) - 1
  BY HeadTailProperties
<1>2. s = <<Head(s)>> \o Tail(s)
  OBVIOUS
<1>3. QED
  BY <1>1, <1>2

LEMMA TailOfJoin ==
  ASSUME NEW x \in Byte, NEW s \in Seq(Byte)
  PROVE  Tail(<<x>> \o s) = s
OBVIOUS

End == <<END_PKT_FLAG_ARD>>

LEMMA EndTyped == End \in Seq(Byte) /\ Len(End) = 1
<1>1. END_PKT_FLAG_ARD \in Byte
  BY DEF END_PKT_FLAG_ARD, Byte
<1>2. QED
  BY <1>1, Singles DEF End

LEMMA ToComeTyped == TxTyped => ToCome \in Seq(Byte)
BY EndTyped, Empties, Joins DEF TxTyped, ToCome, End

-----------------------------------------------------------------------------
\* What is written at once begins the packet, and the rest of it is to come.
Owing(payload) == IF payload = <<>> THEN <<>> ELSE payload \o End

LEMMA HeaderTyped ==
  ASSUME NEW cmd \in Byte, NEW id \in Byte, NEW n \in Nat
  PROVE  Header(cmd, id, n) \in Seq(Byte)
<1>1. \A k \in Nat : k % 256 \in 0 .. 255 /\ k \div 256 \in Nat
  OBVIOUS
<1>2. n + 6 \in Nat
  OBVIOUS
<1> DEFINE hi == ((n + 6) \div 256) % 256
           lo == (n + 6) % 256
<1>3. hi \in Byte /\ lo \in Byte
  BY <1>1, <1>2 DEF Byte
<1>4. Header(cmd, id, n) = <<START_PKT_FLAG_ARD, hi, lo, cmd, id>>
  BY DEF Header, HEADER_LEN
<1>5. START_PKT_FLAG_ARD \in Byte
  BY DEF START_PKT_FLAG_ARD, Byte
<1> HIDE DEF hi, lo
<1>6. QED
  BY <1>3, <1>4, <1>5

LEMMA StartTyped ==
  ASSUME NEW cmd \in Byte, NEW id \in Byte, NEW payload \in Seq(Byte)
  PROVE  /\ Start(cmd, id, payload) \in Seq(Byte)
         /\ Packet(cmd, id, payload) \in Seq(Byte)
         /\ Owing(payload) \in Seq(Byte)
         /\ Packet(cmd, id, payload) = Start(cmd, id, payload) \o Owing(payload)
<1> DEFINE head == Header(cmd, id, Len(payload))
<1>1. head \in Seq(Byte)
  BY HeaderTyped, LenProperties
<1>2. Start(cmd, id, payload) = head \o (IF payload = <<>> THEN End ELSE <<>>)
  BY DEF Start, End
<1>3. Packet(cmd, id, payload) = (head \o payload) \o End
  BY DEF Packet, End
<1> HIDE DEF head
<1>4. CASE payload = <<>>
  <2>1. Start(cmd, id, payload) = head \o End /\ Owing(payload) = <<>>
    BY <1>2, <1>4 DEF Owing
  <2>2. head \o payload = head /\ head \o End \in Seq(Byte) /\ (head \o End) \o <<>> = head \o End
    BY <1>1, <1>4, EndTyped, Empties, Joins
  <2>3. QED
    BY <1>3, <2>1, <2>2, Empties
<1>5. CASE payload # <<>>
  <2>1. Start(cmd, id, payload) = head /\ Owing(payload) = payload \o End
    BY <1>1, <1>2, <1>5, Empties, Joins DEF Owing
  <2>2. (head \o payload) \o End = head \o (payload \o End)
    BY <1>1, EndTyped, Regroups
  <2>3. payload \o End \in Seq(Byte) /\ head \o (payload \o End) \in Seq(Byte)
    BY <1>1, EndTyped, Joins
  <2>4. QED
    BY <1>1, <1>3, <2>1, <2>2, <2>3
<1>6. QED
  BY <1>4, <1>5

\* The writer without wait, with what it leaves to come.
LEMMA Writes ==
  ASSUME TxTyped, InLine,
         NEW n \in 0 .. TxFifo, NEW before \in Seq(Byte), NEW bytes \in Seq(Byte), NEW due \in Seq(Byte),
         n = fifo + Len(before), NoWait(n, before, bytes, due)
  PROVE  /\ fifo' \in 0 .. TxFifo /\ line' \in Seq(Byte) /\ owed' \in Seq(Byte) /\ overrun' \in BOOLEAN
         /\ InLine'
         /\ ~overrun' => ~overrun /\ line' = line \o (before \o bytes) /\ owed' = owed \o due
<1> USE TxAssumption
<1>1. Len(before) \in Nat /\ Len(bytes) \in Nat /\ before \o bytes \in Seq(Byte)
  BY Joins
<1>2. line \o (before \o bytes) \in Seq(Byte) /\ owed \o due \in Seq(Byte)
  BY <1>1, Joins DEF TxTyped
<1>3. /\ fifo' = IF n + Len(bytes) <= TxFifo THEN n + Len(bytes) ELSE TxFifo
      /\ overrun' = (overrun \/ n + Len(bytes) > TxFifo)
      /\ line' = IF overrun' THEN <<>> ELSE line \o before \o bytes
      /\ owed' = IF overrun' THEN <<>> ELSE owed \o due
  BY DEF NoWait
<1>4. line \o before \o bytes = line \o (before \o bytes)
  <2>1. line \in Seq(Byte)
    BY DEF TxTyped
  <2>2. QED
    BY <2>1, Regroups
<1>5. fifo' \in 0 .. TxFifo /\ overrun' \in BOOLEAN
  <2>1. fifo' \in 0 .. TxFifo
    BY <1>1, <1>3
  <2>2. overrun' \in BOOLEAN
    BY <1>3 DEF TxTyped
  <2>3. QED
    BY <2>1, <2>2
<1>6. CASE overrun'
  <2>1. line' = <<>> /\ owed' = <<>>
    BY <1>3, <1>6
  <2>2. QED
    BY <1>5, <1>6, <2>1, Empties DEF InLine
<1>7. CASE ~overrun'
  <2>1. ~overrun /\ ~(n + Len(bytes) > TxFifo)
    BY <1>3, <1>7
  <2>2. line' = line \o (before \o bytes) /\ owed' = owed \o due
    BY <1>3, <1>4, <1>7
  <2>3. fifo' = n + Len(bytes)
    BY <1>1, <1>3, <2>1
  <2>4. Len(line) = fifo
    BY <2>1 DEF InLine
  <2>5. Len(line \o (before \o bytes)) = Len(line) + (Len(before) + Len(bytes))
    BY <1>1, Joins DEF TxTyped
  <2>6. Len(line') = fifo'
    BY <1>1, <2>2, <2>3, <2>4, <2>5 DEF TxTyped
  <2>7. QED
    BY <1>2, <1>5, <1>7, <2>1, <2>2, <2>6 DEF InLine
<1>8. QED
  BY <1>6, <1>7

-----------------------------------------------------------------------------
\* Every step preserves the invariant.

LEMMA SendInv ==
  ASSUME TxInv, NEW cmd \in Byte, NEW id \in Byte, NEW payload \in Seq(Byte),
         user_uart_packet_send(cmd, id, payload)
  PROVE  TxInv'
<1> DEFINE start == Start(cmd, id, payload)
           packet == Packet(cmd, id, payload)
           none == <<>>
<1>1. /\ start \in Seq(Byte) /\ packet \in Seq(Byte) /\ Owing(payload) \in Seq(Byte)
      /\ packet = start \o Owing(payload)
  BY StartTyped
<1> HIDE DEF start, packet, none
<1>2. CASE is_uart_sending
  BY <1>2 DEF user_uart_packet_send, txVars, TxInv, TxTyped, InLine, WholePackets, ToCome, is_uart_sending
<1>3. CASE ~is_uart_sending
  <2>1. NoWait(fifo, none, start, packet) /\ rest' = payload
    BY <1>3 DEF user_uart_packet_send, start, packet, none
  <2>2. ToCome' = Owing(payload) /\ ToCome = <<>>
    BY <1>3, <2>1 DEF ToCome, is_uart_sending, Owing, End
  <2>3. /\ fifo \in 0 .. TxFifo /\ fifo = fifo + Len(none)
        /\ none \in Seq(Byte) /\ start \in Seq(Byte) /\ packet \in Seq(Byte)
        /\ TxTyped /\ InLine
    BY <1>1, Empties, TxAssumption DEF TxInv, TxTyped, none
  <2>4. /\ fifo' \in 0 .. TxFifo /\ line' \in Seq(Byte) /\ owed' \in Seq(Byte) /\ overrun' \in BOOLEAN
        /\ InLine'
        /\ ~overrun' => ~overrun /\ line' = line \o (none \o start) /\ owed' = owed \o packet
    BY <2>1, <2>3, Writes
  <2>5. ASSUME ~overrun' PROVE owed' = line' \o ToCome'
    <3>1. none \o start = start /\ line \o <<>> = line
      BY <1>1, Joins DEF TxInv, TxTyped, none
    <3>2. owed = line
      BY <2>2, <2>4, <2>5, <3>1 DEF TxInv, WholePackets
    <3>3. (line \o start) \o Owing(payload) = line \o packet
      <4>1. line \in Seq(Byte)
        BY DEF TxInv, TxTyped
      <4>2. QED
        BY <1>1, <4>1, Regroups
    <3>4. QED
      BY <2>2, <2>4, <2>5, <3>1, <3>2, <3>3
  <2>6. QED
    BY <2>1, <2>4, <2>5 DEF TxInv, TxTyped, WholePackets
<1>4. QED
  BY <1>2, <1>3

LEMMA TimerInv == ASSUME TxInv, tx_timeoutfunc PROVE TxInv'
<1> DEFINE behind == IF Tail(rest) = <<>> THEN End ELSE <<>>
           first == <<Head(rest)>>
<1>1. /\ rest # <<>> /\ fifo < TxFifo /\ rest' = Tail(rest)
      /\ NoWait(fifo + 1, first, behind, <<>>)
  BY DEF tx_timeoutfunc, HasRoom, is_uart_sending, End
<1>2. /\ Head(rest) \in Byte /\ Tail(rest) \in Seq(Byte)
      /\ rest = first \o Tail(rest)
  BY <1>1, Splits DEF TxInv, TxTyped
<1>3. first \in Seq(Byte) /\ Len(first) = 1
  BY <1>2, Singles
<1>4. behind \in Seq(Byte)
  BY EndTyped, Empties
<1>5. fifo + 1 \in 0 .. TxFifo /\ fifo + 1 = fifo + Len(first) /\ TxTyped /\ InLine
  BY <1>1, <1>3, TxAssumption DEF TxInv, TxTyped
<1>6. ToCome' = IF Tail(rest) = <<>> THEN <<>> ELSE Tail(rest) \o End
  BY <1>1 DEF ToCome, is_uart_sending, End
<1> HIDE DEF behind, first
<1>7. /\ fifo' \in 0 .. TxFifo /\ line' \in Seq(Byte) /\ owed' \in Seq(Byte) /\ overrun' \in BOOLEAN
      /\ InLine'
      /\ ~overrun' => ~overrun /\ line' = line \o (first \o behind) /\ owed' = owed \o <<>>
  BY <1>1, <1>3, <1>4, <1>5, Empties, Writes, ZenonT(40)
<1>8. ASSUME ~overrun' PROVE owed' = line' \o ToCome'
  <2>1. owed' = owed
    BY <1>7, <1>8, Joins DEF TxInv, TxTyped
  <2>2. owed = line \o (rest \o End)
    BY <1>1, <1>7, <1>8 DEF TxInv, WholePackets, ToCome, is_uart_sending, End
  <2>3. rest \o End = first \o (Tail(rest) \o End)
    BY <1>2, <1>3, EndTyped, Regroups
  <2>4. first \o (Tail(rest) \o End) = (first \o behind) \o ToCome'
    <3>1. CASE Tail(rest) = <<>>
      <4>1. Tail(rest) \o End = End /\ behind = End /\ ToCome' = <<>>
        BY <1>6, <3>1, EndTyped, Joins DEF behind
      <4>2. first \o End \in Seq(Byte) /\ (first \o End) \o <<>> = first \o End
        BY <1>3, EndTyped, Empties, Joins
      <4>3. QED
        BY <4>1, <4>2
    <3>2. CASE Tail(rest) # <<>>
      <4>1. behind = <<>> /\ ToCome' = Tail(rest) \o End /\ first \o <<>> = first
        BY <1>3, <1>6, <3>2, Joins DEF behind
      <4>2. QED
        BY <4>1
    <3>3. QED
      BY <3>1, <3>2
  <2>5. ToCome' \in Seq(Byte) /\ first \o behind \in Seq(Byte)
    BY <1>2, <1>3, <1>4, <1>6, EndTyped, Empties, Joins
  <2>6. line \o ((first \o behind) \o ToCome') = (line \o (first \o behind)) \o ToCome'
    BY <2>5, Regroups, ZenonT(40) DEF TxInv, TxTyped
  <2>7. QED
    BY <1>7, <1>8, <2>1, <2>2, <2>3, <2>4, <2>6
<1>9. QED
  BY <1>1, <1>2, <1>7, <1>8 DEF TxInv, TxTyped, WholePackets

LEMMA DrainInv == ASSUME TxInv, Drain PROVE TxInv'
<1>1. /\ fifo > 0 /\ fifo' = fifo - 1 /\ rest' = rest /\ ToCome' = ToCome
      /\ fifo' \in 0 .. TxFifo
  BY TxAssumption DEF Drain, TxInv, TxTyped, ToCome, is_uart_sending
<1>2. CASE overrun
  <2>1. line' = <<>> /\ owed' = <<>> /\ overrun' = (fifo > 1 \/ is_uart_sending)
    BY <1>2 DEF Drain
  <2>2. ASSUME ~overrun' PROVE fifo' = 0 /\ ToCome' = <<>>
    <3>1. ~(fifo > 1) /\ ~is_uart_sending
      BY <2>1, <2>2
    <3>2. fifo \in Nat
      BY TxAssumption DEF TxInv, TxTyped
    <3>3. QED
      BY <1>1, <3>1, <3>2 DEF ToCome
  <2>3. <<>> \o <<>> = <<>>
    BY Empties, Joins
  <2>4. InLine' /\ WholePackets'
    BY <2>1, <2>2, <2>3, Empties DEF InLine, WholePackets
  <2>5. QED
    BY <1>1, <2>1, <2>4, Empties DEF TxInv, TxTyped
<1>3. CASE ~overrun
  <2>1. line' = Tail(line) /\ owed' = Tail(owed) /\ ~overrun'
    BY <1>3 DEF Drain
  <2>2. line # <<>> /\ Len(line) = fifo /\ owed = line \o ToCome
    BY <1>1, <1>3, Empties DEF TxInv, InLine, WholePackets
  <2>3. /\ Head(line) \in Byte /\ Tail(line) \in Seq(Byte) /\ Len(Tail(line)) = fifo - 1
        /\ line = <<Head(line)>> \o Tail(line)
    BY <2>2, Splits DEF TxInv, TxTyped
  <2>4. ToCome \in Seq(Byte)
    BY ToComeTyped DEF TxInv
  <2>5. <<Head(line)>> \in Seq(Byte)
    BY <2>3, Singles
  <2>6. line \o ToCome = <<Head(line)>> \o (Tail(line) \o ToCome)
    BY <2>3, <2>4, <2>5, Regroups
  <2>7. Tail(line) \o ToCome \in Seq(Byte)
    BY <2>3, <2>4, Joins
  <2>8. Tail(owed) = Tail(line) \o ToCome
    BY <2>2, <2>3, <2>6, <2>7, TailOfJoin
  <2>9. overrun' \in BOOLEAN
    BY <1>3 DEF Drain
  <2>10. QED
    BY <1>1, <2>1, <2>3, <2>7, <2>8, <2>9 DEF TxInv, TxTyped, InLine, WholePackets
<1>4. QED
  BY <1>2, <1>3

LEMMA TxInvHolds == TxSpec => []TxInv
<1>1. InitTx => TxInv
  <2> SUFFICES ASSUME InitTx PROVE TxInv
    OBVIOUS
  <2>1. fifo \in 0 .. TxFifo
    BY TxAssumption DEF InitTx
  <2>2. <<>> \o <<>> = <<>>
    BY Empties, Joins
  <2>3. ToCome = <<>>
    BY DEF InitTx, ToCome, is_uart_sending
  <2>4. QED
    BY <2>1, <2>2, <2>3, Empties DEF InitTx, TxInv, TxTyped, InLine, WholePackets
<1>2. TxInv /\ [TxNext]_txVars => TxInv'
  <2>1. ASSUME TxInv, UNCHANGED txVars PROVE TxInv'
    BY <2>1 DEF txVars, TxInv, TxTyped, InLine, WholePackets, ToCome, is_uart_sending
  <2>2. QED
    BY <2>1, SendInv, TimerInv, DrainInv DEF TxNext, Payloads
<1>3. QED
  BY <1>1, <1>2, PTL DEF TxSpec

\* The controller sees whole packets, whatever commands come and whenever, and
\* however small the FIFO is (user_uart.c:64-129).
THEOREM TxWholePackets == TxSpec => []WholePackets
<1>1. TxInv => WholePackets
  BY DEF TxInv
<1>2. QED
  BY <1>1, TxInvHolds, PTL

-----------------------------------------------------------------------------
\* Packets as they are read: a first byte, the length in one digit or two, a body.

\* A length of two digits, and its digits.
Short(n) == n < Digit * Digit
Split(n, r, q) == n = r + Digit * q

LEMMA TwoDigits ==
  ASSUME NEW n \in Nat, Short(n)
  PROVE  n % Digit \in 0 .. Digit - 1 /\ n \div Digit \in 0 .. Digit - 1 /\ Split(n, n % Digit, n \div Digit)
<1> DEFINE q == n \div Digit
           r == n % Digit
<1>1. Digit \in Nat /\ Digit > 2
  BY MsgAssumption
<1>2. q \in Nat /\ r \in 0 .. Digit - 1 /\ n = r + Digit * q
  BY <1>1
<1> HIDE DEF q, r
<1>3. q < Digit
  BY <1>1, <1>2 DEF Short
<1> QED BY <1>1, <1>2, <1>3 DEF q, r, Split

\* The bytes of a number of two bytes.
LEMMA TwoBytes ==
  ASSUME NEW n \in Nat
  PROVE  /\ Bytes2(n) \in Seq(Int) /\ Len(Bytes2(n)) = 2
         /\ 256 * Bytes2(n)[1] + Bytes2(n)[2] = n
<1> DEFINE q == n \div 256
           r == n % 256
<1>1. q \in Int /\ r \in Int /\ 256 * q + r = n
  OBVIOUS
<1>2. Bytes2(n) = <<q, r>>
  BY DEF Bytes2
<1> HIDE DEF q, r
<1> QED BY <1>1, <1>2

LEMMA ModSmall == ASSUME NEW n \in Nat, NEW m \in Nat, n < m PROVE n % m = n
OBVIOUS

LEMMA ModMore == ASSUME NEW n \in Nat, NEW m \in Nat, n < m PROVE (m + n) % m = n
<1>1. m + n = n + m * 1 /\ m > 0
  OBVIOUS
<1> QED BY <1>1

\* What the first byte and the length begin a packet with: h, of d digits.
Heads(h, x, n, d) ==
  /\ h \in Seq(Int) /\ Len(h) = d + 1 /\ h[1] = x
  /\ d = 1 => h[2] = n /\ n < Digit
  /\ d = 2 => ~(n < Digit) /\ h[2] \in Digit .. 2 * Digit - 1 /\ h[3] \in 0 .. Digit - 1 /\ Split(n, h[2] - Digit, h[3])

LEMMA HeadIs ==
  ASSUME NEW x \in Int, NEW n \in Nat, Short(n)
  PROVE  \E d \in 1 .. 2 : Heads(<<x>> \o Remaining(n), x, n, d)
<1> DEFINE r == n % Digit
           q == n \div Digit
<1>1. Digit \in Nat /\ Digit > 2
  BY MsgAssumption
<1>2. r \in 0 .. Digit - 1 /\ q \in 0 .. Digit - 1 /\ Split(n, r, q)
  BY TwoDigits
<1>3. Remaining(n) = IF n < Digit THEN <<n>> ELSE <<Digit + r, q>>
  BY Zenon DEF Remaining
<1> HIDE DEF q, r
<1>4. CASE n < Digit
  <2> DEFINE h == <<x, n>>
  <2>1. h = <<x>> \o Remaining(n)
    <3>1. Remaining(n) = <<n>>
      BY <1>3, <1>4, Zenon
    <3>2. <<x>> \o <<n>> = <<x, n>>
      <4>1. n \in Int
        OBVIOUS
      <4> QED BY <4>1, TwoAre, Zenon
    <3> QED BY <3>1, <3>2, Zenon
  <2>2. h \in Seq(Int) /\ Len(h) = 2 /\ h[1] = x /\ h[2] = n
    OBVIOUS
  <2> HIDE DEF h
  <2>3. Heads(h, x, n, 1)
    BY <1>4, <2>2 DEF Heads
  <2> QED BY <2>1, <2>3
<1>5. CASE ~(n < Digit)
  <2> DEFINE h == <<x, Digit + r, q>>
  <2>1. h = <<x>> \o Remaining(n)
    BY <1>3, <1>5
  <2>2. h \in Seq(Int) /\ Len(h) = 3 /\ h[1] = x /\ h[2] = Digit + r /\ h[3] = q
    BY <1>1, <1>2
  <2> HIDE DEF h
  <2>3. h[2] - Digit = r /\ h[2] \in Digit .. 2 * Digit - 1
    BY <1>1, <1>2, <2>2
  <2>4. Heads(h, x, n, 2)
    BY <1>2, <1>5, <2>2, <2>3 DEF Heads
  <2> QED BY <2>1, <2>4
<1> QED BY <1>4, <1>5

\* Digits follows its recursion; spelt out for one byte,
LEMMA DigitIs == ASSUME NEW b, b[2] \in Int PROVE Digits(b, 1) = b[2] % Digit
<1>1. Digit \in Nat /\ Digit > 2
  BY MsgAssumption
<1> DEFINE x == b[2] % Digit
<1>2. x \in Int
  BY <1>1
<1>3. Digits(b, 1) = x
  <2> DEFINE Is(f) == f = [i \in 1 .. 1 + 1 |-> IF i = 1 + 1 THEN 0 ELSE (b[i + 1] % Digit) + Digit * f[i + 1]]
             F == CHOOSE f : Is(f)
             g == [i \in 1 .. 2 |-> IF i = 2 THEN 0 ELSE x]
  <2>1. Digits(b, 1) = F[1]
    BY Zenon DEF Digits
  <2>2. Is(g)
    <3>1. \A i \in 1 .. 1 + 1 : g[i] = IF i = 1 + 1 THEN 0 ELSE (b[i + 1] % Digit) + Digit * g[i + 1]
      <4>1. g[1] = x /\ g[2] = 0 /\ x + Digit * 0 = x
        BY <1>1, <1>2
      <4>2. ASSUME NEW i \in 1 .. 1 + 1 PROVE (i = 1 /\ i + 1 = 2 /\ i # 1 + 1) \/ (i = 1 + 1 /\ i = 2)
        OBVIOUS
      <4> HIDE DEF g
      <4>3. (b[1 + 1] % Digit) = x
        BY DEF x
      <4> HIDE DEF x
      <4> QED BY <1>2, <4>1, <4>2, <4>3
    <3> QED BY <3>1
  <2> HIDE DEF Is
  <2>3. Is(F)
    BY <2>2, Zenon
  <2>4. F[1] = (b[2] % Digit) + Digit * F[2] /\ F[2] = 0
    <3> HIDE DEF F
    <3> QED BY <2>3 DEF Is
  <2> HIDE DEF F
  <2> QED BY <1>1, <1>2, <2>1, <2>4
<1> QED BY <1>3

\* and for two.
LEMMA DigitsAre ==
  ASSUME NEW b, b[2] \in Int, b[3] \in Int
  PROVE  Digits(b, 2) = (b[2] % Digit) + Digit * (b[3] % Digit)
<1>1. Digit \in Nat /\ Digit > 2
  BY MsgAssumption
<1> DEFINE x == b[2] % Digit
           y == b[3] % Digit
<1>2. x \in Int /\ y \in Int
  BY <1>1
<1>3. Digits(b, 2) = x + Digit * y
  <2> DEFINE Is(f) == f = [i \in 1 .. 2 + 1 |-> IF i = 2 + 1 THEN 0 ELSE (b[i + 1] % Digit) + Digit * f[i + 1]]
             F == CHOOSE f : Is(f)
             g == [i \in 1 .. 3 |-> IF i = 3 THEN 0 ELSE IF i = 2 THEN y ELSE x + Digit * y]
  <2>1. Digits(b, 2) = F[1]
    BY Zenon DEF Digits
  <2>2. Is(g)
    <3>1. \A i \in 1 .. 2 + 1 : g[i] = IF i = 2 + 1 THEN 0 ELSE (b[i + 1] % Digit) + Digit * g[i + 1]
      <4>1. g[1] = x + Digit * y /\ g[2] = y + Digit * 0 /\ g[3] = 0
        BY <1>1, <1>2
      <4>2. ASSUME NEW i \in 1 .. 2 + 1 PROVE (i = 1 /\ i + 1 = 2) \/ (i = 2 /\ i + 1 = 3) \/ i = 3
        OBVIOUS
      <4>3. b[1 + 1] % Digit = x /\ b[2 + 1] % Digit = y
        BY DEF x, y
      <4>4. (b[1 + 1] % Digit) + Digit * g[1 + 1] = g[1]
        <5>1. g[2] = y
          BY <1>1, <1>2, <4>1
        <5> HIDE DEF g, x, y
        <5> QED BY <4>1, <4>3, <5>1
      <4>5. (b[2 + 1] % Digit) + Digit * g[2 + 1] = g[2]
        <5> HIDE DEF g, x, y
        <5> QED BY <4>1, <4>3
      <4> HIDE DEF g, x, y
      <4> QED BY <4>1, <4>2, <4>4, <4>5
    <3> QED BY <3>1
  <2> HIDE DEF Is
  <2>3. Is(F)
    BY <2>2, Zenon
  <2>4. F[1] = (b[2] % Digit) + Digit * F[2] /\ F[2] = (b[3] % Digit) + Digit * F[3] /\ F[3] = 0
    <3> HIDE DEF F
    <3> QED BY <2>3 DEF Is
  <2> HIDE DEF F
  <2>5. F[2] = y
    BY <1>1, <1>2, <2>4
  <2> QED BY <2>1, <2>4, <2>5
<1> QED BY <1>3

\* The text begins behind the first byte without a mark.
LEMMA BodyIs ==
  ASSUME NEW b \in Seq(Int), NEW d \in 1 .. 2, d < Len(b),
         d = 2 => b[2] >= Digit, b[d + 1] < Digit
  PROVE  Body(b) = d + 1
<1> DEFINE last == {i \in 1 .. Len(b) - 1 : b[i + 1] < Digit}
<1>1. d \in last /\ \A i \in last : d <= i
  <2>1. d \in 1 .. Len(b) - 1 /\ Len(b) \in Nat
    OBVIOUS
  <2>2. ASSUME NEW i \in last, ~(d <= i) PROVE FALSE
    <3>1. i = 1 /\ d = 2
      BY <2>2
    <3>2. b[1 + 1] < Digit
      BY <2>2, <3>1
    <3>3. b[2] \in Int /\ Digit \in Int
      BY <3>1, MsgAssumption
    <3> QED BY <3>1, <3>2, <3>3
  <2>3. d \in last
    BY <2>1
  <2>4. last \subseteq Int
    OBVIOUS
  <2> QED BY <2>2, <2>3, <2>4
<1>2. last \subseteq Int
  OBVIOUS
<1>3. Body(b) = IF last = {} THEN Len(b) ELSE Min(last) + 1
  BY Zenon DEF Body
<1> HIDE DEF last
<1>4. Min(last) \in last /\ \A i \in last : Min(last) <= i
  <2> DEFINE Is(x) == x \in last /\ \A y \in last : x <= y
             m == CHOOSE x : Is(x)
  <2>1. Min(last) = CHOOSE x \in last : \A y \in last : x <= y
    BY Zenon DEF Min
  <2>2. Is(d)
    BY <1>1
  <2> QED BY <1>1, <2>1, Zenon
<1>5. Min(last) = d
  <2> DEFINE m == Min(last)
  <2>1. m \in Int /\ d \in Int /\ d <= m /\ m <= d
    BY <1>1, <1>2, <1>4
  <2> HIDE DEF m
  <2>2. m = d
    BY <2>1
  <2> QED BY <2>2 DEF m
<1> QED BY <1>1, <1>3, <1>5

LEMMA BodyOne ==
  ASSUME NEW b \in Seq(Int), Len(b) > 1, b[2] < Digit
  PROVE  Body(b) = 2
<1> DEFINE d == 1
<1>1. d \in 1 .. 2 /\ d < Len(b) /\ (d = 2 => b[2] >= Digit) /\ b[d + 1] < Digit
  OBVIOUS
<1> HIDE DEF d
<1>2. Body(b) = d + 1
  BY <1>1, BodyIs, Zenon
<1> QED BY <1>2 DEF d

LEMMA BodyTwo ==
  ASSUME NEW b \in Seq(Int), Len(b) > 2, b[2] >= Digit, b[3] < Digit
  PROVE  Body(b) = 3
<1> DEFINE d == 2
<1>1. d \in 1 .. 2 /\ d < Len(b) /\ (d = 2 => b[2] >= Digit) /\ b[d + 1] < Digit
  OBVIOUS
<1> HIDE DEF d
<1>2. Body(b) = d + 1
  BY <1>1, BodyIs, Zenon
<1> QED BY <1>2 DEF d

\* What the bytes b are: a first one, x; the length of c in d digits; c; and t.
Framed(b, x, c, t, d) ==
  /\ b \in Seq(Int) /\ Len(b) = d + 1 + Len(c) + Len(t)
  /\ b[1] = x
  /\ Body(b) = d + 1
  /\ mqtt_get_total_length(b) = d + 1 + Len(c)
  /\ d = 1 => b[2] = Len(c)
  /\ Len(c) < Digit => d = 1
  /\ \A i \in 2 .. d : b[i] >= Digit
  /\ b[d + 1] < Digit /\ (d > 1 => b[d + 1] # 0)
  /\ Digits(b, d) = Len(c)
  /\ \A i \in 1 .. Len(c) : b[d + 1 + i] = c[i]
  /\ \A i \in 1 .. Len(t) : b[d + 1 + Len(c) + i] = t[i]

\* A packet of a broker, and what is behind it.
InFront(x, c, t) == (<<x>> \o Remaining(Len(c)) \o c) \o t

LEMMA IsFramed ==
  ASSUME NEW x \in Int, NEW c \in Seq(Int), Short(Len(c)), NEW t \in Seq(Int)
  PROVE  \E d \in 1 .. 2 : Framed(InFront(x, c, t), x, c, t, d)
<1> DEFINE n == Len(c)
           k == Len(t)
           h == <<x>> \o Remaining(n)
           b == InFront(x, c, t)
<1>1. n \in Nat /\ k \in Nat /\ Digit \in Nat /\ Digit > 2
  BY MsgAssumption
<1>2. PICK d \in 1 .. 2 : Heads(h, x, n, d)
  <2> HIDE DEF n
  <2>1. Short(n)
    BY DEF n
  <2> QED BY <1>1, <2>1, HeadIs
<1>3. b = (h \o c) \o t
  BY Zenon DEF InFront
<1> HIDE DEF h, b
<1>4. h \in Seq(Int) /\ Len(h) = d + 1 /\ h[1] = x
  BY <1>2 DEF Heads
<1>5. /\ h \o c \in Seq(Int) /\ Len(h \o c) = d + 1 + n
      /\ \A i \in 1 .. d + 1 : (h \o c)[i] = h[i]
      /\ \A i \in 1 .. n : (h \o c)[d + 1 + i] = c[i]
  <2>1. h \o c \in Seq(Int)
    BY <1>4, ConcatProperties
  <2>2. /\ Len(h \o c) = Len(h) + n
        /\ \A i \in 1 .. Len(h) : (h \o c)[i] = h[i]
        /\ \A i \in 1 .. n : (h \o c)[Len(h) + i] = c[i]
    <3>1. h \in Seq(Int)
      BY <1>4
    <3> QED BY <3>1, ConcatAt, SMTT(20)
  <2> QED BY <1>4, <2>1, <2>2, Zenon
<1> DEFINE y == h \o c
<1> HIDE DEF y
<1>6. /\ b \in Seq(Int) /\ Len(b) = d + 1 + n + k
      /\ \A i \in 1 .. d + 1 + n : b[i] = y[i]
      /\ \A i \in 1 .. k : b[d + 1 + n + i] = t[i]
  <2>1. y \in Seq(Int) /\ Len(y) = d + 1 + n /\ b = y \o t
    BY <1>3, <1>5, Zenon DEF y
  <2>2. b \in Seq(Int)
    BY <2>1, ConcatProperties
  <2>3. /\ Len(b) = Len(y) + k
        /\ \A i \in 1 .. Len(y) : b[i] = y[i]
        /\ \A i \in 1 .. k : b[Len(y) + i] = t[i]
    <3>1. y \in Seq(Int)
      BY <2>1
    <3>2. /\ Len(y \o t) = Len(y) + k
          /\ \A i \in 1 .. Len(y) : (y \o t)[i] = y[i]
          /\ \A i \in 1 .. k : (y \o t)[Len(y) + i] = t[i]
      BY <3>1, ConcatAt, SMTT(20)
    <3> QED BY <2>1, <3>2, Zenon
  <2> QED BY <2>1, <2>2, <2>3, Zenon
<1>7. \A i \in 1 .. d + 1 : b[i] = h[i]
  <2> SUFFICES ASSUME NEW i \in 1 .. d + 1 PROVE b[i] = h[i]
    OBVIOUS
  <2> HIDE DEF n, k
  <2>1. i \in 1 .. d + 1 + n
    BY <1>1
  <2> QED BY <1>5, <1>6, <2>1, Zenon DEF y
<1>8. \A i \in 1 .. n : b[d + 1 + i] = c[i]
  <2> SUFFICES ASSUME NEW i \in 1 .. n PROVE b[d + 1 + i] = c[i]
    OBVIOUS
  <2> HIDE DEF n, k
  <2>1. d + 1 + i \in 1 .. d + 1 + n
    BY <1>1
  <2> QED BY <1>5, <1>6, <2>1, Zenon DEF y
<1> HIDE DEF n, k
<1>9. ASSUME d = 1 PROVE Framed(b, x, c, t, d)
  <2>1. h[2] = n /\ n < Digit
    BY <1>2, <1>9 DEF Heads
  <2>2. Len(b) = 2 + n + k /\ b[1] = x /\ b[2] = n
    BY <1>1, <1>4, <1>6, <1>7, <1>9, <2>1
  <2>3. Body(b) = 2
    <3>1. b \in Seq(Int) /\ Len(b) > 1 /\ b[2] < Digit
      BY <1>1, <1>6, <2>1, <2>2
    <3> QED BY <3>1, BodyOne, Zenon
  <2>4. n % Digit = n
    BY <1>1, <2>1, ModSmall, Zenon
  <2>5. Digits(b, 1) = n
    <3>1. b[2] \in Int
      BY <1>1, <2>2
    <3> QED BY <2>2, <2>4, <3>1, DigitIs, Zenon
  <2>6. mqtt_get_total_length(b) = 2 + n
    BY <1>1, <2>3, <2>5 DEF mqtt_get_total_length
  <2>7. b \in Seq(Int) /\ Len(b) = d + 1 + n + k /\ Body(b) = d + 1 /\ mqtt_get_total_length(b) = d + 1 + n
    BY <1>1, <1>6, <1>9, <2>3, <2>6
  <2>12. d = 1 => b[2] = n
    BY <1>6, <1>8, <1>9, <2>2, <2>7, Zenon
  <2>13. n < Digit => d = 1
    BY <1>6, <1>8, <1>9, <2>2, <2>7, Zenon
  <2>14. b[1] = x
    BY <2>2, Zenon
  <2>15. \A i \in 1 .. k : b[d + 1 + n + i] = t[i]
    BY <1>6, Zenon
  <2>16. \A i \in 2 .. d : b[i] >= Digit
    BY <1>9
  <2>17. b[d + 1] < Digit /\ (d > 1 => b[d + 1] # 0)
    BY <1>9, <2>1, <2>2
  <2>18. Digits(b, d) = n
    BY <1>9, <2>5, Zenon
  <2> QED BY <1>8, <2>7, <2>12, <2>13, <2>14, <2>15, <2>16, <2>17, <2>18, Zenon DEF Framed, n, k
<1>10. ASSUME d = 2 PROVE Framed(b, x, c, t, d)
  <2>1. ~(n < Digit) /\ h[2] \in Digit .. 2 * Digit - 1 /\ h[3] \in 0 .. Digit - 1 /\ Split(n, h[2] - Digit, h[3])
    BY <1>2, <1>10 DEF Heads
  <2>2. Len(b) = 3 + n + k /\ b[1] = x /\ b[2] = h[2] /\ b[3] = h[3]
    BY <1>1, <1>4, <1>6, <1>7, <1>10
  <2> DEFINE r == h[2] - Digit
             q == h[3]
  <2>3. r \in 0 .. Digit - 1 /\ q \in 0 .. Digit - 1 /\ b[2] = Digit + r /\ b[3] = q /\ Split(n, r, q)
    <3>1. r \in 0 .. Digit - 1 /\ h[2] = Digit + r
      <4> DEFINE z == h[2]
      <4>1. z \in Digit .. 2 * Digit - 1
        BY <2>1
      <4> HIDE DEF z
      <4>2. z - Digit \in 0 .. Digit - 1 /\ z = Digit + (z - Digit)
        BY <1>1, <4>1
      <4> QED BY <4>2 DEF z
    <3> QED BY <2>1, <2>2, <3>1, Zenon
  <2> HIDE DEF r, q
  <2>4. Body(b) = 3
    <3>1. b \in Seq(Int) /\ Len(b) > 2 /\ b[2] >= Digit /\ b[3] < Digit
      BY <1>1, <1>6, <2>2, <2>3
    <3> QED BY <3>1, BodyTwo, Zenon
  <2>5. (Digit + r) % Digit = r /\ q % Digit = q
    <3>1. r \in Nat /\ r < Digit /\ q \in Nat /\ q < Digit
      BY <1>1, <2>3
    <3> QED BY <1>1, <3>1, ModSmall, ModMore, Zenon
  <2>6. b[2] \in Int /\ b[3] \in Int
    BY <1>1, <2>3
  <2>7. Digits(b, 2) = (b[2] % Digit) + Digit * (b[3] % Digit)
    BY <2>6, DigitsAre, Zenon
  <2>8. Digits(b, 2) = r + Digit * q
    BY <2>3, <2>5, <2>7, Zenon
  <2>9. Digits(b, 2) = n
    BY <2>3, <2>8, Zenon DEF Split
  <2>10. mqtt_get_total_length(b) = 3 + n
    BY <1>1, <2>4, <2>9 DEF mqtt_get_total_length
  <2>11. b \in Seq(Int) /\ Len(b) = d + 1 + n + k /\ Body(b) = d + 1 /\ mqtt_get_total_length(b) = d + 1 + n
         /\ d # 1
    BY <1>1, <1>6, <1>10, <2>4, <2>10
  <2>12. d = 1 => b[2] = n
    BY <1>6, <1>8, <2>1, <2>2, <2>11, Zenon
  <2>13. n < Digit => d = 1
    BY <1>6, <1>8, <2>1, <2>2, <2>11, Zenon
  <2>14. b[1] = x
    BY <2>2, Zenon
  <2>15. \A i \in 1 .. k : b[d + 1 + n + i] = t[i]
    BY <1>6, Zenon
  <2>16. \A i \in 2 .. d : b[i] >= Digit
    BY <1>1, <1>10, <2>3
  <2>17. b[d + 1] < Digit /\ (d > 1 => b[d + 1] # 0)
    <3>1. q # 0
      <4>1. n = r + Digit * q
        BY <2>3, Zenon DEF Split
      <4>2. ASSUME q = 0 PROVE FALSE
        <5>1. n = r
          BY <1>1, <2>3, <4>1, <4>2
        <5> QED BY <1>1, <2>1, <2>3, <5>1
      <4> QED BY <4>2
    <3>2. b[d + 1] = q /\ q < Digit
      BY <1>1, <1>10, <2>3
    <3> QED BY <3>1, <3>2, Zenon
  <2>18. Digits(b, d) = n
    BY <1>10, <2>9, Zenon
  <2> QED BY <1>8, <2>11, <2>12, <2>13, <2>14, <2>15, <2>16, <2>17, <2>18, Zenon DEF Framed, n, k
<1>11. d = 1 \/ d = 2
  OBVIOUS
<1> QED BY <1>9, <1>10, <1>11, Zenon DEF b

\* The first byte gives type and quality back.
LEMMA FirstByte ==
  ASSUME NEW b, NEW type \in Nat, NEW qos \in 0 .. 3, NEW k \in 0 .. 1, b[1] = 16 * type + 2 * qos + k
  PROVE  mqtt_get_type(b) = type /\ mqtt_get_qos(b) = qos
<1>1. b[1] \div 16 = type /\ b[1] % 8 = 2 * qos + k
  OBVIOUS
<1>2. (2 * qos + k) \div 2 = qos
  OBVIOUS
<1> QED BY <1>1, <1>2 DEF mqtt_get_type, mqtt_get_qos

\* Elements of a text and of its length.
LEMMA StringIs ==
  ASSUME NEW s \in Seq(Int)
  PROVE  /\ append_string(s) \in Seq(Int) /\ Len(append_string(s)) = 2 + Len(s)
         /\ 256 * append_string(s)[1] + append_string(s)[2] = Len(s)
         /\ \A i \in 1 .. Len(s) : append_string(s)[2 + i] = s[i]
<1> DEFINE h == Bytes2(Len(s))
           a == h \o s
           n == Len(s)
<1>1. n \in Nat
  OBVIOUS
<1>2. h \in Seq(Int) /\ Len(h) = 2 /\ 256 * h[1] + h[2] = n
  BY <1>1, TwoBytes, Zenon
<1>3. append_string(s) = a
  BY Zenon DEF append_string
<1> HIDE DEF h
<1>4. h \in Seq(Int)
  BY <1>2
<1>5. a \in Seq(Int) /\ Len(a) = Len(h) + n
      /\ (\A i \in 1 .. Len(h) : a[i] = h[i]) /\ \A i \in 1 .. n : a[Len(h) + i] = s[i]
  BY <1>4, ConcatAt, ConcatProperties
<1> HIDE DEF a, n
<1>6. a[1] = h[1] /\ a[2] = h[2]
  BY <1>2, <1>5
<1>7. a \in Seq(Int) /\ Len(a) = 2 + n /\ \A i \in 1 .. n : a[2 + i] = s[i]
  BY <1>2, <1>5, Zenon
<1> QED BY <1>2, <1>3, <1>6, <1>7, Zenon DEF n

LEMMA NumberIs ==
  ASSUME NEW id \in Nat
  PROVE  /\ Number(id) \in Seq(Int) /\ Len(Number(id)) = IF id = None THEN 0 ELSE 2
         /\ id # None => 256 * Number(id)[1] + Number(id)[2] = id
<1>1. CASE id = None
  BY <1>1 DEF Number
<1>2. CASE id # None
  BY <1>2, TwoBytes, Zenon DEF Number
<1> QED BY <1>1, <1>2

\* What a PUBLISH holds: topic, identifier and text at their places.
Holds(c, topic, id, text, m) ==
  /\ c \in Seq(Int) /\ Len(c) = 2 + Len(topic) + m + Len(text)
  /\ m = IF id = None THEN 0 ELSE 2
  /\ 256 * c[1] + c[2] = Len(topic)
  /\ \A i \in 1 .. Len(topic) : c[2 + i] = topic[i]
  /\ id # None => 256 * c[2 + Len(topic) + 1] + c[2 + Len(topic) + 2] = id
  /\ \A i \in 1 .. Len(text) : c[2 + Len(topic) + m + i] = text[i]

LEMMA PublishHolds ==
  ASSUME NEW topic \in Seq(Int), NEW id \in Nat, NEW text \in Seq(Int)
  PROVE  Holds(append_string(topic) \o Number(id) \o text, topic, id, text, Len(Number(id)))
<1> DEFINE s == append_string(topic)
           t == Number(id)
           c == (s \o t) \o text
           n == Len(topic)
           m == Len(t)
<1>1. /\ s \in Seq(Int) /\ Len(s) = 2 + n /\ 256 * s[1] + s[2] = n
      /\ \A i \in 1 .. n : s[2 + i] = topic[i]
  BY StringIs, Zenon
<1>2. t \in Seq(Int) /\ m = (IF id = None THEN 0 ELSE 2) /\ (id # None => 256 * t[1] + t[2] = id)
  BY NumberIs, Zenon
<1>3. n \in Nat
  OBVIOUS
<1> HIDE DEF s, t
<1>4. s \in Seq(Int) /\ t \in Seq(Int)
  BY <1>1, <1>2
<1>5. /\ c \in Seq(Int) /\ Len(c) = Len(s) + m + Len(text)
      /\ \A i \in 1 .. Len(s) : c[i] = s[i]
      /\ \A i \in 1 .. m : c[Len(s) + i] = t[i]
      /\ \A i \in 1 .. Len(text) : c[Len(s) + m + i] = text[i]
  BY <1>4, ThreeAt, ZenonT(30)
<1> HIDE DEF c, n, m
<1>6. c[1] = s[1] /\ c[2] = s[2]
  BY <1>1, <1>3, <1>5
<1>7. ASSUME NEW i \in 1 .. n PROVE c[2 + i] = topic[i]
  <2>1. 2 + i \in 1 .. 2 + n
    BY <1>3
  <2> QED BY <1>1, <1>5, <2>1, Zenon
<1>8. \A i \in 1 .. m : c[2 + n + i] = t[i]
  BY <1>1, <1>5, ZenonT(30)
<1>12. ASSUME id # None PROVE c[2 + n + 1] = t[1] /\ c[2 + n + 2] = t[2]
  <2>1. 1 \in 1 .. m /\ 2 \in 1 .. m
    BY <1>2, <1>12
  <2> QED BY <1>8, <2>1, Zenon
<1>13. id # None => 256 * c[2 + n + 1] + c[2 + n + 2] = id
  BY <1>2, <1>12, Zenon
<1>9. \A i \in 1 .. Len(text) : c[2 + n + m + i] = text[i]
  BY <1>1, <1>5, ZenonT(30)
<1>10. c \in Seq(Int) /\ Len(c) = 2 + n + m + Len(text)
  BY <1>1, <1>5, Zenon
<1>11. Holds(c, topic, id, text, m)
  BY <1>1, <1>2, <1>6, <1>7, <1>13, <1>9, <1>10, Zenon DEF Holds, n
<1> QED BY <1>11, Zenon DEF c, s, t, m

\* A PUBLISH of the broker is read as it was written.
LEMMA ReadsPublish ==
  ASSUME NEW b, NEW c, NEW t \in Seq(Int), NEW d \in 1 .. 2, NEW qos \in 0 .. 2,
         NEW topic \in Seq(Int), NEW id \in Nat, NEW text \in Seq(Int), NEW m,
         topic # <<>>, id = None <=> qos = 0,
         Framed(b, 16 * Type.PUBLISH + 2 * qos, c, t, d), Holds(c, topic, id, text, m)
  PROVE  /\ mqtt_get_publish_topic(b) = topic
         /\ mqtt_get_publish_data(b) = text
         /\ qos > 0 /\ Len(b) < BufSize => mqtt_get_id(b) = id
<1> DEFINE n == Len(topic)
           k == Len(text)
           i == d + 1
           w == Len(t)
           l == Len(c)
<1>1. /\ b \in Seq(Int) /\ Len(b) = i + l + w
      /\ Body(b) = i /\ mqtt_get_total_length(b) = i + l
      /\ b[1] = 16 * Type.PUBLISH + 2 * qos
      /\ \A j \in 1 .. l : b[i + j] = c[j]
  BY Zenon DEF Framed
<1>2. /\ l = 2 + n + m + k /\ m = (IF qos = 0 THEN 0 ELSE 2)
      /\ 256 * c[1] + c[2] = n
      /\ \A j \in 1 .. n : c[2 + j] = topic[j]
      /\ qos # 0 => 256 * c[2 + n + 1] + c[2 + n + 2] = id
      /\ \A j \in 1 .. k : c[2 + n + m + j] = text[j]
  BY Zenon DEF Holds
<1>3. n \in Nat /\ n > 0 /\ k \in Nat /\ i \in Nat /\ w \in Nat /\ m \in Nat
  BY <1>2
<1>4. mqtt_get_type(b) = Type.PUBLISH /\ mqtt_get_qos(b) = qos
  <2> DEFINE u == 0
  <2>1. b[1] = 16 * 3 + 2 * qos + u /\ Type.PUBLISH = 3
    BY <1>1 DEF Type
  <2>2. u \in 0 .. 1 /\ 3 \in Nat /\ qos \in 0 .. 3
    OBVIOUS
  <2> HIDE DEF u
  <2> QED BY <2>1, <2>2, FirstByte, Zenon
<1> HIDE DEF n, k, i, w, l
<1>5. \A j \in 1 .. n : b[i + 2 + j] = topic[j]
  <2> SUFFICES ASSUME NEW j \in 1 .. n PROVE b[i + 2 + j] = topic[j]
    OBVIOUS
  <2>1. 2 + j \in 1 .. l /\ i + (2 + j) = i + 2 + j
    BY <1>2, <1>3
  <2>2. b[i + (2 + j)] = c[2 + j]
    BY <1>1, <2>1, Zenon
  <2>3. c[2 + j] = topic[j]
    BY <1>2, Zenon
  <2> QED BY <2>1, <2>2, <2>3, Zenon
<1>6. \A j \in 1 .. k : b[i + 2 + n + m + j] = text[j]
  <2> SUFFICES ASSUME NEW j \in 1 .. k PROVE b[i + 2 + n + m + j] = text[j]
    OBVIOUS
  <2>1. 2 + n + m + j \in 1 .. l /\ i + (2 + n + m + j) = i + 2 + n + m + j
    BY <1>2, <1>3
  <2>2. b[i + (2 + n + m + j)] = c[2 + n + m + j]
    BY <1>1, <2>1, Zenon
  <2>3. c[2 + n + m + j] = text[j]
    BY <1>2, ZenonT(30)
  <2> QED BY <2>1, <2>2, <2>3, Zenon
<1>7. Number2(b, i) = n
  <2>1. 1 \in 1 .. l /\ 2 \in 1 .. l
    BY <1>2, <1>3
  <2>2. b[i + 1] = c[1] /\ b[i + 2] = c[2]
    BY <1>1, <2>1, Zenon
  <2> QED BY <1>2, <2>2, Zenon DEF Number2
<1>8. ASSUME qos # 0 PROVE Number2(b, i + 2 + n) = id
  <2>0. m = 2
    BY <1>2, <1>8
  <2>1. 2 + n + 1 \in 1 .. l /\ 2 + n + 2 \in 1 .. l
        /\ i + (2 + n + 1) = i + 2 + n + 1 /\ i + (2 + n + 2) = i + 2 + n + 2
    BY <1>2, <1>3, <2>0
  <2>2. b[i + (2 + n + 1)] = c[2 + n + 1] /\ b[i + (2 + n + 2)] = c[2 + n + 2]
    BY <1>1, <2>1, Zenon
  <2>3. b[i + 2 + n + 1] = c[2 + n + 1] /\ b[i + 2 + n + 2] = c[2 + n + 2]
    BY <2>1, <2>2, Zenon
  <2>4. 256 * c[2 + n + 1] + c[2 + n + 2] = id
    BY <1>2, <1>8, Zenon
  <2>5. Number2(b, i + 2 + n) = 256 * b[i + 2 + n + 1] + b[i + 2 + n + 2]
    BY Zenon DEF Number2
  <2> QED BY <2>3, <2>4, <2>5, Zenon
<1>9. Len(b) = i + 2 + n + m + k + w /\ mqtt_get_total_length(b) = i + 2 + n + m + k
  BY <1>1, <1>2, <1>3
<1>10. mqtt_get_publish_topic(b) = topic
  <2>1. mqtt_get_publish_topic(b) =
          IF i + 2 >= Len(b) \/ i + 2 + n > Len(b) THEN NULL ELSE SubSeq(b, i + 3, i + 2 + n)
    BY <1>1, <1>7, Zenon DEF mqtt_get_publish_topic
  <2>2. mqtt_get_publish_topic(b) = SubSeq(b, i + 3, i + 2 + n)
    <3>1. ~(i + 2 >= Len(b) \/ i + 2 + n > Len(b))
      BY <1>3, <1>9
    <3> QED BY <2>1, <3>1, Zenon
  <2>3. SubSeq(b, i + 3, i + 2 + n) = topic
    BY <1>1, <1>3, <1>5, <1>9, CutsOut, SMTT(20) DEF n
  <2> QED BY <2>2, <2>3, Zenon
<1>11. mqtt_get_publish_data(b) = text
  <2> DEFINE start == i + 2 + n + m
  <2>1. mqtt_get_publish_data(b) =
          IF \/ i + 2 >= Len(b) \/ i + 2 + n >= Len(b)
             \/ qos > 0 /\ i + 2 + n + 2 >= Len(b)
             \/ start + k < start
          THEN <<>> ELSE SubSeq(b, start + 1, IF start + k <= Len(b) THEN start + k ELSE Len(b))
    <3>1. i + 2 + n + (IF qos > 0 THEN 2 ELSE 0) = start
      BY <1>2, <1>3
    <3> QED BY <1>1, <1>4, <1>7, <1>9, <3>1, Zenon DEF mqtt_get_publish_data
  <2>2. CASE k + w = 0
    <3>0. k = 0 /\ w = 0
      BY <1>3, <2>2
    <3>1. text = <<>>
      BY <3>0 DEF k
    <3>2. Len(b) = i + 2 + n + m
      BY <1>3, <1>9, <3>0
    <3>4. m = 0 \/ (qos > 0 /\ m = 2)
      BY <1>2
    <3>3. i + 2 + n >= Len(b) \/ (qos > 0 /\ i + 2 + n + 2 >= Len(b))
      BY <1>3, <3>2, <3>4
    <3> HIDE DEF start
    <3> QED BY <2>1, <3>1, <3>3, Zenon
  <2>3. CASE k + w # 0
    <3>4. m = 0 \/ m = 2
      BY <1>2
    <3>5. k + w > 0 /\ Len(b) = i + 2 + n + m + k + w
      BY <1>3, <1>9, <2>3
    <3>6. ~(i + 2 >= Len(b)) /\ ~(i + 2 + n >= Len(b)) /\ ~(start + k < start) /\ start + k <= Len(b)
      BY <1>3, <3>5
    <3>7. ASSUME qos > 0 PROVE ~(i + 2 + n + 2 >= Len(b))
      <4>1. m = 2
        BY <1>2, <3>7
      <4> QED BY <1>3, <3>5, <4>1
    <3>1. /\ ~(i + 2 >= Len(b)) /\ ~(i + 2 + n >= Len(b)) /\ ~(qos > 0 /\ i + 2 + n + 2 >= Len(b))
          /\ ~(start + k < start) /\ start + k <= Len(b)
      BY <3>6, <3>7
    <3>2. mqtt_get_publish_data(b) = SubSeq(b, start + 1, start + k)
      <4> HIDE DEF start
      <4> QED BY <2>1, <3>1, Zenon
    <3>3. SubSeq(b, start + 1, start + k) = text
      <4>2. start \in Nat
        BY <1>3
      <4>1. start + k <= Len(b) /\ \A j \in 1 .. k : b[start + j] = text[j]
        BY <1>6, <3>1, Zenon
      <4> HIDE DEF start
      <4> QED BY <1>1, <4>1, <4>2, CutsOut DEF k
    <3> QED BY <3>2, <3>3, Zenon
  <2> QED BY <2>2, <2>3
<1>12. ASSUME qos > 0, Len(b) < BufSize PROVE mqtt_get_id(b) = id
  <2>1. i + 2 < BufSize /\ i + 2 + n + 2 < BufSize /\ qos # 0
    BY <1>2, <1>3, <1>9, <1>12, MsgAssumption
  <2> QED BY <1>1, <1>4, <1>7, <1>8, <1>12, <2>1, Zenon DEF mqtt_get_id
<1> QED BY <1>10, <1>11, <1>12

-----------------------------------------------------------------------------
\* Packets of the broker in a segment.

\* The parts of a packet of a broker.
LEMMA BrokerIs ==
  ASSUME NEW p \in BrokerPackets
  PROVE  /\ p.type \in 1 .. 15 /\ p.qos \in 0 .. 2 /\ p.id \in Nat /\ p.topic \in Seq(Int) /\ p.text \in Seq(Int)
         /\ p.type = Type.PUBLISH => p.topic # <<>> /\ (p.id = None <=> p.qos = 0)
         /\ p.type \in {Type.PUBREC, Type.PUBREL} => p.id # None
BY DEF BrokerPackets

\* A packet of a broker is bytes, and more than none.
LEMMA WireTyped ==
  ASSUME NEW p \in BrokerPackets
  PROVE  /\ Content(p) \in Seq(Int) /\ Wire(p) \in Seq(Int)
         /\ Len(Wire(p)) >= 2 + Len(Content(p))
         /\ 16 * p.type + 2 * p.qos \in Int
<1>1. p.type \in 1 .. 15 /\ p.qos \in 0 .. 2 /\ p.id \in Nat /\ p.topic \in Seq(Int) /\ p.text \in Seq(Int)
  BY BrokerIs, Zenon
<1>2. Content(p) \in Seq(Int)
  <2>1. append_string(p.topic) \in Seq(Int) /\ Number(p.id) \in Seq(Int)
    BY <1>1, StringIs, NumberIs
  <2>2. append_string(p.topic) \o Number(p.id) \in Seq(Int)
    BY <2>1, ConcatProperties
  <2>3. (append_string(p.topic) \o Number(p.id)) \o p.text \in Seq(Int)
    BY <1>1, <2>2, ConcatProperties
  <2> QED BY <2>1, <2>3, Zenon DEF Content
<1> DEFINE x == 16 * p.type + 2 * p.qos
           n == Len(Content(p))
           h == <<x>> \o Remaining(n)
<1>3. x \in Int /\ n \in Nat
  <2>1. n \in Nat
    BY <1>2, LenProperties, Zenon
  <2>2. ASSUME NEW u \in 1 .. 15, NEW v \in 0 .. 2 PROVE 16 * u + 2 * v \in Int
    OBVIOUS
  <2> QED BY <1>1, <2>1, <2>2, Zenon
<1>4. h \in Seq(Int) /\ Len(h) >= 2
  <2> HIDE DEF n
  <2>1. Remaining(n) \in Seq(Int) /\ Len(Remaining(n)) >= 1
    <3>1. Digit \in Nat /\ Digit > 2
      BY MsgAssumption
    <3>2. n % Digit \in Int /\ n \div Digit \in Int
      BY <1>3, <3>1
    <3>3. CASE n < Digit
      BY <1>3, <3>3 DEF Remaining
    <3>4. CASE ~(n < Digit)
      <4> DEFINE r == n % Digit
                 q == n \div Digit
      <4>1. Remaining(n) = <<Digit + r, q>> /\ r \in Int /\ q \in Int
        BY <3>2, <3>4, Zenon DEF Remaining
      <4> HIDE DEF r, q
      <4> QED BY <3>1, <4>1
    <3> QED BY <3>3, <3>4
  <2> DEFINE r == Remaining(n)
             u == <<x>>
  <2>2. u \in Seq(Int) /\ Len(u) = 1
    BY <1>3
  <2> HIDE DEF r, u
  <2>3. r \in Seq(Int) /\ Len(r) >= 1
    BY <2>1 DEF r
  <2>4. u \in Seq(Int) /\ r \in Seq(Int)
    BY <2>2, <2>3
  <2>5. u \o r \in Seq(Int) /\ Len(u \o r) = Len(u) + Len(r)
    BY <2>4, ConcatProperties
  <2> QED BY <2>2, <2>3, <2>5 DEF r, u
<1>5. Wire(p) = h \o Content(p)
  BY Zenon DEF Wire
<1> HIDE DEF h
<1>6. h \in Seq(Int)
  BY <1>4
<1>7. h \o Content(p) \in Seq(Int) /\ Len(h \o Content(p)) = Len(h) + n
  BY <1>2, <1>6, ConcatProperties
<1> HIDE DEF n, x
<1>8. Len(h \o Content(p)) >= 2 + n
  BY <1>3, <1>4, <1>7
<1> QED BY <1>2, <1>3, <1>5, <1>7, <1>8, Zenon DEF n, x

\* Packets behind one another: the first, and the others behind it.
LEMMA WireHead ==
  ASSUME NEW s \in Seq(BrokerPackets), s # <<>>
  PROVE  /\ Head(s) \in BrokerPackets /\ Tail(s) \in Seq(BrokerPackets)
         /\ OnWire(s) \in Seq(Int) /\ OnWire(Tail(s)) \in Seq(Int)
         /\ OnWire(s) = Wire(Head(s)) \o OnWire(Tail(s))
<1> DEFINE wires(u) == [k \in 1 .. Len(u) |-> Wire(u[k])]
           w == wires(s)
           t == Tail(s)
<1>1. /\ Head(s) \in BrokerPackets /\ t \in Seq(BrokerPackets) /\ Len(t) = Len(s) - 1
      /\ Head(s) = s[1] /\ Len(s) \in Nat /\ Len(s) > 0
      /\ \A i \in 1 .. Len(t) : t[i] = s[i + 1]
  <2>1. Len(s) \in Nat /\ Len(s) # 0
    BY EmptySeq
  <2> QED BY <2>1, HeadTailProperties
<1> HIDE DEF t
<1>2. ASSUME NEW u \in Seq(BrokerPackets) PROVE wires(u) \in Seq(Seq(Int)) /\ Len(wires(u)) = Len(u)
  <2>1. \A k \in 1 .. Len(u) : Wire(u[k]) \in Seq(Int)
    <3> SUFFICES ASSUME NEW k \in 1 .. Len(u) PROVE Wire(u[k]) \in Seq(Int)
      OBVIOUS
    <3>1. u[k] \in BrokerPackets
      BY ElementOfSeq
    <3> QED BY <3>1, WireTyped, Zenon
  <2>2. Len(u) \in Nat
    OBVIOUS
  <2> QED BY <2>1, <2>2
<1>3. w \in Seq(Seq(Int)) /\ Len(w) = Len(s) /\ wires(t) \in Seq(Seq(Int)) /\ Len(wires(t)) = Len(t)
  BY <1>1, <1>2, Zenon
<1>4. \A k \in 1 .. Len(s) : w[k] = Wire(s[k])
  BY Zenon
<1>5. \A k \in 1 .. Len(t) : wires(t)[k] = Wire(t[k])
  BY Zenon
<1>6. OnWire(s) = FlattenSeq(w) /\ OnWire(t) = FlattenSeq(wires(t))
  BY Zenon DEF OnWire
<1> DEFINE x == wires(t)
<1> HIDE DEF wires, w, x
<1>7. w # <<>> /\ Head(w) = w[1] /\ Tail(w) \in Seq(Seq(Int)) /\ Len(Tail(w)) = Len(w) - 1
      /\ \A i \in 1 .. Len(Tail(w)) : Tail(w)[i] = w[i + 1]
  <2>1. w \in Seq(Seq(Int)) /\ w # <<>>
    BY <1>1, <1>3
  <2> QED BY <2>1, HeadTailProperties
<1>8. Head(w) = Wire(Head(s))
  <2>1. 1 \in 1 .. Len(s)
    BY <1>1
  <2> QED BY <1>1, <1>4, <1>7, <2>1, Zenon
<1>9. Tail(w) = x
  <2>1. x \in Seq(Seq(Int)) /\ Tail(w) \in Seq(Seq(Int)) /\ Len(x) = Len(Tail(w))
    BY <1>1, <1>3, <1>7 DEF x
  <2>2. ASSUME NEW i \in 1 .. Len(Tail(w)) PROVE Tail(w)[i] = x[i]
    <3>1. i \in 1 .. Len(t) /\ i + 1 \in 1 .. Len(s)
      BY <1>1, <1>3, <1>7
    <3>2. Tail(w)[i] = w[i + 1]
      BY <1>7, Zenon
    <3>3. w[i + 1] = Wire(s[i + 1])
      BY <1>4, <3>1, Zenon
    <3>4. x[i] = Wire(t[i]) /\ t[i] = s[i + 1]
      BY <1>1, <1>5, <3>1, Zenon DEF x
    <3> QED BY <3>2, <3>3, <3>4, Zenon
  <2> QED BY <2>1, <2>2, SeqEqual
<1>10. FlattenSeq(w) = Head(w) \o FlattenSeq(Tail(w))
  <2>1. w \in Seq(Seq(Int)) /\ w # <<>>
    BY <1>3, <1>7
  <2> QED BY <2>1, FlattenHead, Zenon
<1>11. FlattenSeq(w) \in Seq(Int) /\ FlattenSeq(x) \in Seq(Int)
  <2>1. w \in Seq(Seq(Int)) /\ x \in Seq(Seq(Int))
    BY <1>3 DEF x
  <2> QED BY <2>1, FlattenTyped, Zenon
<1> QED BY <1>1, <1>6, <1>8, <1>9, <1>10, <1>11, Zenon DEF x, t

\* A packet that is in the buffer with all behind it is framed.
LEMMA FrontRead ==
  ASSUME NEW p \in BrokerPackets, NEW t \in Seq(Int), Len(Wire(p) \o t) < BufSize
  PROVE  \E d \in 1 .. 2 : Framed(Wire(p) \o t, 16 * p.type + 2 * p.qos, Content(p), t, d)
<1> DEFINE x == 16 * p.type + 2 * p.qos
           n == Len(Content(p))
           w == Wire(p)
<1>1. Content(p) \in Seq(Int) /\ w \in Seq(Int) /\ Len(w) >= 2 + n /\ x \in Int
  BY WireTyped, Zenon
<1>2. n \in Nat
  BY <1>1
<1> HIDE DEF x, n, w
<1>3. Len(w \o t) = Len(w) + Len(t) /\ Len(w) \in Nat /\ Len(t) \in Nat
  BY <1>1, ConcatProperties
<1>4. n < BufSize
  <2>1. BufSize \in Nat
    BY MsgAssumption
  <2>2. Len(w \o t) < BufSize
    BY DEF w
  <2> QED BY <1>1, <1>2, <1>3, <2>1, <2>2
<1>5. Short(n)
  <2> DEFINE y == Digit * Digit
  <2>1. BufSize \in Nat /\ Digit \in Nat
    BY MsgAssumption
  <2>2. BufSize <= y
    BY IrGatewayAssumption
  <2>3. y \in Nat
    BY <2>1
  <2> HIDE DEF y
  <2>4. n < y
    BY <1>2, <1>4, <2>1, <2>2, <2>3
  <2> QED BY <2>4, Zenon DEF Short, y
<1>6. w \o t = InFront(x, Content(p), t)
  BY Zenon DEF InFront, w, x, Wire
<1>7. \E d \in 1 .. 2 : Framed(InFront(x, Content(p), t), x, Content(p), t, d)
  BY <1>1, <1>5, IsFramed, Zenon DEF n
<1> QED BY <1>6, <1>7, Zenon DEF w, x

\* What mqtt_tcpclient_recv takes from the first packet of a segment.
LEMMA FrontIs ==
  ASSUME NEW p \in BrokerPackets, NEW t \in Seq(Int), NEW b, b = Wire(p) \o t, Len(b) < BufSize
  PROVE  /\ mqtt_get_type(b) = p.type
         /\ mqtt_get_qos(b) = p.qos
         /\ mqtt_get_total_length(b) \in Nat
         /\ mqtt_get_total_length(b) + Len(t) = Len(b)
         /\ SubSeq(b, mqtt_get_total_length(b) + 1, Len(b)) = t
<1> DEFINE x == 16 * p.type + 2 * p.qos
           n == Len(Content(p))
           k == Len(t)
           total == mqtt_get_total_length(b)
<1>1. PICK d \in 1 .. 2 : Framed(b, x, Content(p), t, d)
  BY FrontRead, Zenon
<1>2. /\ b \in Seq(Int) /\ Len(b) = d + 1 + n + k /\ b[1] = x
      /\ total = d + 1 + n
      /\ \A i \in 1 .. k : b[d + 1 + n + i] = t[i]
  BY <1>1, Zenon DEF Framed
<1>3. n \in Nat /\ k \in Nat
  BY WireTyped
<1>4. p.type \in Nat /\ p.qos \in 0 .. 3
  <2>1. 1 .. 15 \subseteq Nat /\ 0 .. 2 \subseteq 0 .. 3
    OBVIOUS
  <2> QED BY <2>1, BrokerIs, Zenon
<1>5. mqtt_get_type(b) = p.type /\ mqtt_get_qos(b) = p.qos
  <2> DEFINE u == 0
  <2>1. b[1] = 16 * p.type + 2 * p.qos + u /\ u \in 0 .. 1
    BY <1>2, <1>4
  <2> HIDE DEF u, x
  <2> QED BY <1>4, <2>1, FirstByte, Zenon
<1> HIDE DEF x, n, k, total
<1>6. total \in Nat /\ total + k = Len(b)
  BY <1>2, <1>3
<1>7. SubSeq(b, total + 1, Len(b)) = t
  <2>1. total + Len(t) <= Len(b) /\ Len(b) = total + Len(t)
    BY <1>3, <1>6 DEF k
  <2>2. \A j \in 1 .. Len(t) : b[total + j] = t[j]
    BY <1>2, Zenon DEF k
  <2>3. b \in Seq(Int) /\ total \in Nat
    BY <1>2, <1>6
  <2>4. SubSeq(b, total + 1, total + Len(t)) = t
    BY <2>1, <2>2, <2>3, CutsOut, Zenon
  <2> QED BY <2>1, <2>4, Zenon
<1> QED BY <1>5, <1>6, <1>7 DEF total, k

\* and, of a publication, topic, text and identifier.
LEMMA FrontSays ==
  ASSUME NEW p \in BrokerPackets, NEW t \in Seq(Int), NEW b, b = Wire(p) \o t, Len(b) < BufSize,
         p.type = Type.PUBLISH
  PROVE  /\ mqtt_get_publish_topic(b) = p.topic
         /\ mqtt_get_publish_data(b) = p.text
         /\ p.qos > 0 => mqtt_get_id(b) = p.id
<1> DEFINE c == Content(p)
           m == Len(Number(p.id))
<1>1. /\ p.qos \in 0 .. 2 /\ p.id \in Nat /\ p.topic \in Seq(Int) /\ p.text \in Seq(Int)
      /\ p.topic # <<>> /\ (p.id = None <=> p.qos = 0)
  BY BrokerIs, Zenon
<1>2. PICK d \in 1 .. 2 : Framed(b, 16 * p.type + 2 * p.qos, c, t, d)
  BY FrontRead, Zenon
<1> DEFINE topic == p.topic
           text == p.text
           id == p.id
           qos == p.qos
<1>3. Framed(b, 16 * Type.PUBLISH + 2 * qos, c, t, d)
  BY <1>2, Zenon
<1>4. Holds(c, topic, id, text, m)
  BY <1>1, PublishHolds, Zenon DEF Content
<1>5. qos \in 0 .. 2 /\ id \in Nat /\ topic \in Seq(Int) /\ text \in Seq(Int)
  BY <1>1, Zenon
<1>6. topic # <<>>
  BY <1>1, Zenon
<1>7. id = None <=> qos = 0
  BY <1>1, Zenon
<1> HIDE DEF c, m, topic, text, id, qos
<1>8. /\ mqtt_get_publish_topic(b) = topic
      /\ mqtt_get_publish_data(b) = text
      /\ qos > 0 /\ Len(b) < BufSize => mqtt_get_id(b) = id
  BY <1>3, <1>4, <1>5, <1>6, <1>7, ReadsPublish, Zenon
<1> QED BY <1>8, Zenon DEF topic, text, id, qos

\* The inductive invariant: what is left of a segment is whole packets of the broker.
ReadInv == todo \in Seq(BrokerPackets) /\ pdata = OnWire(todo)

LEMMA NothingOnWire == <<>> \in Seq(BrokerPackets) /\ OnWire(<<>>) = <<>>
<1>1. [k \in 1 .. Len(<<>>) |-> Wire(<<>>[k])] = <<>>
  OBVIOUS
<1> QED BY <1>1, FlattenEmpty, EmptySeq DEF OnWire

\* A round takes the first packet off the segment, and not a byte more or less.
LEMMA RoundReads ==
  ASSUME ReadInv, pdata # <<>>, Len(pdata) < BufSize, ReadPublish
  PROVE  ReadInv'
<1> DEFINE p == Head(todo)
           t == OnWire(Tail(todo))
           total == mqtt_get_total_length(pdata)
<1>1. todo \in Seq(BrokerPackets) /\ pdata = OnWire(todo)
  BY DEF ReadInv
<1>2. todo # <<>>
  BY <1>1, NothingOnWire, Zenon
<1>3. p \in BrokerPackets /\ Tail(todo) \in Seq(BrokerPackets) /\ t \in Seq(Int) /\ pdata = Wire(p) \o t
  BY <1>1, <1>2, WireHead, Zenon
<1>4. SubSeq(pdata, total + 1, Len(pdata)) = t
  BY <1>3, FrontIs, Zenon
<1>5. IF total < Len(pdata) THEN pdata' = SubSeq(pdata, total + 1, Len(pdata)) /\ todo' = Tail(todo)
      ELSE Done
  BY Zenon DEF ReadPublish
<1>6. CASE total < Len(pdata)
  BY <1>3, <1>4, <1>5, <1>6, Zenon DEF ReadInv
<1>7. CASE ~(total < Len(pdata))
  BY <1>5, <1>7, NothingOnWire, Zenon DEF ReadInv, Done
<1> QED BY <1>6, <1>7, Zenon

LEMMA DoneReads == ASSUME Done PROVE ReadInv'
BY NothingOnWire, Zenon DEF ReadInv, Done

LEMMA ReadInvHolds == Spec => []ReadInv
<1>1. Init => ReadInv
  BY NothingOnWire, Zenon DEF Init, ReadInv
<1>2. ASSUME ReadInv, [Next]_vars PROVE ReadInv'
  <2>1. ASSUME pdata' = pdata, todo' = todo PROVE ReadInv'
    BY <1>2, <2>1, Zenon DEF ReadInv
  <2>2. CASE UNCHANGED vars
    BY <2>1, <2>2, Zenon DEF vars, mqttVars
  <2>3. CASE mqtt_tcpclient_connect_cb
    BY <2>1, <2>3, Zenon DEF mqtt_tcpclient_connect_cb
  <2>4. CASE mqtt_tcpclient_discon_cb
    BY <2>1, <2>4, Zenon DEF mqtt_tcpclient_discon_cb
  <2>5. CASE mqtt_tcpclient_recv
    <3>1. PICK s \in Segments : pdata' = OnWire(s) /\ todo' = s
      BY <2>5, Zenon DEF mqtt_tcpclient_recv
    <3>2. s \in Seq(BrokerPackets)
      <4>1. Segments \subseteq Seq(BrokerPackets)
        BY IrGatewayAssumption
      <4> QED BY <4>1, Zenon
    <3> QED BY <3>1, <3>2, Zenon DEF ReadInv
  <2>6. CASE ReadData
    <3>1. pdata # <<>> /\ Len(pdata) < BufSize /\ (ReadPublish \/ ReadOther)
      BY <2>6, Zenon DEF ReadData
    <3>2. CASE ReadPublish
      BY <1>2, <3>1, <3>2, RoundReads, Zenon
    <3>3. CASE ReadOther
      BY <3>3, DoneReads, Zenon DEF ReadOther
    <3> QED BY <3>1, <3>2, <3>3, Zenon
  <2>7. CASE ReadAnswer
    BY <2>7, DoneReads, Zenon DEF ReadAnswer
  <2>8. CASE TooLong
    BY <2>8, DoneReads, Zenon DEF TooLong
  <2>9. ASSUME NEW cmd, NEW id, NEW d, uartDataCallback(cmd, id, d) PROVE ReadInv'
    BY <2>1, <2>9, Zenon DEF uartDataCallback
  <2>10. CASE user_ir_cmd_init
    BY <2>1, <2>10, Zenon DEF user_ir_cmd_init, mqttVars
  <2>11. CASE Timer \/ Line
    BY <2>1, <2>11, Zenon DEF Timer, Line, mqttVars
  <2> QED BY <1>2, <2>2, <2>3, <2>4, <2>5, <2>6, <2>7, <2>8, <2>9, <2>10, <2>11, Zenon DEF Next, ReadPacket
<1> QED BY <1>1, <1>2, PTL DEF Spec

\* However many packets of whatever length a segment is made of, a publication in the
\* buffer is read with its own topic, text and identifier, from where the last one
\* ended (mqtt.c:343-356, mqtt_msg.c:135-289).
THEOREM GatewayReadsPackets == Spec => []ReadsPackets
<1>1. ASSUME ReadInv PROVE ReadsPackets
  <2> SUFFICES ASSUME pdata # <<>>
               PROVE  /\ pdata = OnWire(todo)
                      /\ Head(todo).type = Type.PUBLISH /\ Len(pdata) < BufSize =>
                           /\ mqtt_get_publish_topic(pdata) = Head(todo).topic
                           /\ mqtt_get_publish_data(pdata) = Head(todo).text
                           /\ Head(todo).qos > 0 => mqtt_get_id(pdata) = Head(todo).id
    BY Zenon DEF ReadsPackets
  <2>1. todo \in Seq(BrokerPackets) /\ pdata = OnWire(todo)
    BY <1>1, Zenon DEF ReadInv
  <2>2. todo # <<>>
    BY <2>1, NothingOnWire, Zenon
  <2> DEFINE p == Head(todo)
             t == OnWire(Tail(todo))
  <2>3. p \in BrokerPackets /\ t \in Seq(Int) /\ pdata = Wire(p) \o t
    BY <2>1, <2>2, WireHead, Zenon
  <2> HIDE DEF p, t
  <2>4. ASSUME p.type = Type.PUBLISH, Len(pdata) < BufSize
        PROVE  /\ mqtt_get_publish_topic(pdata) = p.topic
               /\ mqtt_get_publish_data(pdata) = p.text
               /\ p.qos > 0 => mqtt_get_id(pdata) = p.id
    BY <2>3, <2>4, FrontSays, Zenon
  <2> QED BY <2>1, <2>4, Zenon DEF p
<1> QED BY <1>1, ReadInvHolds, PTL

-----------------------------------------------------------------------------
\* Base64.

-----------------------------------------------------------------------------
\* The alphabet of 64 characters.

LEMMA AlphabetIs ==
  ASSUME NEW n \in 0 .. 63
  PROVE  b64_alphabet[n] \in Nat /\ b64_alphabet[n] # Pad /\ b64_lookup(b64_alphabet[n]) = n
<1> DEFINE at(k) == IF k < 26 THEN 65 + k ELSE IF k < 52 THEN 71 + k ELSE IF k < 62 THEN k - 4
                    ELSE IF k = 62 THEN 43 ELSE 47
<1>1. \A k \in 0 .. 63 : b64_alphabet[k] = at(k)
  BY Zenon DEF b64_alphabet
<1>2. at(n) \in Nat /\ at(n) # 61
  OBVIOUS
<1>3. \A k \in 0 .. 63 : at(k) = at(n) => k = n
  OBVIOUS
<1> HIDE DEF at
<1>4. \A k \in 0 .. 63 : b64_alphabet[k] = b64_alphabet[n] <=> k = n
  BY <1>1, <1>3, Zenon
<1>5. (CHOOSE k \in 0 .. 63 : b64_alphabet[k] = b64_alphabet[n]) = n
  BY <1>4, Zenon
<1>6. b64_lookup(b64_alphabet[n]) = n
  BY <1>5, Zenon DEF b64_lookup
<1>7. b64_alphabet[n] \in Nat /\ b64_alphabet[n] # Pad
  BY <1>1, <1>2, Zenon DEF Pad
<1> QED BY <1>6, <1>7

LEMMA LookupTyped == ASSUME NEW x PROVE b64_lookup(x) \in Byte
<1>1. 0 .. 63 \subseteq Byte /\ 255 \in Byte
  BY DEF Byte
<1>2. CASE \E n \in 0 .. 63 : b64_alphabet[n] = x
  <2> DEFINE Is(n) == n \in 0 .. 63 /\ b64_alphabet[n] = x
             m == CHOOSE n : Is(n)
  <2>1. Is(m)
    <3>1. \E n : Is(n)
      BY <1>2, Zenon
    <3> HIDE DEF Is
    <3> QED BY <3>1, Zenon
  <2>2. b64_lookup(x) = m
    BY <1>2, Zenon DEF b64_lookup
  <2> HIDE DEF m
  <2> QED BY <1>1, <2>1, <2>2, Zenon
<1>3. CASE ~\E n \in 0 .. 63 : b64_alphabet[n] = x
  BY <1>1, <1>3, Zenon DEF b64_lookup
<1> QED BY <1>2, <1>3, Zenon

\* Three bytes as four numbers of six bits,
LEMMA FourAre ==
  ASSUME NEW a, \A i \in 1 .. 3 : a[i] \in Byte
  PROVE  \A i \in 1 .. 4 : a3_to_a4(a)[i] \in 0 .. 63
<1> DEFINE x == a[1]
           y == a[2]
           z == a[3]
           p == x \div 4
           q == 16 * (x % 4) + y \div 16
           r == 4 * (y % 16) + z \div 64
           s == z % 64
<1>1. x \in 0 .. 255 /\ y \in 0 .. 255 /\ z \in 0 .. 255
  BY DEF Byte
<1>2. p \in 0 .. 63 /\ q \in 0 .. 63 /\ r \in 0 .. 63 /\ s \in 0 .. 63
  <2> HIDE DEF x, y, z
  <2> QED BY <1>1
<1>3. a3_to_a4(a) = <<p, q, r, s>>
  BY Zenon DEF a3_to_a4
<1> HIDE DEF p, q, r, s
<1> QED BY <1>2, <1>3

\* and back: each byte needs two of the numbers only.
LEMMA ThreeAre ==
  ASSUME NEW a, \A i \in 1 .. 3 : a[i] \in Byte, NEW f, NEW j \in 0 .. 2,
         f[j + 1] = a3_to_a4(a)[j + 1], f[j + 2] = a3_to_a4(a)[j + 2]
  PROVE  a4_to_a3(f)[j + 1] = a[j + 1]
<1> DEFINE x == a[1]
           y == a[2]
           z == a[3]
<1>1. x \in 0 .. 255 /\ y \in 0 .. 255 /\ z \in 0 .. 255
  BY DEF Byte
<1>2. /\ a3_to_a4(a)[1] = x \div 4
      /\ a3_to_a4(a)[2] = 16 * (x % 4) + y \div 16
      /\ a3_to_a4(a)[3] = 4 * (y % 16) + z \div 64
      /\ a3_to_a4(a)[4] = z % 64
  <2> DEFINE p == x \div 4
             q == 16 * (x % 4) + y \div 16
             r == 4 * (y % 16) + z \div 64
             s == z % 64
  <2>1. a3_to_a4(a) = <<p, q, r, s>>
    BY Zenon DEF a3_to_a4
  <2> HIDE DEF p, q, r, s
  <2>2. a3_to_a4(a)[1] = p /\ a3_to_a4(a)[2] = q /\ a3_to_a4(a)[3] = r /\ a3_to_a4(a)[4] = s
    BY <2>1
  <2> QED BY <2>2, Zenon DEF p, q, r, s
<1>3. /\ a4_to_a3(f)[1] = (4 * f[1] + (f[2] % 64) \div 16) % 256
      /\ a4_to_a3(f)[2] = (16 * (f[2] % 16) + (f[3] % 64) \div 4) % 256
      /\ a4_to_a3(f)[3] = (64 * (f[3] % 4) + f[4]) % 256
  <2> DEFINE p == (4 * f[1] + (f[2] % 64) \div 16) % 256
             q == (16 * (f[2] % 16) + (f[3] % 64) \div 4) % 256
             r == (64 * (f[3] % 4) + f[4]) % 256
  <2>1. a4_to_a3(f) = <<p, q, r>>
    BY Zenon DEF a4_to_a3
  <2> HIDE DEF p, q, r
  <2>2. a4_to_a3(f)[1] = p /\ a4_to_a3(f)[2] = q /\ a4_to_a3(f)[3] = r
    BY <2>1
  <2> QED BY <2>2, Zenon DEF p, q, r
<1> HIDE DEF x, y, z
<1>4. CASE j = 0
  <2>1. f[1] = x \div 4 /\ f[2] = 16 * (x % 4) + y \div 16
    BY <1>2, <1>4
  <2> DEFINE p == x \div 4
             q == x % 4
             r == y \div 16
  <2>2. p \in 0 .. 63 /\ q \in 0 .. 3 /\ r \in 0 .. 15 /\ x = 4 * p + q
    BY <1>1
  <2> HIDE DEF p, q, r
  <2> DEFINE u == f[1]
             v == f[2]
  <2>3. u = p /\ v = 16 * q + r
    BY <2>1, Zenon DEF p, q, r
  <2>5. a4_to_a3(f)[1] = (4 * u + (v % 64) \div 16) % 256
    BY <1>3, Zenon
  <2> HIDE DEF u, v
  <2>6. (4 * u + (v % 64) \div 16) % 256 = x
    BY <1>1, <2>2, <2>3
  <2>4. a4_to_a3(f)[1] = x
    BY <2>5, <2>6, Zenon
  <2> QED BY <1>4, <2>4 DEF x
<1>5. CASE j = 1
  <2>1. f[2] = 16 * (x % 4) + y \div 16 /\ f[3] = 4 * (y % 16) + z \div 64
    BY <1>2, <1>5
  <2> DEFINE p == x % 4
             q == y \div 16
             r == y % 16
             s == z \div 64
  <2>2. p \in 0 .. 3 /\ q \in 0 .. 15 /\ r \in 0 .. 15 /\ s \in 0 .. 3 /\ y = 16 * q + r
    BY <1>1
  <2> HIDE DEF p, q, r, s
  <2> DEFINE u == f[2]
             v == f[3]
  <2>3. u = 16 * p + q /\ v = 4 * r + s
    BY <2>1, Zenon DEF p, q, r, s
  <2>5. a4_to_a3(f)[2] = (16 * (u % 16) + (v % 64) \div 4) % 256
    BY <1>3, Zenon
  <2> HIDE DEF u, v
  <2>6. (16 * (u % 16) + (v % 64) \div 4) % 256 = y
    BY <1>1, <2>2, <2>3
  <2>4. a4_to_a3(f)[2] = y
    BY <2>5, <2>6, Zenon
  <2> QED BY <1>5, <2>4 DEF y
<1>6. CASE j = 2
  <2>1. f[3] = 4 * (y % 16) + z \div 64 /\ f[4] = z % 64
    BY <1>2, <1>6
  <2> DEFINE p == y % 16
             q == z \div 64
             r == z % 64
  <2>2. p \in 0 .. 15 /\ q \in 0 .. 3 /\ r \in 0 .. 63 /\ z = 64 * q + r
    BY <1>1
  <2> HIDE DEF p, q, r
  <2> DEFINE u == f[3]
             v == f[4]
  <2>3. u = 4 * p + q /\ v = r
    BY <2>1, Zenon DEF p, q, r
  <2>5. a4_to_a3(f)[3] = (64 * (u % 4) + v) % 256
    BY <1>3, Zenon
  <2> HIDE DEF u, v
  <2>6. (64 * (u % 4) + v) % 256 = z
    BY <1>1, <2>2, <2>3
  <2>4. a4_to_a3(f)[3] = z
    BY <2>5, <2>6, Zenon
  <2> QED BY <1>6, <2>4 DEF z
<1> QED BY <1>4, <1>5, <1>6

\* How many groups n bytes make.
Groups(n) == (n + 2) \div 3

LEMMA GroupsAre ==
  ASSUME NEW n \in Nat
  PROVE  LET m == Groups(n) IN
         /\ m \in Nat /\ n + m <= 4 * m
         /\ (6 * (4 * m)) \div 8 - (4 * m - (n + m)) = n
         /\ 3 * ((n + m) \div 4) + (IF (n + m) % 4 = 0 THEN 0 ELSE ((n + m) % 4) - 1) = n
<1> DEFINE m == Groups(n)
<1>1. m \in Nat /\ (n = 3 * m \/ n = 3 * m - 1 \/ n = 3 * m - 2)
  BY DEF Groups
<1> HIDE DEF m
<1>2. n + m <= 4 * m
  BY <1>1
<1>3. (6 * (4 * m)) \div 8 = 3 * m
  BY <1>1
<1>4. (6 * (4 * m)) \div 8 - (4 * m - (n + m)) = n
  BY <1>1, <1>3
<1>5. 3 * ((n + m) \div 4) + (IF (n + m) % 4 = 0 THEN 0 ELSE ((n + m) % 4) - 1) = n
  <2> DEFINE q == (n + m) \div 4
             r == (n + m) % 4
  <2>1. \/ n = 3 * m /\ q = m /\ r = 0
        \/ n = 3 * m - 1 /\ q = m - 1 /\ r = 3
        \/ n = 3 * m - 2 /\ q = m - 1 /\ r = 2
    BY <1>1
  <2> HIDE DEF q, r
  <2>2. 3 * q + (IF r = 0 THEN 0 ELSE r - 1) = n
    BY <1>1, <2>1
  <2> QED BY <2>2 DEF q, r
<1> QED BY <1>1, <1>2, <1>4, <1>5, Zenon DEF m

\* Which characters are padding,
LEMMA PadsAre ==
  ASSUME NEW n \in Nat, NEW k \in 1 .. 4 * Groups(n)
  PROVE  LET g == (k - 1) \div 4
             j == (k - 1) % 4
         IN g \in Nat /\ j \in 0 .. 3 /\ (3 * g + j > n <=> k > n + Groups(n))
<1> DEFINE m == Groups(n)
           g == (k - 1) \div 4
           j == (k - 1) % 4
<1>1. m \in Nat /\ (n = 3 * m \/ n = 3 * m - 1 \/ n = 3 * m - 2)
  BY DEF Groups
<1>2. g \in Nat /\ j \in 0 .. 3 /\ k = 4 * g + j + 1
  OBVIOUS
<1>3. k \in 1 .. 4 * m
  OBVIOUS
<1> HIDE DEF m, g, j
<1>4. 3 * g + j > n <=> k > n + m
  BY <1>1, <1>2, <1>3
<1> QED BY <1>2, <1>4, Zenon DEF m, g, j

\* and where the characters of a byte are.
LEMMA PlaceIs ==
  ASSUME NEW n \in Nat, NEW k \in 1 .. n
  PROVE  LET h == (k - 1) \div 3
             r == (k - 1) % 3
         IN h \in Nat /\ r \in 0 .. 2 /\ k = 3 * h + r + 1 /\ 4 * h + r + 2 <= n + Groups(n)
<1> DEFINE m == Groups(n)
           h == (k - 1) \div 3
           r == (k - 1) % 3
<1>1. m \in Nat /\ (n = 3 * m \/ n = 3 * m - 1 \/ n = 3 * m - 2)
  BY DEF Groups
<1>2. h \in Nat /\ r \in 0 .. 2 /\ k = 3 * h + r + 1
  OBVIOUS
<1> HIDE DEF m, h, r
<1>3. 4 * h + r + 2 <= n + m
  BY <1>1, <1>2
<1> QED BY <1>2, <1>3, Zenon DEF m, h, r

LEMMA GroupIs ==
  ASSUME NEW s, NEW g \in Nat, NEW n \in Nat, NEW k \in 1 .. n
  PROVE  /\ Group(s, g, n)[k] = IF n * g + k <= Len(s) THEN s[n * g + k] ELSE 0
BY Zenon DEF Group

LEMMA GroupTyped ==
  ASSUME NEW d \in Seq(Byte), NEW g \in Nat
  PROVE  \A i \in 1 .. 3 : Group(d, g, 3)[i] \in Byte
<1> SUFFICES ASSUME NEW i \in 1 .. 3 PROVE Group(d, g, 3)[i] \in Byte
  OBVIOUS
<1>1. Group(d, g, 3)[i] = IF 3 * g + i <= Len(d) THEN d[3 * g + i] ELSE 0
  BY GroupIs
<1>2. 0 \in Byte
  BY DEF Byte
<1>3. CASE 3 * g + i <= Len(d)
  <2>1. 3 * g + i \in 1 .. Len(d)
    BY <1>3
  <2>2. d[3 * g + i] \in Byte
    BY <2>1, ElementOfSeq
  <2> QED BY <1>1, <1>3, <2>2, Zenon
<1> QED BY <1>1, <1>2, <1>3, Zenon

\* The four numbers that group g of d is coded as, by place.
Six(d, k) == a3_to_a4(Group(d, (k - 1) \div 4, 3))[((k - 1) % 4) + 1]

\* The text e of d: characters for numbers, and padding behind them.
Coded(e, d) ==
  /\ e \in Seq(Int) /\ Len(e) = 4 * Groups(Len(d))
  /\ \A k \in 1 .. Len(e) : e[k] \in Nat
  /\ \A k \in 1 .. Len(e) : k > Len(d) + Groups(Len(d)) => e[k] = Pad
  /\ \A k \in 1 .. Len(e) : k <= Len(d) + Groups(Len(d)) => e[k] # Pad /\ b64_lookup(e[k]) = Six(d, k)

LEMMA EncodeIs ==
  ASSUME NEW d \in Seq(Byte)
  PROVE  Coded(base64_encode(d), d)
<1> DEFINE n == Len(d)
           m == Groups(n)
           e == base64_encode(d)
           at(k) == IF 3 * ((k - 1) \div 4) + ((k - 1) % 4) > n THEN Pad ELSE b64_alphabet[Six(d, k)]
<1>1. n \in Nat /\ m \in Nat
  BY DEF Groups
<1>2. e = [k \in 1 .. 4 * m |-> at(k)]
  BY Zenon DEF base64_encode, Six, Groups
<1>3. ASSUME NEW k \in 1 .. 4 * m
      PROVE  IF k > n + m THEN at(k) = Pad
             ELSE at(k) = b64_alphabet[Six(d, k)] /\ Six(d, k) \in 0 .. 63
  <2> DEFINE g == (k - 1) \div 4
             j == (k - 1) % 4
  <2>1. g \in Nat /\ j \in 0 .. 3 /\ (3 * g + j > n <=> k > n + m)
    BY <1>1, PadsAre, Zenon
  <2>2. Six(d, k) \in 0 .. 63
    <3> HIDE DEF g, j
    <3>1. \A i \in 1 .. 3 : Group(d, g, 3)[i] \in Byte
      BY <2>1, GroupTyped, Zenon
    <3>2. \A i \in 1 .. 4 : a3_to_a4(Group(d, g, 3))[i] \in 0 .. 63
      BY <3>1, FourAre, Zenon
    <3>3. j + 1 \in 1 .. 4
      BY <2>1
    <3> QED BY <3>2, <3>3, Zenon DEF Six, g, j
  <2>3. at(k) = IF 3 * g + j > n THEN Pad ELSE b64_alphabet[Six(d, k)]
    OBVIOUS
  <2> HIDE DEF at, g, j
  <2> QED BY <2>1, <2>2, <2>3, Zenon
<1> HIDE DEF at, e, n, m
<1>4. ASSUME NEW k \in 1 .. 4 * m PROVE at(k) \in Nat /\ at(k) \in Int
  <2>1. Pad \in Nat /\ Nat \subseteq Int
    BY DEF Pad
  <2> QED BY <1>3, <2>1, AlphabetIs, Zenon
<1>5. e \in [1 .. 4 * m -> Int]
  BY <1>2, <1>4, Zenon
<1>6. e \in Seq(Int) /\ Len(e) = 4 * m
  <2>1. 4 * m \in Nat
    BY <1>1
  <2> QED BY <1>5, <2>1, IsSequence, Zenon
<1>7. ASSUME NEW k \in 1 .. 4 * m PROVE e[k] = at(k)
  BY <1>2, Zenon
<1>11. \A k \in 1 .. 4 * m : e[k] \in Nat
  BY <1>4, <1>7, Zenon
<1>8. \A k \in 1 .. 4 * m : k > n + m => e[k] = Pad
  BY <1>3, <1>7, Zenon
<1>9. ASSUME NEW k \in 1 .. 4 * m, k <= n + m PROVE e[k] # Pad /\ b64_lookup(e[k]) = Six(d, k)
  <2>1. ~(k > n + m)
    BY <1>1, <1>9
  <2>2. e[k] = b64_alphabet[Six(d, k)] /\ Six(d, k) \in 0 .. 63
    BY <1>3, <1>7, <2>1, Zenon
  <2> QED BY <2>2, AlphabetIs, Zenon
<1>10. Coded(e, d)
  BY <1>6, <1>8, <1>9, <1>11, Zenon DEF Coded, n, m
<1> QED BY <1>10, Zenon DEF e

-----------------------------------------------------------------------------
\* base64_decode: what is in front of the padding, and its bytes.

TextOf(s) ==
  LET pads == {k \in 1 .. Len(s) : s[k] = Pad}
  IN IF pads = {} THEN s ELSE SubSeq(s, 1, (CHOOSE k \in pads : \A l \in pads : k <= l) - 1)

Size(n) == 3 * (n \div 4) + (IF n % 4 = 0 THEN 0 ELSE (n % 4) - 1)

Looked(t, g) == [k \in 1 .. 4 |-> b64_lookup(Group(t, g, 4)[k])]

ByteAt(t, k) == a4_to_a3(Looked(t, (k - 1) \div 3))[((k - 1) % 3) + 1]

LEMMA DecodeIs ==
  ASSUME NEW s
  PROVE  base64_decode(s) = [k \in 1 .. Size(Len(TextOf(s))) |-> ByteAt(TextOf(s), k)]
BY Zenon DEF base64_decode, TextOf, Size, Looked, ByteAt

LEMMA TextTyped == ASSUME NEW S, NEW s \in Seq(S) PROVE TextOf(s) \in Seq(S)
<1> DEFINE pads == {k \in 1 .. Len(s) : s[k] = Pad}
<1>1. CASE pads = {}
  BY <1>1, Zenon DEF TextOf
<1>2. CASE pads # {}
  <2>1. Len(s) \in Nat /\ pads \in SUBSET Nat
    OBVIOUS
  <2>2. PICK x \in pads : \A y \in pads : x <= y
    BY <1>2, <2>1, Smallest
  <2>3. (CHOOSE k \in pads : \A l \in pads : k <= l) = x
    <3>1. pads \subseteq Int
      OBVIOUS
    <3> HIDE DEF pads
    <3> QED BY <2>2, <3>1, FirstIs, Zenon
  <2>4. TextOf(s) = SubSeq(s, 1, x - 1)
    BY <1>2, <2>3, Zenon DEF TextOf
  <2>5. x - 1 \in Int /\ \A i \in 1 .. x - 1 : s[i] \in S
    <3>1. x \in 1 .. Len(s)
      OBVIOUS
    <3> QED BY <3>1, ElementOfSeq
  <2>6. SubSeq(s, 1, x - 1) \in Seq(S)
    <3>1. 1 \in Int
      OBVIOUS
    <3> QED BY <2>5, <3>1, SubSeqProperties
  <2> QED BY <2>4, <2>6, Zenon
<1> QED BY <1>1, <1>2, Zenon

LEMMA ByteAtTyped == ASSUME NEW t, NEW k \in Nat, k # 0 PROVE ByteAt(t, k) \in Byte
<1> DEFINE a == Looked(t, (k - 1) \div 3)
           j == (k - 1) % 3
           p == (4 * a[1] + (a[2] % 64) \div 16) % 256
           q == (16 * (a[2] % 16) + (a[3] % 64) \div 4) % 256
           r == (64 * (a[3] % 4) + a[4]) % 256
<1>1. j \in 0 .. 2
  OBVIOUS
<1>2. \A i \in 1 .. 4 : a[i] \in Int
  <2>1. \A i \in 1 .. 4 : a[i] = b64_lookup(Group(t, (k - 1) \div 3, 4)[i])
    BY Zenon DEF Looked
  <2>2. Byte \subseteq Int
    BY DEF Byte
  <2> QED BY <2>1, <2>2, LookupTyped, Zenon
<1>3. a4_to_a3(a) = <<p, q, r>>
  BY Zenon DEF a4_to_a3
<1>4. ByteAt(t, k) = a4_to_a3(a)[j + 1]
  BY Zenon DEF ByteAt
<1>5. p \in Byte /\ q \in Byte /\ r \in Byte
  <2> HIDE DEF a
  <2>1. ASSUME NEW x \in Int PROVE x % 256 \in Byte
    BY DEF Byte
  <2>2. a[1] \in Int /\ a[2] \in Int /\ a[3] \in Int /\ a[4] \in Int
    BY <1>2
  <2>3. 4 * a[1] + (a[2] % 64) \div 16 \in Int
    BY <2>2
  <2>4. 16 * (a[2] % 16) + (a[3] % 64) \div 4 \in Int
    BY <2>2
  <2>5. 64 * (a[3] % 4) + a[4] \in Int
    BY <2>2
  <2> QED BY <2>1, <2>3, <2>4, <2>5, Zenon
<1> HIDE DEF a, j, p, q, r
<1>6. a4_to_a3(a)[1] = p /\ a4_to_a3(a)[2] = q /\ a4_to_a3(a)[3] = r
  BY <1>3
<1>7. j + 1 = 1 \/ j + 1 = 2 \/ j + 1 = 3
  BY <1>1
<1> QED BY <1>4, <1>5, <1>6, <1>7, Zenon

LEMMA DecodeTyped == ASSUME NEW s \in Seq(Int) PROVE base64_decode(s) \in Seq(Byte)
<1> DEFINE t == TextOf(s)
           n == Size(Len(t))
<1>1. t \in Seq(Int)
  BY TextTyped, Zenon
<1>2. n \in Nat
  <2> DEFINE l == Len(t)
  <2>1. l \in Nat
    BY <1>1, LenProperties, Zenon
  <2> HIDE DEF l
  <2>2. Size(l) \in Nat
    <3>1. l \div 4 \in Nat /\ l % 4 \in 0 .. 3
      BY <2>1
    <3> DEFINE q == l \div 4
               r == l % 4
    <3> HIDE DEF q, r
    <3>2. q \in Nat /\ r \in 0 .. 3
      BY <3>1, Zenon DEF q, r
    <3>3. 3 * q + (IF r = 0 THEN 0 ELSE r - 1) \in Nat
      BY <3>2
    <3> QED BY <3>3, Zenon DEF Size, q, r
  <2> QED BY <2>2, Zenon DEF l
<1> HIDE DEF n
<1>3. ASSUME NEW k \in 1 .. n PROVE ByteAt(t, k) \in Byte
  <2>1. k \in Nat /\ k # 0
    BY <1>2
  <2> QED BY <2>1, ByteAtTyped, Zenon
<1> HIDE DEF t
<1> DEFINE f == [k \in 1 .. n |-> ByteAt(t, k)]
<1>4. f \in [1 .. n -> Byte]
  BY <1>3, Zenon
<1>5. base64_decode(s) = f
  BY DecodeIs, Zenon DEF n, t
<1> HIDE DEF f
<1> QED BY <1>2, <1>4, <1>5, IsSequence, Zenon

LEMMA CutTyped ==
  ASSUME NEW S, 0 \in S, NEW s \in Seq(S), NEW n \in Int
  PROVE  Cut(s, n) \in Seq(S) /\ (n \in Nat => Len(Cut(s, n)) = n) /\ (n \notin Nat => Len(Cut(s, n)) = 0)
<1> DEFINE f == [k \in 1 .. n |-> IF k <= Len(s) THEN s[k] ELSE 0]
<1>1. Cut(s, n) = f
  BY Zenon DEF Cut
<1>2. ASSUME NEW k \in 1 .. n PROVE (IF k <= Len(s) THEN s[k] ELSE 0) \in S
  <2>1. CASE k <= Len(s)
    <3>1. k \in 1 .. Len(s)
      BY <2>1
    <3> QED BY <2>1, <3>1, ElementOfSeq
  <2>2. CASE ~(k <= Len(s))
    BY <2>2
  <2> QED BY <2>1, <2>2, Zenon
<1>3. f \in [1 .. n -> S]
  BY <1>2, Zenon
<1> HIDE DEF f
<1>4. CASE n \in Nat
  <2>1. f \in Seq(S) /\ Len(f) = n
    BY <1>3, <1>4, IsSequence, Zenon
  <2> QED BY <1>1, <1>4, <2>1, Zenon
<1>5. CASE n \notin Nat
  <2>1. 1 .. n = 1 .. 0 /\ 0 \in Nat
    BY <1>5
  <2>2. f \in [1 .. 0 -> S]
    BY <1>3, <2>1, Zenon
  <2>3. f \in Seq(S) /\ Len(f) = 0
    BY <2>1, <2>2, IsSequence, Zenon
  <2> QED BY <1>1, <1>5, <2>3, Zenon
<1> QED BY <1>4, <1>5, Zenon

LEMMA CutSame ==
  ASSUME NEW S, NEW s \in Seq(S)
  PROVE  Cut(s, Len(s)) = s
<1> DEFINE n == Len(s)
           f == [k \in 1 .. n |-> IF k <= n THEN s[k] ELSE 0]
<1>1. n \in Nat
  OBVIOUS
<1>2. Cut(s, n) = f
  BY Zenon DEF Cut
<1>3. ASSUME NEW k \in 1 .. n PROVE f[k] = s[k]
  <2>1. k <= n
    BY <1>1
  <2> QED BY <2>1, Zenon
<1>4. ASSUME NEW k \in 1 .. n PROVE f[k] \in S
  <2>1. s[k] \in S
    BY ElementOfSeq
  <2> QED BY <1>3, <2>1, Zenon
<1>5. f \in [1 .. n -> S]
  BY <1>4, Zenon
<1> HIDE DEF f
<1>6. f \in Seq(S) /\ Len(f) = n
  BY <1>1, <1>5, IsSequence, Zenon
<1>7. f = s
  BY <1>3, <1>6, SeqEqual, SMTT(20)
<1> QED BY <1>2, <1>7, Zenon

\* base64_dec_len is a number, at most six bits for each character;
LEMMA LengthTyped ==
  ASSUME NEW s \in Seq(Int)
  PROVE  base64_dec_len(s) \in Int /\ base64_dec_len(s) <= (6 * Len(s)) \div 8
<1> DEFINE data == {k \in 1 .. Len(s) : s[k] # Pad}
           last == CHOOSE k \in data : \A l \in data : l <= k
           x == IF data = {} THEN 0 ELSE last
<1>1. Len(s) \in Nat /\ data \in SUBSET (1 .. Len(s))
  OBVIOUS
<1>2. base64_dec_len(s) = (6 * Len(s)) \div 8 - (Len(s) - x)
  BY Zenon DEF base64_dec_len
<1>3. x \in Int /\ x <= Len(s)
  <2>1. CASE data = {}
    BY <1>1, <2>1
  <2>2. CASE data # {}
    <3>1. PICK y \in data : \A l \in data : l <= y
      BY <1>1, <2>2, LastExists, Zenon
    <3>2. data \subseteq Int /\ y <= Len(s)
      OBVIOUS
    <3>3. last = y
      <4> HIDE DEF data
      <4> QED BY <3>1, <3>2, LastIs, Zenon
    <3> HIDE DEF data, last
    <3> QED BY <2>2, <3>1, <3>2, <3>3
  <2> QED BY <2>1, <2>2, Zenon
<1> HIDE DEF x
<1> DEFINE l == Len(s)
<1>4. l \in Nat /\ x <= l
  BY <1>1, <1>3
<1> HIDE DEF l
<1>5. (6 * l) \div 8 - (l - x) \in Int /\ (6 * l) \div 8 - (l - x) <= (6 * l) \div 8
  BY <1>3, <1>4
<1> QED BY <1>2, <1>5, Zenon DEF l

\* of a coded text that of the bytes.
LEMMA LengthIs ==
  ASSUME NEW d \in Seq(Byte), NEW e, Coded(e, d)
  PROVE  base64_dec_len(e) = Len(d)
<1> DEFINE n == Len(d)
           m == Groups(n)
           data == {k \in 1 .. Len(e) : e[k] # Pad}
           x == IF data = {} THEN 0 ELSE CHOOSE k \in data : \A l \in data : l <= k
<1>1. n \in Nat
  OBVIOUS
<1>2. m \in Nat /\ n + m <= 4 * m /\ (6 * (4 * m)) \div 8 - (4 * m - (n + m)) = n
  BY <1>1, GroupsAre, Zenon
<1>3. /\ Len(e) = 4 * m
      /\ \A k \in 1 .. 4 * m : k > n + m => e[k] = Pad
      /\ \A k \in 1 .. 4 * m : k <= n + m => e[k] # Pad
  BY Zenon DEF Coded
<1>4. base64_dec_len(e) = (6 * Len(e)) \div 8 - (Len(e) - x)
  BY Zenon DEF base64_dec_len
<1> HIDE DEF n, m
<1>5. ASSUME NEW k PROVE k \in data <=> k \in 1 .. n + m
  <2>1. k \in data <=> k \in 1 .. 4 * m /\ e[k] # Pad
    BY <1>3, Zenon
  <2> HIDE DEF data
  <2>2. k \in 1 .. n + m <=> k \in 1 .. 4 * m /\ k <= n + m
    BY <1>1, <1>2
  <2>3. ASSUME k \in 1 .. 4 * m PROVE k <= n + m \/ k > n + m
    BY <1>1, <1>2, <2>3
  <2>4. ASSUME k \in 1 .. 4 * m, k <= n + m, k > n + m PROVE FALSE
    BY <1>1, <1>2, <2>4
  <2> QED BY <1>3, <2>1, <2>2, <2>3, <2>4, Zenon
<1>6. data = 1 .. n + m
  <2> HIDE DEF data
  <2>1. \A k : k \in data <=> k \in 1 .. n + m
    BY <1>5, Zenon
  <2> QED BY <2>1
<1>7. x = n + m
  <2>1. CASE n + m = 0
    <3>1. 1 .. n + m = {}
      BY <2>1
    <3> QED BY <1>6, <2>1, <3>1, Zenon
  <2>2. CASE n + m # 0
    <3>1. n + m \in 1 .. n + m /\ 1 .. n + m \subseteq Int /\ \A y \in 1 .. n + m : y <= n + m
      BY <1>1, <1>2, <2>2
    <3>2. data # {} /\ n + m \in data /\ data \subseteq Int /\ \A y \in data : y <= n + m
      BY <1>6, <3>1, Zenon
    <3> HIDE DEF data
    <3>3. (CHOOSE k \in data : \A l \in data : l <= k) = n + m
      BY <3>2, LastIs, Zenon
    <3> QED BY <3>2, <3>3, Zenon
  <2> QED BY <2>1, <2>2, Zenon
<1> HIDE DEF x
<1> QED BY <1>2, <1>3, <1>4, <1>7, Zenon DEF n

\* What is in front of the padding of a coded text.
LEMMA TextIs ==
  ASSUME NEW d \in Seq(Byte), NEW e, Coded(e, d)
  PROVE  /\ Len(TextOf(e)) = Len(d) + Groups(Len(d))
         /\ \A k \in 1 .. Len(d) + Groups(Len(d)) : TextOf(e)[k] = e[k] /\ b64_lookup(e[k]) = Six(d, k)
<1> DEFINE n == Len(d)
           m == Groups(n)
           w == n + m
           pads == {k \in 1 .. Len(e) : e[k] = Pad}
<1>1. n \in Nat
  OBVIOUS
<1>2. m \in Nat /\ w <= 4 * m
  BY <1>1, GroupsAre, Zenon
<1>3. /\ e \in Seq(Int) /\ Len(e) = 4 * m
      /\ \A k \in 1 .. 4 * m : k > w => e[k] = Pad
      /\ \A k \in 1 .. 4 * m : k <= w => e[k] # Pad /\ b64_lookup(e[k]) = Six(d, k)
  BY Zenon DEF Coded
<1> HIDE DEF n, m
<1>4. w \in Nat
  BY <1>1, <1>2
<1> HIDE DEF w
<1>5. \A k \in 1 .. w : k \in 1 .. 4 * m /\ k <= w
  BY <1>2, <1>4
<1>6. \A k \in 1 .. w : e[k] # Pad /\ b64_lookup(e[k]) = Six(d, k)
  BY <1>3, <1>5, Zenon
<1>7. CASE w = 4 * m
  <2>1. pads = {}
    BY <1>3, <1>6, <1>7, Zenon
  <2>2. TextOf(e) = e
    BY <2>1, Zenon DEF TextOf
  <2> QED BY <1>3, <1>6, <1>7, <2>2, Zenon DEF n, m, w
<1>8. CASE w # 4 * m
  <2>1. w + 1 \in 1 .. 4 * m /\ w + 1 > w
    BY <1>2, <1>4, <1>8
  <2>2. w + 1 \in pads
    BY <1>3, <2>1, Zenon
  <2>3. pads \subseteq Int
    OBVIOUS
  <2>4. ASSUME NEW y \in pads PROVE w + 1 <= y
    <3>1. y \in 1 .. 4 * m /\ e[y] = Pad
      BY <1>3, Zenon
    <3>2. ~(y \in 1 .. w)
      BY <1>6, <3>1, Zenon
    <3> HIDE DEF pads
    <3> QED BY <1>2, <1>4, <3>1, <3>2
  <2>5. (CHOOSE k \in pads : \A l \in pads : k <= l) = w + 1
    <3> HIDE DEF pads
    <3> QED BY <2>2, <2>3, <2>4, FirstIs, Zenon
  <2>6. TextOf(e) = SubSeq(e, 1, (w + 1) - 1)
    BY <2>2, <2>5, Zenon DEF TextOf
  <2>7. (w + 1) - 1 = w
    BY <1>4
  <2>8. Len(SubSeq(e, 1, w)) = w /\ \A k \in 1 .. w : SubSeq(e, 1, w)[k] = e[k]
    <3>1. \A k \in 1 .. w : e[k] \in Int
      BY <1>3, <1>5, ElementOfSeq
    <3>2. 1 \in Int /\ w \in Int
      BY <1>4
    <3>3. Len(SubSeq(e, 1, w)) = (IF 1 <= w THEN w - 1 + 1 ELSE 0)
          /\ \A k \in 1 .. w - 1 + 1 : SubSeq(e, 1, w)[k] = e[1 + k - 1]
      BY <3>1, <3>2, SubSeqProperties
    <3>4. (IF 1 <= w THEN w - 1 + 1 ELSE 0) = w /\ w - 1 + 1 = w /\ \A k \in 1 .. w : 1 + k - 1 = k
      BY <1>4
    <3> QED BY <3>3, <3>4, Zenon
  <2> QED BY <1>6, <2>6, <2>7, <2>8, Zenon DEF n, m, w
<1> QED BY <1>7, <1>8, Zenon

\* A byte of a coded text is the one that was coded.
LEMMA ByteIs ==
  ASSUME NEW d \in Seq(Byte), NEW t, NEW k \in 1 .. Len(d),
         Len(t) = Len(d) + Groups(Len(d)),
         \A i \in 1 .. Len(d) + Groups(Len(d)) : b64_lookup(t[i]) = Six(d, i)
  PROVE  ByteAt(t, k) = d[k]
<1> DEFINE n == Len(d)
           w == n + Groups(n)
           h == (k - 1) \div 3
           r == (k - 1) % 3
           a == Group(d, h, 3)
           f == Looked(t, h)
<1>1. n \in Nat
  OBVIOUS
<1>2. h \in Nat /\ r \in 0 .. 2 /\ k = 3 * h + r + 1 /\ 4 * h + r + 2 <= w
  BY <1>1, PlaceIs, Zenon
<1>3. Groups(n) \in Nat
  BY <1>1, GroupsAre, Zenon
<1>4. \A i \in 1 .. 3 : a[i] \in Byte
  <2> HIDE DEF h
  <2> QED BY <1>2, GroupTyped, Zenon
<1>5. ASSUME NEW j \in 1 .. 4, 4 * h + j <= w PROVE f[j] = a3_to_a4(a)[j]
  <2>1. f[j] = b64_lookup(Group(t, h, 4)[j])
    BY Zenon DEF Looked
  <2>2. Group(t, h, 4)[j] = IF 4 * h + j <= Len(t) THEN t[4 * h + j] ELSE 0
    <3>1. 4 \in Nat
      OBVIOUS
    <3> HIDE DEF h, r, w, n
    <3> QED BY <1>2, <3>1, GroupIs, Zenon
  <2> DEFINE i == 4 * h + j
  <2>3. Group(t, h, 4)[j] = t[i]
    BY <1>5, <2>2, Zenon
  <2>4. i \in 1 .. w /\ (i - 1) \div 4 = h /\ ((i - 1) % 4) + 1 = j
    <3> HIDE DEF h, r, n
    <3> QED BY <1>1, <1>2, <1>3, <1>5
  <2>5. b64_lookup(t[i]) = Six(d, i)
    BY <2>4, Zenon
  <2>6. Six(d, i) = a3_to_a4(a)[j]
    <3> HIDE DEF i
    <3> QED BY <2>4, Zenon DEF Six
  <2> QED BY <2>1, <2>3, <2>5, <2>6, Zenon
<1>6. r + 1 \in 1 .. 4 /\ r + 2 \in 1 .. 4 /\ 4 * h + (r + 1) <= w /\ 4 * h + (r + 2) <= w
  <2> HIDE DEF h, r, n
  <2> QED BY <1>1, <1>2, <1>3
<1> HIDE DEF w
<1>7. f[r + 1] = a3_to_a4(a)[r + 1] /\ f[r + 2] = a3_to_a4(a)[r + 2]
  <2> HIDE DEF f, a, r, h
  <2> QED BY <1>5, <1>6, Zenon
<1>8. a4_to_a3(f)[r + 1] = a[r + 1]
  <2> HIDE DEF f, a, r, h
  <2> QED BY <1>2, <1>4, <1>7, ThreeAre, Zenon
<1>9. ByteAt(t, k) = a4_to_a3(f)[r + 1]
  BY Zenon DEF ByteAt
<1>10. a[r + 1] = d[k]
  <2>1. r + 1 \in 1 .. 3 /\ 3 * h + (r + 1) = k /\ k <= n
    <3> HIDE DEF h, r
    <3> QED BY <1>2
  <2>2. a[r + 1] = IF 3 * h + (r + 1) <= Len(d) THEN d[3 * h + (r + 1)] ELSE 0
    <3> HIDE DEF h, r
    <3> QED BY <1>2, <2>1, GroupIs, Zenon DEF a
  <2> HIDE DEF a, r, h
  <2> QED BY <2>1, <2>2, Zenon
<1> QED BY <1>8, <1>9, <1>10, Zenon

\* Bytes that were coded come back, all of them and no other.
LEMMA CodedBack ==
  ASSUME NEW d \in Seq(Byte), NEW e, Coded(e, d)
  PROVE  Cut(base64_decode(e), base64_dec_len(e)) = d
<1> DEFINE n == Len(d)
           w == n + Groups(n)
           t == TextOf(e)
           x == base64_decode(e)
<1>1. n \in Nat /\ w \in Nat /\ Size(w) = n
  <2>1. n \in Nat
    OBVIOUS
  <2>2. Groups(n) \in Nat /\ 3 * (w \div 4) + (IF w % 4 = 0 THEN 0 ELSE (w % 4) - 1) = n
    BY <2>1, GroupsAre, Zenon
  <2>3. w \in Nat
    <3> DEFINE m == Groups(n)
    <3>1. m \in Nat
      BY <2>2, Zenon
    <3> HIDE DEF n, m
    <3>2. n + m \in Nat
      BY <2>1, <3>1
    <3> QED BY <3>2, Zenon DEF m
  <2>4. Size(w) = n
    <3> HIDE DEF w, n
    <3> QED BY <2>2, Zenon DEF Size
  <2> QED BY <2>1, <2>3, <2>4, Zenon
<1>2. Len(t) = w /\ \A k \in 1 .. w : b64_lookup(t[k]) = Six(d, k)
  <2>1. Len(t) = w /\ \A k \in 1 .. w : t[k] = e[k] /\ b64_lookup(e[k]) = Six(d, k)
    BY TextIs, Zenon
  <2> HIDE DEF t, w
  <2> QED BY <2>1, Zenon
<1>3. x = [k \in 1 .. n |-> ByteAt(t, k)]
  <2>1. x = [k \in 1 .. Size(Len(t)) |-> ByteAt(t, k)]
    BY DecodeIs, Zenon
  <2> HIDE DEF t, w, n
  <2> QED BY <1>1, <1>2, <2>1, Zenon
<1>4. ASSUME NEW k \in 1 .. n PROVE ByteAt(t, k) = d[k]
  <2> HIDE DEF t
  <2> QED BY <1>2, ByteIs, Zenon
<1> HIDE DEF t, w
<1>5. x = d
  <2>1. ASSUME NEW k \in 1 .. n PROVE d[k] \in Byte
    BY ElementOfSeq
  <2>2. x \in [1 .. n -> Byte]
    BY <1>3, <1>4, <2>1, Zenon
  <2>3. x \in Seq(Byte) /\ Len(x) = n
    BY <1>1, <2>2, IsSequence, Zenon
  <2>4. \A k \in 1 .. n : x[k] = d[k]
    BY <1>3, <1>4, Zenon
  <2> HIDE DEF x
  <2> QED BY <2>3, <2>4, SeqEqual, SMTT(20)
<1>6. base64_dec_len(e) = Len(d)
  BY LengthIs, Zenon
<1> HIDE DEF x
<1> QED BY <1>5, <1>6, CutSame, Zenon DEF x

\* Any bytes, coded and decoded as a command with them is, are themselves
\* (base64.c:23-137, as user_main.c:159 and 187-190 call it).
THEOREM Base64RoundTrip ==
  \A d \in Seq(Byte) : LET coded == base64_encode(d)
                       IN Cut(base64_decode(coded), base64_dec_len(coded)) = d
BY EncodeIs, CodedBack, Zenon

-----------------------------------------------------------------------------
\* The statics, and the commands and reports that go through them.

Statics == [cmd : Byte, id_cmd : Byte, token : Nat, len_data : Lengths, data : Seq(Int)]

IrTyped == message_id \in Nat /\ ir \in Statics /\ loose \in BOOLEAN

\* Length and data, once they were given together, are those of a payload; or the
\* length is 0 since the mode was changed.
Payload(v) == v.len_data = 0 \/ \E d \in Reports : v.data = base64_encode(d) /\ v.len_data = Len(v.data)

IrInv == IrTyped /\ (~loose => Payload(ir))

LEMMA StaticsAre ==
  ASSUME NEW v
  PROVE  v \in Statics => v.cmd \in Byte /\ v.id_cmd \in Byte /\ v.token \in Nat /\ v.data \in Seq(Int)
                           /\ v.len_data \in Lengths /\ v.len_data \in Nat /\ (6 * v.len_data) \div 8 <= TxBuf
BY DEF Statics, Lengths

LEMMA EncodeTyped == ASSUME NEW d \in Seq(Byte) PROVE base64_encode(d) \in Seq(Int)
BY EncodeIs, Zenon DEF Coded

LEMMA ReportsTyped == Reports \subseteq Seq(Byte) /\ \A d \in Reports : Len(base64_encode(d)) \in Lengths
BY IrGatewayAssumption, Zenon

LEMMA NoLength == 0 \in Lengths
BY TxAssumption DEF Lengths

\* A field that is cut to its width.
LEMMA Narrow8 == \A x \in Int : uint8(x) \in Byte
BY DEF Byte, uint8

LEMMA Narrow16 == \A x \in Int : uint16(x) \in Nat
BY DEF uint16

LEMMA FieldsAre ==
  ASSUME NEW text \in Seq(Int)
  PROVE  LET f == SubSeq(text, Wording + 1, Len(text)) IN
         /\ f \in Seq(Int)
         /\ \A i \in 1 .. Len(f) : f[i] \in Int
         /\ \A i \in 1 .. 5 : Len(f) >= i <=> Len(text) >= Wording + i
         /\ \A i \in 1 .. 5 : Len(f) >= i => f[i] = text[Wording + i]
         /\ Len(f) >= 5 => SubSeq(f, 5, Len(f)) \in Seq(Int)
         /\ Len(f) >= 5 => SubSeq(f, 5, Len(f)) = SubSeq(text, Wording + 5, Len(text))
<1> DEFINE f == SubSeq(text, Wording + 1, Len(text))
           n == Len(text)
<1>1. Wording \in Nat /\ n \in Nat
  BY IrGatewayAssumption
<1>2. \A i \in 1 .. n : text[i] \in Int
  BY ElementOfSeq
<1> HIDE DEF n
<1>3. /\ f \in Seq(Int)
      /\ Len(f) = (IF Wording + 1 <= n THEN n - (Wording + 1) + 1 ELSE 0)
      /\ \A i \in 1 .. n - (Wording + 1) + 1 : f[i] = text[(Wording + 1) + i - 1]
  <2>1. Wording + 1 \in Int /\ n \in Int /\ \A i \in Wording + 1 .. n : text[i] \in Int
    BY <1>1, <1>2
  <2> QED BY <2>1, SubSeqProperties DEF n
<1> HIDE DEF f
<1> DEFINE l == Len(f)
<1>4. l \in Nat
  BY <1>3, LenProperties, Zenon
<1>5. \A i \in 1 .. l : f[i] \in Int
  BY <1>3, ElementOfSeq
<1>6. ASSUME NEW i \in 1 .. 5
      PROVE  (l >= i <=> n >= Wording + i) /\ (l >= i => f[i] = text[Wording + i])
  <2>0. l = (IF Wording + 1 <= n THEN n - (Wording + 1) + 1 ELSE 0)
    BY <1>3, Zenon
  <2>1. l >= i <=> n >= Wording + i
    <3> HIDE DEF l
    <3> QED BY <1>1, <1>4, <2>0
  <2>2. ASSUME l >= i PROVE f[i] = text[Wording + i]
    <3>1. i \in 1 .. n - (Wording + 1) + 1 /\ (Wording + 1) + i - 1 = Wording + i
      <4> HIDE DEF l
      <4> QED BY <1>1, <1>4, <2>0, <2>2
    <3>2. f[i] = text[(Wording + 1) + i - 1]
      BY <1>3, <3>1, Zenon
    <3> QED BY <3>1, <3>2, Zenon
  <2> QED BY <2>1, <2>2, Zenon
<1>7. ASSUME l >= 5
      PROVE  SubSeq(f, 5, l) \in Seq(Int) /\ SubSeq(f, 5, l) = SubSeq(text, Wording + 5, n)
  <2> DEFINE x == SubSeq(f, 5, l)
             y == SubSeq(text, Wording + 5, n)
  <2>1. l = n - Wording
    <3>1. l = (IF Wording + 1 <= n THEN n - (Wording + 1) + 1 ELSE 0)
      BY <1>3, Zenon
    <3> HIDE DEF l
    <3> QED BY <1>1, <1>4, <1>7, <3>1
  <2>2. x \in Seq(Int) /\ Len(x) = (IF 5 <= l THEN l - 5 + 1 ELSE 0) /\ \A i \in 1 .. l - 5 + 1 : x[i] = f[5 + i - 1]
    <3>1. 5 \in Int /\ l \in Int /\ \A i \in 5 .. l : f[i] \in Int
      <4>1. \A i \in 5 .. l : i \in 1 .. l
        <5> HIDE DEF l
        <5> QED BY <1>4
      <4>2. 5 \in Int /\ l \in Int
        <5> HIDE DEF l
        <5> QED BY <1>4
      <4> QED BY <1>5, <4>1, <4>2, Zenon
    <3> HIDE DEF l
    <3> QED BY <3>1, SubSeqProperties
  <2>3. y \in Seq(Int) /\ Len(y) = (IF Wording + 5 <= n THEN n - (Wording + 5) + 1 ELSE 0)
        /\ \A i \in 1 .. n - (Wording + 5) + 1 : y[i] = text[(Wording + 5) + i - 1]
    <3>1. Wording + 5 \in Int /\ n \in Int /\ \A i \in Wording + 5 .. n : i \in 1 .. n
      BY <1>1
    <3>2. \A i \in Wording + 5 .. n : text[i] \in Int
      BY <1>2, <3>1, Zenon DEF n
    <3> QED BY <3>1, <3>2, SubSeqProperties
  <2> HIDE DEF x, y
  <2>4. Len(x) = Len(y) /\ Len(x) = l - 4 /\ l - 4 \in Nat
    <3>1. Len(x) = (IF 5 <= l THEN l - 5 + 1 ELSE 0) /\ Len(y) = (IF Wording + 5 <= n THEN n - (Wording + 5) + 1 ELSE 0)
      BY <2>2, <2>3, Zenon
    <3> HIDE DEF l
    <3> QED BY <1>1, <1>4, <1>7, <2>1, <3>1
  <2>5. ASSUME NEW i \in 1 .. l - 4 PROVE x[i] = y[i]
    <3>1. /\ i \in 1 .. l - 5 + 1 /\ i \in 1 .. n - (Wording + 5) + 1
          /\ 5 + i - 1 \in 1 .. n - (Wording + 1) + 1
          /\ (Wording + 1) + (5 + i - 1) - 1 = (Wording + 5) + i - 1
      <4> HIDE DEF l
      <4> QED BY <1>1, <1>4, <1>7, <2>1
    <3>2. x[i] = f[5 + i - 1] /\ y[i] = text[(Wording + 5) + i - 1]
      BY <2>2, <2>3, <3>1, Zenon
    <3>3. f[5 + i - 1] = text[(Wording + 1) + (5 + i - 1) - 1]
      <4> DEFINE j == 5 + i - 1
      <4>1. j \in 1 .. n - (Wording + 1) + 1
        BY <3>1, Zenon
      <4> HIDE DEF j
      <4>2. f[j] = text[(Wording + 1) + j - 1]
        BY <1>3, <4>1, Zenon
      <4> QED BY <4>2, Zenon DEF j
    <3> QED BY <3>1, <3>2, <3>3, Zenon
  <2>6. x = y
    <3>1. x \in Seq(Int) /\ y \in Seq(Int)
      BY <2>2, <2>3, Zenon
    <3>2. Len(x) = Len(y) /\ \A i \in 1 .. Len(x) : x[i] = y[i]
      BY <2>4, <2>5, Zenon
    <3> QED BY <3>1, <3>2, SeqEqual
  <2> QED BY <2>2, <2>6, Zenon DEF x, y
<1> QED BY <1>3, <1>5, <1>6, <1>7, Zenon DEF f, n, l

\* What a text makes of the statics, part by part.
LEMMA ParseIs ==
  ASSUME NEW v \in Statics, NEW text \in Seq(Int),
         GivesLength(text) => uint16(text[Wording + 4]) \in Lengths
  PROVE  LET w == ir_info_subscribed(v, text)
             f == SubSeq(text, Wording + 1, Len(text))
         IN /\ w \in Statics
            /\ w.len_data = IF GivesLength(text) THEN uint16(text[Wording + 4]) ELSE v.len_data
            /\ ~GivesData(text) => w.data = v.data
            /\ GivesData(text) /\ text[Wording + 5] # Absent => w.data = SubSeq(text, Wording + 5, Len(text))
<1> DEFINE f == SubSeq(text, Wording + 1, Len(text))
           given(i) == Len(f) >= i /\ f[i] # Absent
           w1 == IF given(1) THEN uint8(f[1]) ELSE v.cmd
           w2 == IF given(2) THEN uint8(f[2]) ELSE v.id_cmd
           w3 == IF given(3) THEN uint16(f[3]) ELSE v.token
           w4 == IF given(4) THEN uint16(f[4]) ELSE v.len_data
           w5 == IF given(5) THEN SubSeq(f, 5, Len(f)) ELSE v.data
           w == ir_info_subscribed(v, text)
<1>1. w = [cmd |-> w1, id_cmd |-> w2, token |-> w3, len_data |-> w4, data |-> w5]
  BY Zenon DEF ir_info_subscribed
<1>2. /\ f \in Seq(Int)
      /\ \A i \in 1 .. Len(f) : f[i] \in Int
      /\ \A i \in 1 .. 5 : Len(f) >= i <=> Len(text) >= Wording + i
      /\ \A i \in 1 .. 5 : Len(f) >= i => f[i] = text[Wording + i]
      /\ Len(f) >= 5 => SubSeq(f, 5, Len(f)) \in Seq(Int)
      /\ Len(f) >= 5 => SubSeq(f, 5, Len(f)) = SubSeq(text, Wording + 5, Len(text))
  BY FieldsAre, Zenon
<1>3. v.cmd \in Byte /\ v.id_cmd \in Byte /\ v.token \in Nat /\ v.len_data \in Lengths /\ v.data \in Seq(Int)
  BY StaticsAre, Zenon
<1> HIDE DEF f
<1>4. ASSUME NEW i \in 1 .. 5, Len(f) >= i PROVE f[i] \in Int
  <2>1. i \in 1 .. Len(f)
    <3>1. Len(f) \in Nat
      BY <1>2, LenProperties, Zenon
    <3> QED BY <1>4, <3>1
  <2> QED BY <1>2, <2>1, Zenon
<1>5. 1 \in 1 .. 5 /\ 2 \in 1 .. 5 /\ 3 \in 1 .. 5 /\ 4 \in 1 .. 5 /\ 5 \in 1 .. 5
  OBVIOUS
<1>6. w1 \in Byte /\ w2 \in Byte
  BY <1>3, <1>4, <1>5, Narrow8, Zenon
<1>7. w3 \in Nat
  BY <1>3, <1>4, <1>5, Narrow16, Zenon
<1>8. w5 \in Seq(Int)
  BY <1>2, <1>3, Zenon
<1>9. w4 = IF GivesLength(text) THEN uint16(text[Wording + 4]) ELSE v.len_data
  <2>1. given(4) <=> GivesLength(text)
    BY <1>2, <1>5, Zenon DEF GivesLength
  <2>2. given(4) => f[4] = text[Wording + 4]
    BY <1>2, <1>5, Zenon
  <2> HIDE DEF given
  <2> QED BY <2>1, <2>2, Zenon
<1>15. w4 \in Lengths
  <2> HIDE DEF w4
  <2> QED BY <1>3, <1>9, Zenon
<1>10. Len(f) >= 5 <=> GivesData(text)
  <2>1. Len(text) >= Wording + 5 <=> Len(text) > Wording + 4
    <3>1. Len(text) \in Nat /\ Wording \in Nat
      BY IrGatewayAssumption
    <3> QED BY <3>1
  <2> QED BY <1>2, <1>5, <2>1, Zenon DEF GivesData
<1>11. ~GivesData(text) => w5 = v.data
  BY <1>10, Zenon
<1>12. GivesData(text) /\ text[Wording + 5] # Absent => w5 = SubSeq(text, Wording + 5, Len(text))
  BY <1>2, <1>5, <1>10, Zenon
<1> HIDE DEF w1, w2, w3, w4, w5, w
<1>13. w \in Statics
  BY <1>1, <1>6, <1>7, <1>8, <1>15 DEF Statics
<1>14. w.len_data = w4 /\ w.data = w5
  BY <1>1
<1> QED BY <1>9, <1>11, <1>12, <1>13, <1>14, Zenon DEF w

LEMMA ParseTyped ==
  ASSUME NEW v \in Statics, NEW text \in Seq(Int),
         GivesLength(text) => uint16(text[Wording + 4]) \in Lengths
  PROVE  ir_info_subscribed(v, text) \in Statics
BY ParseIs, Zenon

\* A text with both, or with neither, keeps them together.
LEMMA ParsePayload ==
  ASSUME NEW v \in Statics, NEW text \in Seq(Int), GivesLength(text) <=> GivesData(text),
         GivesLength(text) => uint16(text[Wording + 4]) \in Lengths,
         ~GivesData(text) => Payload(v),
         GivesData(text) => HasPayload(text)
  PROVE  Payload(ir_info_subscribed(v, text))
<1> DEFINE w == ir_info_subscribed(v, text)
<1>1. /\ w.len_data = IF GivesLength(text) THEN uint16(text[Wording + 4]) ELSE v.len_data
      /\ ~GivesData(text) => w.data = v.data
      /\ GivesData(text) /\ text[Wording + 5] # Absent => w.data = SubSeq(text, Wording + 5, Len(text))
  BY ParseIs, Zenon
<1> HIDE DEF w
<1>2. CASE ~GivesData(text)
  <2>1. w.len_data = v.len_data /\ w.data = v.data
    BY <1>1, <1>2, Zenon
  <2> QED BY <1>2, <2>1, Zenon DEF Payload, w
<1>3. CASE GivesData(text)
  <2>1. PICK d \in Reports : /\ SubSeq(text, Wording + 5, Len(text)) = base64_encode(d)
                            /\ uint16(text[Wording + 4]) = Len(base64_encode(d))
    <3>1. HasPayload(text)
      BY <1>3, Zenon
    <3> QED BY <3>1 DEF HasPayload
  <2> DEFINE e == base64_encode(d)
             n == Len(text)
             f == SubSeq(text, Wording + 1, n)
  <2>2. e \in Seq(Int) /\ \A k \in 1 .. Len(e) : e[k] \in Nat
    BY ReportsTyped, EncodeIs, Zenon DEF Coded
  <2>3. text[Wording + 5] # Absent
    <3>1. Wording \in Nat /\ n \in Nat /\ n > Wording + 4
      BY <1>3, IrGatewayAssumption DEF GivesData
    <3>2. e = SubSeq(text, Wording + 5, n)
      BY <2>1, Zenon
    <3> HIDE DEF e
    <3>3. \A i \in Wording + 5 .. n : text[i] \in Int
      <4>1. \A i \in Wording + 5 .. n : i \in 1 .. n
        <5> HIDE DEF n
        <5> QED BY <3>1
      <4> QED BY <4>1, ElementOfSeq, Zenon
    <3> HIDE DEF n
    <3>4. Len(e) = (IF Wording + 5 <= n THEN n - (Wording + 5) + 1 ELSE 0)
          /\ \A i \in 1 .. n - (Wording + 5) + 1 : e[i] = text[(Wording + 5) + i - 1]
      <4>1. Wording + 5 \in Int /\ n \in Int
        BY <3>1
      <4> QED BY <3>2, <3>3, <4>1, SubSeqProperties
    <3>5. 1 \in 1 .. n - (Wording + 5) + 1 /\ (Wording + 5) + 1 - 1 = Wording + 5
      BY <3>1
    <3>6. Len(e) = n - (Wording + 5) + 1
      BY <3>1, <3>4
    <3>7. e[1] = text[Wording + 5] /\ e[1] \in Nat
      BY <2>2, <3>4, <3>5, <3>6, Zenon
    <3>8. Absent \notin Nat
      BY DEF Absent
    <3> QED BY <3>7, <3>8, Zenon
  <2>4. w.len_data = Len(e) /\ w.data = e
    BY <1>1, <1>3, <2>1, <2>3, Zenon
  <2> HIDE DEF e
  <2>5. w.data = base64_encode(d) /\ w.len_data = Len(w.data)
    BY <2>4, Zenon DEF e
  <2> QED BY <2>5, Zenon DEF Payload, w
<1> QED BY <1>2, <1>3, Zenon

\* What a command sends is bytes, no more than tx_buf takes, and a payload if length and data belong together.
LEMMA SendsPayload ==
  ASSUME NEW v \in Statics
  PROVE  LET coded == Cut(v.data, v.len_data)
             payload == Cut(base64_decode(coded), base64_dec_len(coded))
         IN payload \in Payloads /\ (Payload(v) => payload = <<>> \/ payload \in Reports)
<1> DEFINE coded == Cut(v.data, v.len_data)
           payload == Cut(base64_decode(coded), base64_dec_len(coded))
<1>1. v.len_data \in Nat /\ v.len_data \in Int /\ v.data \in Seq(Int)
  <2>1. Nat \subseteq Int
    OBVIOUS
  <2> QED BY <2>1, StaticsAre, Zenon
<1>2. coded \in Seq(Int) /\ Len(coded) = v.len_data
  <2>1. 0 \in Int
    OBVIOUS
  <2> QED BY <1>1, <2>1, CutTyped, Zenon
<1> HIDE DEF coded
<1>3. payload \in Payloads
  <2>1. 0 \in Byte
    BY DEF Byte
  <2>2. base64_decode(coded) \in Seq(Byte)
    BY <1>2, DecodeTyped, Zenon
  <2> DEFINE n == base64_dec_len(coded)
  <2>3. n \in Int /\ n <= TxBuf
    <3>1. n \in Int /\ n <= (6 * v.len_data) \div 8
      BY <1>2, LengthTyped, Zenon
    <3>2. (6 * v.len_data) \div 8 <= TxBuf /\ TxBuf \in Nat
      BY StaticsAre, TxAssumption, Zenon
    <3> HIDE DEF n
    <3>3. (6 * v.len_data) \div 8 \in Int
      BY <1>1
    <3> QED BY <3>1, <3>2, <3>3
  <2>4. payload \in Seq(Byte) /\ (Len(payload) = n \/ Len(payload) = 0)
    BY <2>1, <2>2, <2>3, CutTyped, Zenon
  <2> HIDE DEF n, payload
  <2>5. Len(payload) <= TxBuf
    BY <2>3, <2>4, TxAssumption
  <2> QED BY <2>4, <2>5, Zenon DEF Payloads
<1>4. ASSUME v.len_data = 0 PROVE payload = <<>>
  <2>1. coded = <<>>
    BY <1>2, <1>4
  <2>2. <<>> \in Seq(Byte)
    BY EmptySeq
  <2>3. Coded(base64_encode(<<>>), <<>>)
    BY <2>2, EncodeIs, Zenon
  <2>4. base64_encode(<<>>) = <<>>
    <3> DEFINE e == base64_encode(<<>>)
    <3>1. e \in Seq(Int) /\ Len(e) = 4 * Groups(Len(<<>>))
      BY <2>3, Zenon DEF Coded
    <3>2. Groups(Len(<<>>)) = 0
      BY DEF Groups
    <3> HIDE DEF e
    <3>3. Len(e) = 0
      BY <3>1, <3>2
    <3>4. e = <<>>
      BY <3>1, <3>3
    <3> QED BY <3>4, Zenon DEF e
  <2>5. Cut(base64_decode(<<>>), base64_dec_len(<<>>)) = <<>>
    BY <2>2, <2>3, <2>4, CodedBack, Zenon
  <2> QED BY <2>1, <2>5, Zenon
<1>5. ASSUME NEW d \in Reports, v.data = base64_encode(d), v.len_data = Len(v.data) PROVE payload = d
  <2>1. coded = v.data
    BY <1>1, <1>5, CutSame, Zenon DEF coded
  <2>2. d \in Seq(Byte)
    BY ReportsTyped, Zenon
  <2>3. Cut(base64_decode(base64_encode(d)), base64_dec_len(base64_encode(d))) = d
    BY <2>2, EncodeIs, CodedBack, Zenon
  <2> QED BY <1>5, <2>1, <2>3, Zenon
<1> HIDE DEF payload
<1> QED BY <1>3, <1>4, <1>5, Zenon DEF Payload, payload, coded

\* The packets that are left are of a segment, and so are their commands.
TodoInv == ReadInv /\ \A k \in 1 .. Len(todo) : Payable(todo[k])

\* What a step may do to the statics and to the sender.
Goes ==
  /\ IrInv'
  /\ [TxNext]_txVars
  /\ rest = <<>> /\ rest' # <<>> /\ ~loose' => rest' \in Reports

LEMMA NextIdTyped == ASSUME NEW id \in Nat PROVE NextId(id) \in 1 .. IdSpan - 1 /\ NextId(id) \in Nat
<1>1. IdSpan \in Nat /\ IdSpan > 1
  BY MsgAssumption
<1> DEFINE r == (id + 1) % IdSpan
<1>2. r \in 0 .. IdSpan - 1
  BY <1>1
<1>3. NextId(id) = IF r = 0 THEN 1 ELSE r
  BY Zenon DEF NextId
<1> HIDE DEF r
<1> QED BY <1>1, <1>2, <1>3

\* A step that leaves both alone.
LEMMA StaysGoes ==
  ASSUME IrInv, message_id' \in Nat, UNCHANGED <<ir, loose, txVars>>
  PROVE  Goes
<1>1. ir' = ir /\ loose' = loose /\ txVars' = txVars /\ rest' = rest
  BY DEF txVars
<1>2. IrInv'
  <2>1. ir \in Statics /\ loose \in BOOLEAN /\ (~loose => Payload(ir))
    BY Zenon DEF IrInv, IrTyped
  <2>2. ir' \in Statics /\ loose' \in BOOLEAN
    BY <1>1, <2>1, Zenon
  <2>3. ASSUME ~loose' PROVE Payload(ir')
    <3>1. ~loose
      BY <1>1, <2>3
    <3>2. Payload(ir)
      BY <2>1, <3>1, Zenon
    <3> QED BY <1>1, <3>2, Zenon
  <2> QED BY <2>2, <2>3, Zenon DEF IrInv, IrTyped
<1> QED BY <1>1, <1>2, Zenon DEF Goes

\* A command that is carried out.
LEMMA CommandGoes ==
  ASSUME NEW v \in Statics, irCmdCallback(v)
  PROVE  /\ [TxNext]_txVars
         /\ rest = <<>> /\ rest' # <<>> /\ Payload(v) => rest' \in Reports
<1> DEFINE coded == Cut(v.data, v.len_data)
           payload == Cut(base64_decode(coded), base64_dec_len(coded))
           none == <<>>
<1>1. v.cmd \in Byte /\ v.id_cmd \in Byte
  BY StaticsAre, Zenon
<1>2. payload \in Payloads /\ (Payload(v) => payload = <<>> \/ payload \in Reports)
  BY SendsPayload, Zenon
<1>3. IF v.cmd = 1 THEN user_uart_packet_send(v.cmd, v.id_cmd, none)
      ELSE IF v.cmd = 3 THEN user_uart_packet_send(v.cmd, v.id_cmd, payload)
      ELSE UNCHANGED txVars
  BY Zenon DEF irCmdCallback
<1> HIDE DEF payload
<1>4. none \in Payloads
  BY EmptySeq, TxAssumption DEF Payloads
<1>5. ASSUME NEW d \in Payloads, user_uart_packet_send(v.cmd, v.id_cmd, d)
      PROVE  [TxNext]_txVars /\ (rest = <<>> => rest' = d)
  <2>1. [TxNext]_txVars
    BY <1>1, <1>5, Zenon DEF TxNext
  <2>2. ASSUME rest = <<>> PROVE rest' = d
    BY <1>5, <2>2, Zenon DEF user_uart_packet_send, is_uart_sending
  <2> QED BY <2>1, <2>2, Zenon
<1>6. CASE v.cmd = 1
  BY <1>3, <1>4, <1>5, <1>6, Zenon
<1>7. CASE v.cmd # 1 /\ v.cmd = 3
  BY <1>2, <1>3, <1>5, <1>7, Zenon
<1>8. CASE v.cmd # 1 /\ v.cmd # 3
  <2>1. txVars' = txVars
    BY <1>3, <1>8, Zenon
  <2>2. rest' = rest
    BY <2>1 DEF txVars
  <2> QED BY <2>1, <2>2, Zenon
<1> QED BY <1>6, <1>7, <1>8, Zenon

\* A text that is read.
LEMMA TextGoes ==
  ASSUME IrInv, NEW p \in BrokerPackets, Payable(p), IsPrefix(cmdTopic, p.topic),
         user_ir_json_parse(p.text), message_id' \in Nat
  PROVE  Goes
<1> DEFINE text == p.text
<1>1. text \in Seq(Int)
  BY BrokerIs, Zenon
<1>2. /\ ir' = ir_info_subscribed(ir, text)
      /\ loose' = IF GivesData(text) THEN ~GivesLength(text) ELSE GivesLength(text) \/ loose
      /\ irCmdCallback(ir')
  BY Zenon DEF user_ir_json_parse
<1>3. ir \in Statics /\ loose \in BOOLEAN /\ (~loose => Payload(ir))
  BY Zenon DEF IrInv, IrTyped
<1>9. GivesLength(text) => uint16(text[Wording + 4]) \in Lengths
  BY Zenon DEF Payable
<1>4. ir' \in Statics
  <2> HIDE DEF text
  <2> QED BY <1>1, <1>2, <1>3, <1>9, ParseTyped, Zenon
<1>5. loose' \in BOOLEAN
  <2>1. GivesLength(text) \in BOOLEAN
    BY Zenon DEF GivesLength
  <2>2. (GivesLength(text) \/ loose) \in BOOLEAN /\ (~GivesLength(text)) \in BOOLEAN
    BY Zenon
  <2> HIDE DEF text
  <2> QED BY <1>2, <2>2, Zenon
<1>6. ASSUME ~loose' PROVE Payload(ir')
  <2>1. GivesData(text) => GivesLength(text)
    BY <1>2, <1>6, Zenon
  <2>2. ~GivesData(text) => ~GivesLength(text) /\ ~loose
    BY <1>2, <1>6, Zenon
  <2>3. ~GivesData(text) => Payload(ir)
    BY <1>3, <2>2, Zenon
  <2>4. GivesData(text) => HasPayload(text)
    BY <2>1, Zenon DEF Payable
  <2>6. GivesLength(text) <=> GivesData(text)
    BY <2>1, <2>2, Zenon
  <2> HIDE DEF text
  <2>5. Payload(ir_info_subscribed(ir, text))
    BY <1>1, <1>3, <1>9, <2>3, <2>4, <2>6, ParsePayload, Zenon
  <2> QED BY <1>2, <2>5, Zenon
<1> HIDE DEF text
<1>7. /\ [TxNext]_txVars
      /\ rest = <<>> /\ rest' # <<>> /\ Payload(ir') => rest' \in Reports
  BY <1>2, <1>4, CommandGoes, Zenon
<1>8. IrInv'
  BY <1>4, <1>5, <1>6, Zenon DEF IrInv, IrTyped
<1> QED BY <1>6, <1>7, <1>8, Zenon DEF Goes

\* A report of the controller.
LEMMA ReportGoes ==
  ASSUME IrInv, NEW cmd \in {2, 3}, NEW id \in {0}, NEW d \in Reports, uartDataCallback(cmd, id, d)
  PROVE  Goes
<1> DEFINE e == base64_encode(d)
<1>1. ir \in Statics /\ message_id \in Nat
  BY Zenon DEF IrInv, IrTyped
<1>2. txVars' = txVars
  BY Zenon DEF uartDataCallback
<1>3. CASE cmd \in {2, 4}
  <2>1. ir' = user_ir_json_create(cmd, id, e) /\ loose' = FALSE /\ message_id' = NextId(message_id)
    BY <1>3, Zenon DEF uartDataCallback
  <2>2. e \in Seq(Int) /\ d \in Seq(Byte)
    BY ReportsTyped, EncodeTyped, Zenon
  <2> DEFINE n == Len(e)
  <2>3. n \in Lengths
    BY ReportsTyped, Zenon
  <2>4. ir' = [ir EXCEPT !.cmd = cmd, !.id_cmd = id, !.len_data = n, !.data = e]
    BY <2>1, Zenon DEF user_ir_json_create
  <2> HIDE DEF e, n
  <2>5. cmd \in Byte /\ id \in Byte
    BY DEF Byte
  <2>6. ir' \in Statics /\ ir'.len_data = n /\ ir'.data = e
    BY <1>1, <2>2, <2>3, <2>4, <2>5 DEF Statics
  <2>7. Payload(ir')
    BY <2>6, Zenon DEF Payload, e, n
  <2>8. message_id' \in Nat /\ loose' \in BOOLEAN
    BY <1>1, <2>1, NextIdTyped, Zenon
  <2>9. IrInv'
    BY <2>6, <2>7, <2>8, Zenon DEF IrInv, IrTyped
  <2>10. rest' = rest
    BY <1>2 DEF txVars
  <2> QED BY <1>2, <2>9, <2>10, Zenon DEF Goes
<1>4. CASE cmd \notin {2, 4}
  <2>1. ir' = ir /\ loose' = loose /\ message_id' = message_id
    BY <1>4, Zenon DEF uartDataCallback
  <2> QED BY <1>1, <1>2, <2>1, StaysGoes, Zenon
<1> QED BY <1>3, <1>4, Zenon

\* A change of the mode.
LEMMA ModeGoes == ASSUME IrInv, user_ir_cmd_init PROVE Goes
<1>1. ir \in Statics /\ message_id \in Nat /\ loose \in BOOLEAN
  BY Zenon DEF IrInv, IrTyped
<1>2. /\ ir' = [ir EXCEPT !.cmd = 0, !.id_cmd = 0, !.token = 0, !.len_data = 0]
      /\ mqttVars' = mqttVars /\ loose' = loose /\ txVars' = txVars
  BY Zenon DEF user_ir_cmd_init
<1>3. ir' \in Statics /\ ir'.len_data = 0
  <2>1. 0 \in Byte /\ 0 \in Nat /\ 0 \in Lengths
    BY NoLength DEF Byte
  <2> QED BY <1>1, <1>2, <2>1 DEF Statics
<1>4. message_id' = message_id /\ rest' = rest
  BY <1>2 DEF mqttVars, txVars
<1>6. Payload(ir')
  BY <1>3, Zenon DEF Payload
<1>5. IrInv'
  BY <1>1, <1>2, <1>3, <1>4, <1>6, Zenon DEF IrInv, IrTyped
<1> QED BY <1>2, <1>4, <1>5, Zenon DEF Goes

LEMMA TodoInvHolds == Spec => []TodoInv
<1>1. Init => \A k \in 1 .. Len(todo) : Payable(todo[k])
  <2> SUFFICES ASSUME Init PROVE \A k \in 1 .. Len(todo) : Payable(todo[k])
    OBVIOUS
  <2>1. todo = <<>>
    BY Zenon DEF Init
  <2>2. 1 .. Len(<<>>) = {}
    OBVIOUS
  <2> QED BY <2>1, <2>2, Zenon
<1>2. ASSUME ReadInv, \A k \in 1 .. Len(todo) : Payable(todo[k]), [Next]_vars
      PROVE  (\A k \in 1 .. Len(todo) : Payable(todo[k]))'
  <2>0. ASSUME todo' = todo PROVE (\A k \in 1 .. Len(todo) : Payable(todo[k]))'
    BY <1>2, <2>0, Zenon
  <2>1. ASSUME todo' = <<>> PROVE (\A k \in 1 .. Len(todo) : Payable(todo[k]))'
    <3>1. 1 .. Len(<<>>) = {}
      OBVIOUS
    <3> QED BY <2>1, <3>1, Zenon
  <2>2. CASE UNCHANGED vars
    BY <2>0, <2>2, Zenon DEF vars, mqttVars
  <2>3. CASE mqtt_tcpclient_connect_cb \/ mqtt_tcpclient_discon_cb
    BY <2>0, <2>3, Zenon DEF mqtt_tcpclient_connect_cb, mqtt_tcpclient_discon_cb
  <2>4. CASE mqtt_tcpclient_recv
    <3>1. PICK s \in Segments : todo' = s
      BY <2>4, Zenon DEF mqtt_tcpclient_recv
    <3> QED BY <3>1, PayloadAssumption, Zenon
  <2>5. CASE ReadData
    <3>1. CASE ReadOther
      BY <2>1, <3>1, Zenon DEF ReadOther, Done
    <3>2. CASE ReadPublish
      <4>1. todo' = Tail(todo) \/ todo' = <<>>
        BY <3>2, Zenon DEF ReadPublish, Done
      <4>2. pdata # <<>>
        BY <2>5, Zenon DEF ReadData
      <4>3. CASE todo' = Tail(todo)
        <5>1. todo \in Seq(BrokerPackets) /\ todo # <<>>
          BY <1>2, <4>2, NothingOnWire, Zenon DEF ReadInv
        <5>2. Len(Tail(todo)) = Len(todo) - 1 /\ Len(todo) \in Nat /\ \A i \in 1 .. Len(Tail(todo)) : Tail(todo)[i] = todo[i + 1]
          BY <5>1, HeadTailProperties, LenProperties
        <5>3. ASSUME NEW k \in 1 .. Len(Tail(todo)) PROVE Payable(Tail(todo)[k])
          <6>1. k + 1 \in 1 .. Len(todo)
            BY <5>2
          <6>2. Tail(todo)[k] = todo[k + 1]
            BY <5>2, Zenon
          <6> QED BY <1>2, <6>1, <6>2, Zenon
        <5> QED BY <4>3, <5>3, Zenon
      <4> QED BY <2>1, <4>1, <4>3, Zenon
    <3> QED BY <2>5, <3>1, <3>2, Zenon DEF ReadData
  <2>6. CASE ReadAnswer \/ TooLong
    BY <2>1, <2>6, Zenon DEF ReadAnswer, TooLong, Done
  <2>7. ASSUME NEW cmd, NEW id, NEW d, uartDataCallback(cmd, id, d)
        PROVE  (\A k \in 1 .. Len(todo) : Payable(todo[k]))'
    BY <2>0, <2>7, Zenon DEF uartDataCallback
  <2>8. CASE user_ir_cmd_init \/ Timer \/ Line
    BY <2>0, <2>8, Zenon DEF user_ir_cmd_init, Timer, Line, mqttVars
  <2> QED BY <1>2, <2>2, <2>3, <2>4, <2>5, <2>6, <2>7, <2>8, Zenon DEF Next, ReadPacket
<1> QED BY <1>1, <1>2, ReadInvHolds, PTL DEF Spec, TodoInv

\* A publication of a segment.
LEMMA PublicationGoes ==
  ASSUME TodoInv, IrInv, pdata # <<>>, Len(pdata) < BufSize, ReadPublish
  PROVE  Goes
<1> DEFINE p == Head(todo)
           t == OnWire(Tail(todo))
<1>1. todo \in Seq(BrokerPackets) /\ pdata = OnWire(todo) /\ \A k \in 1 .. Len(todo) : Payable(todo[k])
  BY Zenon DEF TodoInv, ReadInv
<1>2. todo # <<>>
  BY <1>1, NothingOnWire, Zenon
<1>3. p \in BrokerPackets /\ t \in Seq(Int) /\ pdata = Wire(p) \o t
  BY <1>1, <1>2, WireHead, Zenon
<1>4. Payable(p)
  <2>1. p = todo[1] /\ 1 \in 1 .. Len(todo)
    <3>1. Len(todo) \in Nat /\ Len(todo) # 0
      BY <1>1, <1>2, EmptySeq
    <3> QED BY <1>1, <1>2, <3>1, HeadTailProperties
  <2> HIDE DEF p
  <2> QED BY <1>1, <2>1, Zenon
<1> HIDE DEF p, t
<1>5. mqtt_get_type(pdata) = Type.PUBLISH /\ mqtt_get_type(pdata) = p.type
  BY <1>3, FrontIs, Zenon DEF ReadPublish
<1>6. mqtt_get_publish_topic(pdata) = p.topic /\ mqtt_get_publish_data(pdata) = p.text
  <2>1. p.type = Type.PUBLISH
    BY <1>5, Zenon
  <2> QED BY <1>3, <2>1, FrontSays, Zenon
<1>7. \E response, acknowledged : mqttDataCb(p.topic, p.text, response, acknowledged)
  BY <1>6, Zenon DEF ReadPublish
<1>8. PICK response, acknowledged : mqttDataCb(p.topic, p.text, response, acknowledged)
  BY <1>7
<1>9. message_id \in Nat
  BY Zenon DEF IrInv, IrTyped
<1>10. CASE IsPrefix(statusTopic, p.topic)
  <2>1. message_id' = NextId(NextId(message_id)) /\ UNCHANGED <<ir, loose, txVars>>
    BY <1>8, <1>10, Zenon DEF mqttDataCb
  <2>2. message_id' \in Nat
    BY <1>9, <2>1, NextIdTyped, Zenon
  <2> QED BY <2>1, <2>2, StaysGoes, Zenon
<1>11. CASE ~IsPrefix(statusTopic, p.topic)
  <2>1. /\ message_id' = message_id
        /\ IF IsPrefix(cmdTopic, p.topic) THEN user_ir_json_parse(p.text) ELSE UNCHANGED <<ir, loose, txVars>>
    BY <1>8, <1>11, Zenon DEF mqttDataCb
  <2>2. message_id' \in Nat
    BY <1>9, <2>1, Zenon
  <2>3. CASE IsPrefix(cmdTopic, p.topic)
    BY <1>3, <1>4, <2>1, <2>2, <2>3, TextGoes, Zenon
  <2>4. CASE ~IsPrefix(cmdTopic, p.topic)
    BY <2>1, <2>2, <2>4, StaysGoes, Zenon
  <2> QED BY <2>3, <2>4, Zenon
<1> QED BY <1>10, <1>11, Zenon

LEMMA StepGoes == ASSUME TodoInv, IrInv, [Next]_vars PROVE Goes
<1>1. message_id \in Nat
  BY Zenon DEF IrInv, IrTyped
<1>2. ASSUME message_id' = message_id, UNCHANGED <<ir, loose, txVars>> PROVE Goes
  <2>1. message_id' \in Nat
    BY <1>1, <1>2, Zenon
  <2> QED BY <1>2, <2>1, StaysGoes, Zenon
<1>3. CASE UNCHANGED vars
  BY <1>2, <1>3, Zenon DEF vars, mqttVars
<1>4. CASE mqtt_tcpclient_connect_cb
  <2>1. message_id' = 0 /\ UNCHANGED <<ir, loose, txVars>>
    BY <1>4, Zenon DEF mqtt_tcpclient_connect_cb
  <2>2. message_id' \in Nat
    BY <2>1
  <2> QED BY <2>1, <2>2, StaysGoes, Zenon
<1>5. CASE mqtt_tcpclient_discon_cb
  <2>1. message_id' = NextId(message_id) /\ UNCHANGED <<ir, loose, txVars>>
    BY <1>5, Zenon DEF mqtt_tcpclient_discon_cb, mqttDisconnectedCb
  <2>2. message_id' \in Nat
    BY <1>1, <2>1, NextIdTyped, Zenon
  <2> QED BY <2>1, <2>2, StaysGoes, Zenon
<1>6. CASE mqtt_tcpclient_recv
  BY <1>2, <1>6, Zenon DEF mqtt_tcpclient_recv
<1>7. CASE ReadData
  <2>1. CASE ReadPublish
    BY <1>7, <2>1, PublicationGoes, Zenon DEF ReadData
  <2>2. CASE ReadOther
    BY <1>2, <2>2, Zenon DEF ReadOther
  <2> QED BY <1>7, <2>1, <2>2, Zenon DEF ReadData
<1>8. CASE ReadAnswer
  <2>1. UNCHANGED <<ir, loose, txVars>>
    BY <1>8, Zenon DEF ReadAnswer
  <2>2. message_id' = message_id \/ message_id' = NextId(NextId(NextId(message_id)))
    BY <1>8, Zenon DEF ReadAnswer, mqttConnectedCb
  <2>3. message_id' \in Nat
    BY <1>1, <2>2, NextIdTyped, Zenon
  <2> QED BY <2>1, <2>3, StaysGoes, Zenon
<1>9. CASE TooLong
  BY <1>2, <1>9, Zenon DEF TooLong
<1>10. CASE \E cmd \in {2, 3}, id \in {0}, d \in Reports : uartDataCallback(cmd, id, d)
  BY <1>10, ReportGoes, Zenon
<1>11. CASE user_ir_cmd_init
  BY <1>11, ModeGoes, Zenon
<1>12. CASE Timer \/ Line
  <2>1. ir' = ir /\ loose' = loose /\ message_id' = message_id /\ (tx_timeoutfunc \/ Drain)
    BY <1>12, Zenon DEF Timer, Line, mqttVars
  <2>2. IrInv'
    <3>1. ir \in Statics /\ loose \in BOOLEAN /\ (~loose => Payload(ir))
      BY Zenon DEF IrInv, IrTyped
    <3>2. ir' \in Statics /\ loose' \in BOOLEAN /\ message_id' \in Nat
      BY <1>1, <2>1, <3>1, Zenon
    <3>3. ASSUME ~loose' PROVE Payload(ir')
      <4>1. ~loose
        BY <2>1, <3>3
      <4>2. Payload(ir)
        BY <3>1, <4>1, Zenon
      <4> QED BY <2>1, <4>2, Zenon
    <3> QED BY <3>2, <3>3, Zenon DEF IrInv, IrTyped
  <2>3. ~(rest = <<>> /\ rest' # <<>>)
    BY <2>1, Zenon DEF tx_timeoutfunc, Drain, is_uart_sending
  <2>4. [TxNext]_txVars
    BY <2>1, Zenon DEF TxNext
  <2> QED BY <2>2, <2>3, <2>4, Zenon DEF Goes
<1> QED BY <1>3, <1>4, <1>5, <1>6, <1>7, <1>8, <1>9, <1>10, <1>11, <1>12, Zenon DEF Next, ReadPacket

LEMMA IrInvHolds == Spec => []IrInv
<1>1. Init => IrInv
  <2> SUFFICES ASSUME Init PROVE IrInv
    OBVIOUS
  <2>1. /\ message_id = 0 /\ loose = FALSE
        /\ ir = [cmd |-> 0, id_cmd |-> 0, token |-> 0, len_data |-> 0, data |-> <<>>]
    BY Zenon DEF Init
  <2>2. 0 \in Byte /\ 0 \in Nat /\ 0 \in Lengths /\ <<>> \in Seq(Int)
    BY NoLength DEF Byte
  <2>3. ir \in Statics /\ ir.len_data = 0
    BY <2>1, <2>2 DEF Statics
  <2>4. message_id \in Nat /\ loose \in BOOLEAN
    BY <2>1
  <2>5. Payload(ir)
    BY <2>3, Zenon DEF Payload
  <2> QED BY <2>3, <2>4, <2>5, Zenon DEF IrInv, IrTyped
<1>2. TodoInv /\ IrInv /\ [Next]_vars => IrInv'
  <2>1. Goes => IrInv'
    BY Zenon DEF Goes
  <2> QED BY <2>1, StepGoes, Zenon
<1> QED BY <1>1, <1>2, TodoInvHolds, PTL DEF Spec

\* The way of a command implements the sender of IrUart: whatever the broker and the
\* controller send, the sender is given bytes, and moves as it does on its own.
THEOREM GatewayIsTx == Spec => TxSpec
<1>1. Init => InitTx
  BY Zenon DEF Init
<1>2. TodoInv /\ IrInv /\ [Next]_vars => [TxNext]_txVars
  <2>1. Goes => [TxNext]_txVars
    BY Zenon DEF Goes
  <2> QED BY <2>1, StepGoes, Zenon
<1> QED BY <1>1, <1>2, TodoInvHolds, IrInvHolds, PTL DEF Spec, TxSpec

\* So the controller sees whole packets, with a broker's commands (user_uart.c:64-129, user_main.c:174-195).
THEOREM GatewayWholePackets == Spec => []WholePackets
BY GatewayIsTx, TxWholePackets, PTL

\* What the controller is sent is a payload that was coded whole, as long as commands
\* give length and data together (user_ir.c:117-131, 184-191).
THEOREM GatewayWholePayloads == Spec => WholePayloads
<1>1. TodoInv /\ IrInv /\ [Next]_vars => [ rest = <<>> /\ rest' # <<>> /\ ~loose' => rest' \in Reports ]_vars
  <2>1. Goes => (rest = <<>> /\ rest' # <<>> /\ ~loose' => rest' \in Reports)
    BY Zenon DEF Goes
  <2> QED BY <2>1, StepGoes, Zenon
<1> QED BY <1>1, TodoInvHolds, IrInvHolds, PTL DEF Spec, WholePayloads

-----------------------------------------------------------------------------
\* Packets as they are made.

\* The body of a packet is what m says, with id for an identifier of its own.
Tells(body, m, id) ==
  /\ m.before \in Seq(Int) /\ m.after \in Seq(Int)
  /\ id \in Nat /\ id \in IF m.id = Own THEN 1 .. IdSpan - 1 ELSE {m.id}
  /\ body = m.before \o Number(id) \o m.after

Fits(m) ==
  MQTT_MAX_FIXED_HEADER_SIZE + Len(m.before) + Len(m.after) + (IF m.id = None THEN 0 ELSE 2) <= BufSize

\* A packet that fits says m, and one that does not fails.
Built(b, m) == IF Fits(m) THEN Means(b, m) /\ b # fail_message ELSE b = fail_message

LEMMA BodyTold ==
  ASSUME NEW body, NEW m, NEW id, Tells(body, m, id)
  PROVE  /\ body \in Seq(Int)
         /\ Fits(m) <=> MQTT_MAX_FIXED_HEADER_SIZE + Len(body) <= BufSize
<1> DEFINE before == m.before
           after == m.after
           number == Number(id)
           i == Len(before)
           j == Len(after)
<1>1. before \in Seq(Int) /\ after \in Seq(Int) /\ id \in Nat /\ body = before \o number \o after
  BY Zenon DEF Tells
<1>2. number \in Seq(Int) /\ Len(number) = IF id = None THEN 0 ELSE 2
  BY <1>1, NumberIs, Zenon
<1>3. id = None <=> m.id = None
  <2>1. id \in IF m.id = Own THEN 1 .. IdSpan - 1 ELSE {m.id}
    BY Zenon DEF Tells
  <2>2. 0 \notin 1 .. IdSpan - 1 /\ Own # None
    BY MsgAssumption DEF Own, None
  <2>3. CASE m.id = Own
    BY <2>1, <2>2, <2>3, Zenon DEF None
  <2>4. CASE m.id # Own
    BY <2>1, <2>4, Zenon
  <2> QED BY <2>3, <2>4, Zenon
<1> HIDE DEF before, after, number
<1>4. body \in Seq(Int) /\ Len(body) = i + Len(number) + j
  <2>1. (before \o number) \o after \in Seq(Int) /\ Len((before \o number) \o after) = i + Len(number) + j
    <3>1. before \in Seq(Int) /\ after \in Seq(Int) /\ number \in Seq(Int)
      BY <1>1, <1>2, Zenon
    <3> QED BY <3>1, ThreeAt, Zenon
  <2> QED BY <1>1, <2>1, Zenon
<1>5. i \in Nat /\ j \in Nat /\ BufSize \in Nat
  BY <1>1, LenProperties, MsgAssumption
<1>6. Len(body) = i + j + (IF m.id = None THEN 0 ELSE 2)
  <2> HIDE DEF i, j
  <2>1. CASE id = None
    BY <1>2, <1>3, <1>4, <1>5, <2>1
  <2>2. CASE id # None
    BY <1>2, <1>3, <1>4, <1>5, <2>2
  <2> QED BY <2>1, <2>2
<1>7. Fits(m) <=> MQTT_MAX_FIXED_HEADER_SIZE + i + j + (IF m.id = None THEN 0 ELSE 2) <= BufSize
  BY Zenon DEF Fits, before, after
<1> HIDE DEF i, j
<1> QED BY <1>4, <1>5, <1>6, <1>7 DEF MQTT_MAX_FIXED_HEADER_SIZE

\* The length of a body is written as MQTT defines it.
LEMMA FieldIs == ASSUME NEW n \in Nat PROVE LengthField(n) = Remaining(n)
<1>1. n > Digit - 1 <=> ~(n < Digit)
  BY MsgAssumption
<1> QED BY <1>1, Zenon DEF LengthField, Remaining

\* Every packet that is made of a body says what the body says.
LEMMA MessageBuilt ==
  ASSUME NEW type \in Nat, NEW qos \in Nat, NEW retain \in Nat, NEW body, NEW m, NEW id,
         m.first = 16 * type + 2 * qos + retain, Tells(body, m, id)
  PROVE  Built(fini_message(type, qos, retain, body), m)
<1> DEFINE x == 16 * type + 2 * qos + retain
           n == Len(body)
           none == <<>>
           b == InFront(x, body, none)
           made == fini_message(type, qos, retain, body)
<1>1. body \in Seq(Int) /\ (Fits(m) <=> MQTT_MAX_FIXED_HEADER_SIZE + n <= BufSize)
  BY BodyTold, Zenon
<1>2. n \in Nat /\ BufSize \in Nat /\ Digit \in Nat
  BY <1>1, LenProperties, MsgAssumption
<1>3. x \in Int
  OBVIOUS
<1>4. made = IF MQTT_MAX_FIXED_HEADER_SIZE + n > BufSize THEN fail_message
             ELSE <<x>> \o LengthField(n) \o body
  BY Zenon DEF fini_message
<1>5. m.first = x
  BY Zenon
<1> HIDE DEF x, n, b, made
<1>6. CASE ~Fits(m)
  <2>1. MQTT_MAX_FIXED_HEADER_SIZE + n > BufSize
    BY <1>1, <1>2, <1>6 DEF MQTT_MAX_FIXED_HEADER_SIZE
  <2> QED BY <1>4, <1>6, <2>1, Zenon DEF Built, made
<1>7. CASE Fits(m)
  <2>1. ~(MQTT_MAX_FIXED_HEADER_SIZE + n > BufSize) /\ n < BufSize
    BY <1>1, <1>2, <1>7 DEF MQTT_MAX_FIXED_HEADER_SIZE
  <2>2. Short(n)
    <3> DEFINE y == Digit * Digit
    <3>1. BufSize <= y
      BY IrGatewayAssumption
    <3>2. y \in Nat
      BY <1>2
    <3> HIDE DEF y
    <3>3. n < y
      BY <1>2, <2>1, <3>1, <3>2
    <3> QED BY <3>3, Zenon DEF Short, y
  <2>3. none \in Seq(Int) /\ Len(none) = 0
    BY EmptySeq
  <2>4. PICK d \in 1 .. 2 : Framed(b, x, body, none, d)
    BY <1>1, <1>3, <2>2, <2>3, IsFramed, Zenon DEF b, n
  <2>5. /\ b \in Seq(Int) /\ Len(b) = d + 1 + n + Len(none) /\ b[1] = x
        /\ \A i \in 2 .. d : b[i] >= Digit
        /\ b[d + 1] < Digit /\ (d > 1 => b[d + 1] # 0)
        /\ Digits(b, d) = n
        /\ \A i \in 1 .. n : b[d + 1 + i] = body[i]
    BY <2>4, Zenon DEF Framed, n
  <2>6. made = b
    <3> DEFINE s == <<x>> \o Remaining(n) \o body
    <3>1. made = s
      BY <1>2, <1>4, <2>1, FieldIs, Zenon
    <3>2. b = s \o none
      BY Zenon DEF b, InFront, n
    <3>3. s \in Seq(Int)
      <4>1. PICK k \in 1 .. 2 : Heads(<<x>> \o Remaining(n), x, n, k)
        BY <1>2, <1>3, <2>2, HeadIs, Zenon
      <4>2. <<x>> \o Remaining(n) \in Seq(Int)
        BY <4>1, Zenon DEF Heads
      <4> QED BY <1>1, <4>2, ConcatProperties
    <3> HIDE DEF s
    <3>4. s \o none = s
      BY <3>3, ConcatEmptySeq
    <3> QED BY <3>1, <3>2, <3>4, Zenon
  <2>7. Len(b) = d + 1 + n
    <3> HIDE DEF none
    <3> QED BY <1>2, <2>3, <2>5
  <2>8. SubSeq(b, d + 2, Len(b)) = body
    <3> DEFINE o == d + 1
    <3>1. o \in Nat /\ o + Len(body) <= Len(b) /\ o + 1 = d + 2 /\ o + Len(body) = Len(b)
      BY <1>2, <2>7 DEF n
    <3>2. \A i \in 1 .. Len(body) : b[o + i] = body[i]
      BY <2>5, Zenon DEF n
    <3> HIDE DEF o
    <3>3. SubSeq(b, o + 1, o + Len(body)) = body
      BY <1>1, <2>5, <3>1, <3>2, CutsOut, Zenon
    <3> QED BY <3>1, <3>3, Zenon
  <2>9. d \in 1 .. 4 /\ d < Len(b) /\ Len(b) - d - 1 = Digits(b, d) /\ Len(b) # 0
    BY <1>2, <2>5, <2>7
  <2>10. Means(b, m)
    <3>1. /\ id \in IF m.id = Own THEN 1 .. IdSpan - 1 ELSE {m.id}
          /\ body = m.before \o Number(id) \o m.after
      BY Zenon DEF Tells
    <3> QED BY <1>5, <2>5, <2>8, <2>9, <3>1, Zenon DEF Means
  <2>11. b # fail_message
    BY <2>3, <2>9, Zenon DEF fail_message
  <2> QED BY <1>7, <2>6, <2>10, <2>11, Zenon DEF Built, made
<1> QED BY <1>6, <1>7, Zenon DEF made

\* An identifier that the device chooses is written as two bytes.
LEMMA OwnIs ==
  ASSUME NEW id \in 1 .. IdSpan - 1
  PROVE  id \in Nat /\ id # None /\ Number(id) = Bytes2(id) /\ Bytes2(id) \in Seq(Int)
<1>1. id \in Nat /\ id # None
  BY MsgAssumption DEF None
<1> QED BY <1>1, TwoBytes, Zenon DEF Number

\* A packet of an identifier of the device's own and what is behind it,
LEMMA OwnTold ==
  ASSUME NEW x, NEW id \in 1 .. IdSpan - 1, NEW text \in Seq(Int)
  PROVE  Tells(Bytes2(id) \o text, Says(x, <<>>, Own, text), id)
<1> DEFINE m == Says(x, <<>>, Own, text)
           none == <<>>
           number == Bytes2(id)
<1>1. m.before = none /\ m.after = text /\ m.id = Own
  BY DEF Says
<1>2. id \in Nat /\ Number(id) = number /\ number \in Seq(Int)
  BY OwnIs, Zenon
<1>3. none \in Seq(Int)
  BY EmptySeq
<1> HIDE DEF m, none, number
<1>4. none \o number = number
  BY <1>2, ConcatEmptySeq DEF none
<1>5. number \o text = m.before \o Number(id) \o m.after
  BY <1>1, <1>2, <1>4, Zenon
<1> QED BY <1>1, <1>2, <1>3, <1>5, Zenon DEF Tells, m, number

LEMMA SubscribeBuilt ==
  ASSUME NEW topic \in Seq(Int), topic # <<>>, NEW id \in 1 .. IdSpan - 1
  PROVE  Built(mqtt_msg_subscribe(topic, 0, id), Subscription(topic))
<1> DEFINE number == Bytes2(id)
           s == append_string(topic)
           zero == <<0>>
           body == number \o s \o zero
           text == s \o zero
           m == Says(16 * Type.SUBSCRIBE + 2, <<>>, Own, text)
<1>1. number \in Seq(Int) /\ s \in Seq(Int) /\ zero \in Seq(Int)
  <2>1. zero \in Seq(Int)
    OBVIOUS
  <2> QED BY <2>1, OwnIs, StringIs, Zenon
<1>2. mqtt_msg_subscribe(topic, 0, id) = fini_message(Type.SUBSCRIBE, 1, 0, body) /\ Subscription(topic) = m
  BY Zenon DEF mqtt_msg_subscribe, Subscription
<1>3. Type.SUBSCRIBE \in Nat /\ m.first = 16 * Type.SUBSCRIBE + 2 * 1 + 0
  BY DEF Type, Says
<1> HIDE DEF m, number, s, zero
<1>4. body = number \o text /\ text \in Seq(Int)
  <2>1. (number \o s) \o zero = number \o (s \o zero)
    BY <1>1, JoinsAgain, ZenonT(30)
  <2>2. s \o zero \in Seq(Int)
    BY <1>1, ConcatProperties
  <2> QED BY <2>1, <2>2, Zenon
<1>5. Tells(body, m, id)
  BY <1>4, OwnTold, Zenon DEF m, number
<1> HIDE DEF body
<1> DEFINE q == 1
           r == 0
<1>6. q \in Nat /\ r \in Nat
  OBVIOUS
<1>7. m.first = 16 * Type.SUBSCRIBE + 2 * q + r
  BY <1>3
<1> HIDE DEF q, r
<1>8. Built(fini_message(Type.SUBSCRIBE, q, r, body), m)
  BY <1>3, <1>5, <1>6, <1>7, MessageBuilt, Zenon
<1> QED BY <1>2, <1>8, Zenon DEF q, r

LEMMA UnsubscribeBuilt ==
  ASSUME NEW topic \in Seq(Int), topic # <<>>, NEW id \in 1 .. IdSpan - 1
  PROVE  Built(mqtt_msg_unsubscribe(topic, id), Says(16 * Type.UNSUBSCRIBE + 2, <<>>, Own, append_string(topic)))
<1> DEFINE s == append_string(topic)
           body == Bytes2(id) \o s
           m == Says(16 * Type.UNSUBSCRIBE + 2, <<>>, Own, s)
           q == 1
           r == 0
<1>1. mqtt_msg_unsubscribe(topic, id) = fini_message(Type.UNSUBSCRIBE, q, r, body)
  BY Zenon DEF mqtt_msg_unsubscribe
<1>2. s \in Seq(Int)
  BY StringIs, Zenon
<1>3. Tells(body, m, id)
  BY <1>2, OwnTold, Zenon
<1>4. Type.UNSUBSCRIBE \in Nat /\ m.first = 16 * Type.UNSUBSCRIBE + 2 * q + r /\ q \in Nat /\ r \in Nat
  BY DEF Type, Says
<1> HIDE DEF s, body, m, q, r
<1>5. Built(fini_message(Type.UNSUBSCRIBE, q, r, body), m)
  BY <1>3, <1>4, MessageBuilt, Zenon
<1> QED BY <1>1, <1>5, Zenon DEF m, s

\* a publication of quality 2,
LEMMA PublishBuilt ==
  ASSUME NEW topic \in Seq(Int), topic # <<>>, NEW text \in Seq(Int), NEW retain \in Nat, NEW id \in 1 .. IdSpan - 1
  PROVE  Built(mqtt_msg_publish(topic, text, 2, retain, id), Publication(topic, text, retain))
<1> DEFINE s == append_string(topic)
           body == s \o Bytes2(id) \o text
           m == Says(16 * Type.PUBLISH + 4 + retain, s, Own, text)
           q == 2
<1>1. mqtt_msg_publish(topic, text, 2, retain, id) = fini_message(Type.PUBLISH, q, retain, body)
  <2>1. 2 > 0
    OBVIOUS
  <2> QED BY <2>1, Zenon DEF mqtt_msg_publish
<1>2. s \in Seq(Int)
  BY StringIs, Zenon
<1>3. Publication(topic, text, retain) = m
  BY Zenon DEF Publication
<1>4. Type.PUBLISH \in Nat /\ m.first = 16 * Type.PUBLISH + 2 * q + retain /\ q \in Nat
  BY DEF Type, Says
<1>5. m.before = s /\ m.after = text /\ m.id = Own
  BY DEF Says
<1> HIDE DEF m, q, s
<1>6. Tells(body, m, id)
  BY <1>2, <1>5, OwnIs, Zenon DEF Tells
<1> HIDE DEF body
<1>7. Built(fini_message(Type.PUBLISH, q, retain, body), m)
  BY <1>4, <1>6, MessageBuilt, Zenon
<1> QED BY <1>1, <1>3, <1>7, Zenon

\* an answer with the identifier of what it answers,
LEMMA AckBuilt ==
  ASSUME NEW type \in Nat, NEW qos \in Nat, NEW id \in Nat, id # None
  PROVE  Built(fini_message(type, qos, 0, Bytes2(id)), Ack(type, qos, id))
<1> DEFINE m == Says(16 * type + 2 * qos, <<>>, id, <<>>)
           body == Bytes2(id)
           r == 0
           none == <<>>
<1>1. Ack(type, qos, id) = m
  BY Zenon DEF Ack
<1>2. m.before = none /\ m.after = none /\ m.id = id /\ m.first = 16 * type + 2 * qos
  BY DEF Says
<1>3. m.first = 16 * type + 2 * qos + r /\ r \in Nat
  <2> HIDE DEF m
  <2> QED BY <1>2
<1>4. none \in Seq(Int) /\ body \in Seq(Int) /\ Number(id) = body
  BY EmptySeq, TwoBytes, Zenon DEF Number
<1>5. id # Own
  BY DEF Own
<1> HIDE DEF m, body, none, r
<1>6. none \o body = body /\ body \o none = body
  BY <1>4, ConcatEmptySeq DEF none
<1>7. body = m.before \o Number(id) \o m.after
  BY <1>2, <1>4, <1>6, Zenon
<1>8. id \in IF m.id = Own THEN 1 .. IdSpan - 1 ELSE {m.id}
  BY <1>2, <1>5, Zenon
<1>9. Tells(body, m, id)
  BY <1>2, <1>4, <1>7, <1>8, Zenon DEF Tells
<1>10. Built(fini_message(type, qos, r, body), m)
  BY <1>3, <1>9, MessageBuilt, Zenon
<1> QED BY <1>1, <1>10, Zenon DEF r, body

\* and the answer to a PINGREQ.
LEMMA PingrespBuilt == Built(mqtt_msg_pingresp, Ack(Type.PINGRESP, 0, None))
<1> DEFINE none == <<>>
           q == 0
           m == Says(16 * Type.PINGRESP + 2 * q, none, None, none)
<1>1. mqtt_msg_pingresp = fini_message(Type.PINGRESP, q, q, none) /\ Ack(Type.PINGRESP, 0, None) = m
  BY Zenon DEF mqtt_msg_pingresp, Ack
<1>2. m.before = none /\ m.after = none /\ m.id = None
  BY DEF Says
<1>3. Type.PINGRESP \in Nat /\ m.first = 16 * Type.PINGRESP + 2 * q + q /\ q \in Nat
  BY DEF Type, Says
<1>4. none \in Seq(Int) /\ Number(None) = none /\ None \in Nat /\ None # Own
  <2>1. None \in Nat /\ None # Own /\ none \in Seq(Int)
    BY DEF None, Own
  <2> QED BY <2>1, Zenon DEF Number
<1> HIDE DEF m, none, q
<1>5. none \o none = none
  BY <1>4, ConcatEmptySeq DEF none
<1>6. none = m.before \o Number(None) \o m.after
  BY <1>2, <1>4, <1>5, Zenon
<1>7. None \in IF m.id = Own THEN 1 .. IdSpan - 1 ELSE {m.id}
  BY <1>2, <1>4, Zenon
<1>8. Tells(none, m, None)
  BY <1>2, <1>4, <1>6, <1>7, Zenon DEF Tells
<1>9. Built(fini_message(Type.PINGRESP, q, q, none), m)
  BY <1>3, <1>8, MessageBuilt, Zenon
<1> QED BY <1>1, <1>9, Zenon

LEMMA InfoIs ==
  /\ Info.client_id \in Seq(Int) /\ Info.client_id # <<>>
  /\ Info.will_topic \in Seq(Int) /\ Info.will_topic # <<>>
  /\ Info.will_message \in Seq(Int) /\ Info.username \in Seq(Int) /\ Info.password \in Seq(Int)
  /\ Info.keepalive \in Nat
  /\ Info.clean_session = TRUE /\ Info.will_retain = TRUE /\ Info.will_qos = 2
BY IrGatewayAssumption

\* The packet that a session begins with.
LEMMA ConnectBuilt == Built(mqtt_msg_connect(Info), Connection(Info))
<1> DEFINE given(s) == IF s = <<>> THEN <<>> ELSE append_string(s)
           user == IF Info.username = <<>> THEN 0 ELSE 128
           pass == IF Info.password = <<>> THEN 0 ELSE 64
           flags == 2 + 4 + 16 + 32 + user + pass
           kept == Bytes2(Info.keepalive)
           client == append_string(Info.client_id)
           topic == append_string(Info.will_topic)
           message == append_string(Info.will_message)
           fixed == <<0, 6, 77, 81, 73, 115, 100, 112, 3, flags>>
           before == fixed \o kept \o client \o topic \o message
                     \o given(Info.username) \o given(Info.password)
           none == <<>>
           m == Says(16 * Type.CONNECT, before, None, none)
           head == <<0, 6, 77, 81, 73, 115, 100, 112, 3>>
           body == head \o <<flags>> \o kept \o client \o (topic \o message)
                   \o given(Info.username) \o given(Info.password)
<1>1. Connection(Info) = m
  BY Zenon DEF Connection
<1>2. user \in Nat /\ pass \in Nat /\ flags \in Nat
  OBVIOUS
<1>3. mqtt_msg_connect(Info) = fini_message(Type.CONNECT, 0, 0, body)
  <2> DEFINE flag(c, n) == IF c THEN n ELSE 0
             made == flag(Info.clean_session, 2) + flag(Info.username # <<>>, 128) + flag(Info.password # <<>>, 64)
                     + flag(Info.will_topic # <<>>, 4 + flag(Info.will_retain, 32) + 8 * Info.will_qos)
             optional(s) == IF s # <<>> THEN append_string(s) ELSE <<>>
             text == head \o <<made>> \o kept \o client
                     \o (IF Info.will_topic # <<>> THEN topic \o message ELSE <<>>)
                     \o optional(Info.username) \o optional(Info.password)
  <2>1. mqtt_msg_connect(Info) = fini_message(Type.CONNECT, 0, 0, text)
    BY InfoIs, Zenon DEF mqtt_msg_connect
  <2>2. made = flags
    <3>1. /\ flag(Info.clean_session, 2) = 2 /\ flag(Info.username # <<>>, 128) = user
          /\ flag(Info.password # <<>>, 64) = pass /\ flag(Info.will_retain, 32) = 32
      BY InfoIs, Zenon
    <3>2. flag(Info.will_topic # <<>>, 4 + flag(Info.will_retain, 32) + 8 * Info.will_qos)
          = 4 + flag(Info.will_retain, 32) + 8 * Info.will_qos
      BY InfoIs, Zenon
    <3>3. Info.will_qos = 2
      BY InfoIs, Zenon
    <3> HIDE DEF flag, user, pass
    <3> QED BY <1>2, <3>1, <3>2, <3>3
  <2>3. \A s : optional(s) = given(s)
    BY Zenon
  <2>4. text = body
    <3> HIDE DEF made, flags, optional, given
    <3> QED BY <2>2, <2>3, InfoIs, Zenon
  <2> HIDE DEF text, body
  <2> QED BY <2>1, <2>4, Zenon
<1>4. head \o <<flags>> = fixed /\ fixed \in Seq(Int)
  <2> DEFINE x == flags
  <2>1. x \in Int
    BY <1>2
  <2> HIDE DEF x
  <2>2. head \o <<x>> = <<0, 6, 77, 81, 73, 115, 100, 112, 3, x>>
    <3> DEFINE t == <<x>>
               u == <<0, 6, 77, 81, 73, 115, 100, 112, 3, x>>
    <3>1. /\ head \in Seq(Int) /\ Len(head) = 9
          /\ t \in Seq(Int) /\ Len(t) = 1 /\ t[1] = x
      BY <2>1
    <3>2. /\ u \in Seq(Int) /\ Len(u) = 10 /\ u[10] = x
      BY <2>1
    <3>3. \A i \in 1 .. 9 : head[i] = u[i]
      OBVIOUS
    <3> DEFINE h == head
    <3>4. h \in Seq(Int) /\ Len(h) = 9 /\ \A i \in 1 .. 9 : h[i] = u[i]
      BY <3>1, <3>3, Zenon
    <3> HIDE DEF h, t, u
    <3>5. /\ h \o t \in Seq(Int) /\ Len(h \o t) = Len(h) + Len(t)
          /\ \A i \in 1 .. Len(h) : (h \o t)[i] = h[i]
          /\ \A i \in 1 .. Len(t) : (h \o t)[Len(h) + i] = t[i]
      <4>1. h \in Seq(Int) /\ t \in Seq(Int)
        BY <3>1, <3>4, Zenon
      <4> QED BY <4>1, ConcatAt, ConcatProperties
    <3>6. Len(h \o t) = Len(u) /\ \A i \in 1 .. Len(h \o t) : (h \o t)[i] = u[i]
      <4>1. Len(h) + Len(t) = 10 /\ Len(h) + 1 = 10 /\ 1 \in 1 .. Len(t)
        BY <3>1, <3>4
      <4>2. \A i \in 1 .. 9 : (h \o t)[i] = u[i]
        BY <3>4, <3>5, Zenon
      <4>3. (h \o t)[10] = u[10]
        BY <3>1, <3>2, <3>5, <4>1, Zenon
      <4>4. \A i \in 1 .. 10 : i \in 1 .. 9 \/ i = 10
        OBVIOUS
      <4> QED BY <3>2, <3>5, <4>1, <4>2, <4>3, <4>4, Zenon
    <3>7. h \o t = u
      <4>1. h \o t \in Seq(Int) /\ u \in Seq(Int)
        BY <3>2, <3>5, Zenon
      <4> QED BY <3>6, <4>1, SeqEqual
    <3> QED BY <3>7 DEF h, t, u
  <2>3. <<0, 6, 77, 81, 73, 115, 100, 112, 3, x>> \in Seq(Int)
    BY <2>1
  <2> QED BY <2>2, <2>3, Zenon DEF x
<1>5. /\ kept \in Seq(Int) /\ client \in Seq(Int) /\ topic \in Seq(Int) /\ message \in Seq(Int)
      /\ given(Info.username) \in Seq(Int) /\ given(Info.password) \in Seq(Int)
  <2>1. none \in Seq(Int)
    BY EmptySeq
  <2>2. kept \in Seq(Int)
    BY InfoIs, TwoBytes, Zenon
  <2> QED BY <2>1, <2>2, InfoIs, StringIs, Zenon
<1> DEFINE start == fixed \o kept \o client
<1>6. start \in Seq(Int)
  <2> HIDE DEF fixed, kept, client, head, flags
  <2>1. fixed \o kept \in Seq(Int)
    BY <1>4, <1>5, JoinTyped, Zenon
  <2> QED BY <1>5, <2>1, JoinTyped, Zenon
<1>7. body = before
  <2> HIDE DEF flags, head, fixed, kept, client, topic, message, given
  <2>1. body = fixed \o kept \o client \o (topic \o message) \o given(Info.username) \o given(Info.password)
    BY <1>4, Zenon
  <2>2. (start \o topic) \o message = start \o (topic \o message)
    <3> HIDE DEF start
    <3> QED BY <1>5, <1>6, JoinsAgain, ZenonT(30)
  <2> QED BY <2>1, <2>2, Zenon
<1>8. before \in Seq(Int)
  <2> HIDE DEF flags, fixed, kept, client, topic, message, given
  <2>1. before = (((start \o topic) \o message) \o given(Info.username)) \o given(Info.password)
    BY Zenon
  <2> HIDE DEF start, before
  <2> QED BY <1>5, <1>6, <2>1, JoinTyped, Zenon
<1>9. m.before = before /\ m.after = none /\ m.id = None
  <2> HIDE DEF before
  <2> QED BY DEF Says
<1> HIDE DEF body, before
<1> DEFINE q == 0
<1>10. Type.CONNECT \in Nat /\ m.first = 16 * Type.CONNECT + 2 * q + q /\ q \in Nat
  BY DEF Type, Says
<1>11. none \in Seq(Int) /\ Number(None) = none /\ None \in Nat /\ None # Own
  <2>1. None \in Nat /\ None # Own /\ none \in Seq(Int)
    BY DEF None, Own
  <2> QED BY <2>1, Zenon DEF Number
<1> HIDE DEF m, none, q
<1>12. before \o none = before
  BY <1>8, ConcatEmptySeq DEF none
<1>13. body = m.before \o Number(None) \o m.after
  BY <1>7, <1>9, <1>11, <1>12, Zenon
<1>14. None \in IF m.id = Own THEN 1 .. IdSpan - 1 ELSE {m.id}
  BY <1>9, <1>11, Zenon
<1>15. Tells(body, m, None)
  BY <1>8, <1>9, <1>11, <1>13, <1>14, Zenon DEF Tells
<1>16. Built(fini_message(Type.CONNECT, q, q, body), m)
  BY <1>10, <1>15, MessageBuilt, Zenon
<1> QED BY <1>1, <1>3, <1>16, Zenon DEF q

\* Packets o say what is meant by a, one for one.
Agree(o, a) == Len(o) = Len(a) /\ \A k \in 1 .. Len(o) : Means(o[k], a[k])

LEMMA NoneAgrees == Agree(<<>>, <<>>)
BY DEF Agree

LEMMA OneAgrees == ASSUME NEW b, NEW m, Means(b, m) PROVE Agree(<<b>>, <<m>>)
<1> DEFINE o == <<b>>
           a == <<m>>
<1>1. Len(o) = 1 /\ Len(a) = 1 /\ o[1] = b /\ a[1] = m
  OBVIOUS
<1>2. \A k \in 1 .. 1 : k = 1
  OBVIOUS
<1> HIDE DEF o, a
<1>3. Agree(o, a)
  BY <1>1, <1>2, Zenon DEF Agree
<1> QED BY <1>3 DEF o, a

LEMMA ThreeAgree ==
  ASSUME NEW b1, NEW m1, NEW b2, NEW m2, NEW b3, NEW m3, Means(b1, m1), Means(b2, m2), Means(b3, m3)
  PROVE  Agree(<<b1, b2, b3>>, <<m1, m2, m3>>)
<1> DEFINE o == <<b1, b2, b3>>
           a == <<m1, m2, m3>>
<1>1. Len(o) = 3 /\ Len(a) = 3 /\ o[1] = b1 /\ o[2] = b2 /\ o[3] = b3 /\ a[1] = m1 /\ a[2] = m2 /\ a[3] = m3
  OBVIOUS
<1>2. \A k \in 1 .. 3 : k = 1 \/ k = 2 \/ k = 3
  OBVIOUS
<1> HIDE DEF o, a
<1>3. Agree(o, a)
  BY <1>1, <1>2, Zenon DEF Agree
<1> QED BY <1>3 DEF o, a

LEMMA PairAgrees ==
  ASSUME NEW b1, NEW m1, NEW b2, NEW m2, Means(b1, m1), Means(b2, m2)
  PROVE  Agree(<<b1, b2>>, <<m1, m2>>)
<1> DEFINE o == <<b1, b2>>
           a == <<m1, m2>>
<1>1. Len(o) = 2 /\ Len(a) = 2 /\ o[1] = b1 /\ o[2] = b2 /\ a[1] = m1 /\ a[2] = m2
  OBVIOUS
<1>2. \A k \in 1 .. 2 : k = 1 \/ k = 2
  OBVIOUS
<1> HIDE DEF o, a
<1>3. Agree(o, a)
  BY <1>1, <1>2, Zenon DEF Agree
<1> QED BY <1>3 DEF o, a

LEMMA AgreeUnderstood == ASSUME Agree(out', asked') PROVE Understood'
BY Zenon DEF Agree, Understood

LEMMA QuietUnderstood == ASSUME Quiet PROVE Understood'
BY NoneAgrees, AgreeUnderstood, Zenon DEF Quiet

\* A request that is queued or fails as it must.
LEMMA RequestUnderstood == ASSUME NEW b, NEW m, Built(b, m), Request(b, m) PROVE Understood'
<1>1. /\ out' = IF b = fail_message THEN <<>> ELSE <<b>>
      /\ asked' = IF Fits(m) THEN <<m>> ELSE <<>>
  BY Zenon DEF Request, Fits
<1>2. CASE Fits(m)
  BY <1>1, <1>2, OneAgrees, AgreeUnderstood, Zenon DEF Built
<1>3. CASE ~Fits(m)
  BY <1>1, <1>3, NoneAgrees, AgreeUnderstood, Zenon DEF Built
<1> QED BY <1>2, <1>3, Zenon

\* Topics and fixed texts.
LEMMA TextsAre ==
  /\ statusTopic \in Seq(Int) /\ statusTopic # <<>> /\ cmdTopic \in Seq(Int) /\ cmdTopic # <<>>
  /\ fbTopic \in Seq(Int) /\ fbTopic # <<>>
  /\ lwtData \in Seq(Int) /\ lwtDataLive \in Seq(Int) /\ lwtDataLive # <<>>
BY IrGatewayAssumption

\* The fixed packets, and the answers, fit.
LEMMA FixedFit ==
  /\ Fits(Subscription(statusTopic)) /\ Fits(Subscription(cmdTopic))
  /\ Fits(Publication(statusTopic, lwtDataLive, 1))
  /\ Fits(Says(16 * Type.UNSUBSCRIBE + 2, <<>>, Own, append_string(statusTopic)))
  /\ \A type, qos, id : Fits(Ack(type, qos, id))
<1> DEFINE s == Len(statusTopic)
           c == Len(cmdTopic)
           l == Len(lwtDataLive)
<1>1. s \in Nat /\ s > 0 /\ c \in Nat /\ c > 0 /\ l \in Nat /\ l > 0
  BY TextsAre, EmptySeq
<1>2. MQTT_MAX_FIXED_HEADER_SIZE + s + l + 4 <= BufSize /\ MQTT_MAX_FIXED_HEADER_SIZE + c + 5 <= BufSize
  BY IrGatewayAssumption, Zenon
<1>3. BufSize \in Nat /\ MQTT_MAX_FIXED_HEADER_SIZE = 3
  BY MsgAssumption DEF MQTT_MAX_FIXED_HEADER_SIZE
<1>4. Len(append_string(statusTopic)) = 2 + s /\ append_string(statusTopic) \in Seq(Int)
  BY TextsAre, StringIs, Zenon
<1>5. Len(append_string(cmdTopic)) = 2 + c /\ append_string(cmdTopic) \in Seq(Int)
  BY TextsAre, StringIs, Zenon
<1>6. \A t \in Seq(Int) : Len(t \o <<0>>) = Len(t) + 1
  <2> SUFFICES ASSUME NEW t \in Seq(Int) PROVE Len(t \o <<0>>) = Len(t) + 1
    OBVIOUS
  <2>1. <<0>> \in Seq(Int) /\ Len(<<0>>) = 1
    OBVIOUS
  <2> QED BY <2>1, ConcatProperties
<1>7. Len(append_string(statusTopic) \o <<0>>) = 3 + s /\ Len(append_string(cmdTopic) \o <<0>>) = 3 + c
  <2> HIDE DEF s, c
  <2>1. Len(append_string(statusTopic) \o <<0>>) = Len(append_string(statusTopic)) + 1
    BY <1>4, <1>6, Zenon
  <2>2. Len(append_string(cmdTopic) \o <<0>>) = Len(append_string(cmdTopic)) + 1
    BY <1>5, <1>6, Zenon
  <2> QED BY <1>1, <1>4, <1>5, <2>1, <2>2
<1>8. Len(<<>>) = 0 /\ Own # None
  BY DEF Own, None
<1> DEFINE st == append_string(statusTopic)
           sub == append_string(statusTopic) \o <<0>>
           cmd == append_string(cmdTopic) \o <<0>>
           none == <<>>
<1>9. /\ 3 + Len(none) + Len(sub) + 2 <= BufSize /\ 3 + Len(none) + Len(cmd) + 2 <= BufSize
      /\ 3 + Len(st) + Len(lwtDataLive) + 2 <= BufSize /\ 3 + Len(none) + Len(st) + 2 <= BufSize
      /\ 3 + Len(none) + Len(none) + 2 <= BufSize /\ 3 + Len(none) + Len(none) + 0 <= BufSize
  <2>1. Len(st) = 2 + s /\ Len(sub) = 3 + s /\ Len(cmd) = 3 + c /\ Len(none) = 0 /\ Len(lwtDataLive) = l
    BY <1>4, <1>7, <1>8, Zenon
  <2> HIDE DEF s, c, l, st, sub, cmd, none
  <2> QED BY <1>1, <1>2, <1>3, <2>1
<1>10. \A x, before, after, id :
         3 + Len(before) + Len(after) + (IF id = None THEN 0 ELSE 2) <= BufSize => Fits(Says(x, before, id, after))
  BY <1>3 DEF Fits, Says
<1> HIDE DEF st, sub, cmd, none
<1>15. /\ 3 + Len(none) + Len(sub) + (IF Own = None THEN 0 ELSE 2) <= BufSize /\ 3 + Len(none) + Len(cmd) + (IF Own = None THEN 0 ELSE 2) <= BufSize
       /\ 3 + Len(st) + Len(lwtDataLive) + (IF Own = None THEN 0 ELSE 2) <= BufSize /\ 3 + Len(none) + Len(st) + (IF Own = None THEN 0 ELSE 2) <= BufSize
  <2>1. (IF Own = None THEN 0 ELSE 2) = 2
    BY <1>8, Zenon
  <2> QED BY <1>9, <2>1
<1>11. Fits(Subscription(statusTopic)) /\ Fits(Subscription(cmdTopic))
  <2>1. \A x : Fits(Says(x, none, Own, sub))
    BY <1>10, <1>15, Zenon
  <2>2. \A x : Fits(Says(x, none, Own, cmd))
    BY <1>10, <1>15, Zenon
  <2> QED BY <2>1, <2>2, Zenon DEF Subscription, none, sub, cmd
<1>12. Fits(Publication(statusTopic, lwtDataLive, 1))
  <2>1. \A x : Fits(Says(x, st, Own, lwtDataLive))
    BY <1>10, <1>15, Zenon
  <2> QED BY <2>1, Zenon DEF Publication, st
<1>13. Fits(Says(16 * Type.UNSUBSCRIBE + 2, <<>>, Own, append_string(statusTopic)))
  <2>1. \A x : Fits(Says(x, none, Own, st))
    BY <1>10, <1>15, Zenon
  <2> QED BY <2>1, Zenon DEF none, st
<1>14. ASSUME NEW type, NEW qos, NEW id PROVE Fits(Ack(type, qos, id))
  <2>1. 3 + Len(none) + Len(none) + (IF id = None THEN 0 ELSE 2) <= BufSize
    BY <1>9, Zenon
  <2>2. \A x : Fits(Says(x, none, id, none))
    BY <1>10, <2>1, Zenon
  <2> QED BY <2>2, Zenon DEF Ack, none
<1> QED BY <1>11, <1>12, <1>13, <1>14, Zenon

\* The identifier of an acknowledgement is behind a length of one byte.
LEMMA AckRead ==
  ASSUME NEW p \in BrokerPackets, NEW t \in Seq(Int), NEW b, b = Wire(p) \o t, Len(b) < BufSize,
         p.type \in {Type.PUBREC, Type.PUBREL}
  PROVE  mqtt_get_id(b) = p.id
<1> DEFINE c == Content(p)
<1>1. p.id \in Nat /\ p.id # None
  BY BrokerIs, Zenon
<1>2. c = Number(p.id)
  <2>1. p.type # Type.PUBLISH
    BY DEF Type
  <2> QED BY <2>1, Zenon DEF Content
<1>3. Len(c) = 2 /\ 256 * c[1] + c[2] = p.id
  BY <1>1, <1>2, NumberIs, ZenonT(30)
<1>4. PICK d \in 1 .. 2 : Framed(b, 16 * p.type + 2 * p.qos, c, t, d)
  BY FrontRead, Zenon
<1> HIDE DEF c
<1>5. Digit \in Nat /\ 2 < Digit
  BY MsgAssumption
<1>6. d = 1 /\ b[2] = 2 /\ b[d + 1 + 1] = c[1] /\ b[d + 1 + 2] = c[2]
  <2>1. /\ Len(c) < Digit => d = 1
        /\ d = 1 => b[2] = Len(c)
        /\ \A i \in 1 .. Len(c) : b[d + 1 + i] = c[i]
    BY <1>4, Zenon DEF Framed
  <2>2. d = 1 /\ b[2] = 2
    BY <1>3, <1>5, <2>1, Zenon
  <2>3. 1 \in 1 .. Len(c) /\ 2 \in 1 .. Len(c)
    BY <1>3
  <2> QED BY <2>1, <2>2, <2>3, Zenon
<1>7. b[3] = c[1] /\ b[4] = c[2]
  <2>1. d + 1 + 1 = 3 /\ d + 1 + 2 = 4
    BY <1>6
  <2> QED BY <1>6, <2>1, Zenon
<1>8. Number2(b, 2) = p.id
  <2>1. Number2(b, 2) = 256 * b[3] + b[4]
    BY DEF Number2
  <2> QED BY <1>3, <1>7, <2>1, Zenon
<1>9. mqtt_get_type(b) = p.type
  BY FrontIs, Zenon
<1> DEFINE type == mqtt_get_type(b)
           numbered == {Type[k] : k \in {"PUBACK", "PUBREC", "PUBREL", "PUBCOMP", "SUBACK", "UNSUBACK", "SUBSCRIBE"}}
<1>10. type # Type.PUBLISH /\ type \in numbered
  <2> HIDE DEF type
  <2>1. type \in {Type.PUBREC, Type.PUBREL}
    BY <1>9, Zenon DEF type
  <2>2. Type.PUBREC \in numbered /\ Type.PUBREL \in numbered
    BY DEF Type
  <2>3. Type.PUBREC # Type.PUBLISH /\ Type.PUBREL # Type.PUBLISH
    BY DEF Type
  <2> HIDE DEF numbered
  <2> QED BY <2>1, <2>2, <2>3, Zenon
<1>11. b[2] < Digit
  BY <1>5, <1>6, Zenon
<1>12. mqtt_get_id(b) = Number2(b, 2)
  BY <1>10, <1>11, Zenon DEF mqtt_get_id
<1> QED BY <1>8, <1>12, Zenon

\* The packet in front of a segment.
LEMMA FrontOf ==
  ASSUME ReadInv, pdata # <<>>
  PROVE  LET p == Head(todo)
             t == OnWire(Tail(todo))
         IN p \in BrokerPackets /\ t \in Seq(Int) /\ pdata = Wire(p) \o t
<1>1. todo \in Seq(BrokerPackets) /\ pdata = OnWire(todo)
  BY Zenon DEF ReadInv
<1>2. todo # <<>>
  BY <1>1, NothingOnWire, Zenon
<1> QED BY <1>1, <1>2, WireHead, Zenon

LEMMA OtherUnderstood ==
  ASSUME ReadInv, pdata # <<>>, Len(pdata) < BufSize, ReadOther
  PROVE  Understood'
<1> DEFINE p == Head(todo)
           t == OnWire(Tail(todo))
           type == mqtt_get_type(pdata)
           id == mqtt_get_id(pdata)
<1>1. p \in BrokerPackets /\ t \in Seq(Int) /\ pdata = Wire(p) \o t
  BY FrontOf, Zenon
<1>2. IF type = Type.PUBREC THEN Request(mqtt_msg_pubrel(id), Ack(Type.PUBREL, 1, p.id))
      ELSE IF type = Type.PUBREL THEN Request(mqtt_msg_pubcomp(id), Ack(Type.PUBCOMP, 0, p.id))
      ELSE IF type = Type.PINGREQ THEN Request(mqtt_msg_pingresp, Ack(Type.PINGRESP, 0, None))
      ELSE Quiet
  BY Zenon DEF ReadOther
<1>3. p.type = type
  BY <1>1, FrontIs, Zenon
<1> HIDE DEF p, t, type
<1>4. ASSUME type \in {Type.PUBREC, Type.PUBREL} PROVE id = p.id /\ p.id \in Nat /\ p.id # None
  BY <1>1, <1>3, <1>4, AckRead, BrokerIs, Zenon
<1> HIDE DEF id
<1> DEFINE one == 1
           zero == 0
<1>5. Type.PUBREL \in Nat /\ Type.PUBCOMP \in Nat /\ one \in Nat /\ zero \in Nat
  BY DEF Type
<1>6. /\ mqtt_msg_pubrel(id) = fini_message(Type.PUBREL, one, 0, Bytes2(id))
      /\ mqtt_msg_pubcomp(id) = fini_message(Type.PUBCOMP, zero, 0, Bytes2(id))
  BY Zenon DEF mqtt_msg_pubrel, mqtt_msg_pubcomp
<1>7. CASE type = Type.PUBREC
  <2>1. Built(fini_message(Type.PUBREL, one, 0, Bytes2(id)), Ack(Type.PUBREL, one, p.id))
    <3> HIDE DEF one
    <3>1. id = p.id /\ id \in Nat /\ id # None
      BY <1>4, <1>7, Zenon
    <3> QED BY <1>5, <3>1, AckBuilt, Zenon
  <2> QED BY <1>2, <1>6, <1>7, <2>1, RequestUnderstood, Zenon
<1>8. CASE type # Type.PUBREC /\ type = Type.PUBREL
  <2>1. Built(fini_message(Type.PUBCOMP, zero, 0, Bytes2(id)), Ack(Type.PUBCOMP, zero, p.id))
    <3>1. id = p.id /\ id \in Nat /\ id # None
      BY <1>4, <1>8, Zenon
    <3> HIDE DEF zero
    <3> QED BY <1>5, <3>1, AckBuilt, Zenon
  <2> QED BY <1>2, <1>6, <1>8, <2>1, RequestUnderstood, Zenon
<1>9. CASE type # Type.PUBREC /\ type # Type.PUBREL /\ type = Type.PINGREQ
  BY <1>2, <1>9, PingrespBuilt, RequestUnderstood, Zenon
<1>10. CASE type # Type.PUBREC /\ type # Type.PUBREL /\ type # Type.PINGREQ
  BY <1>2, <1>10, QuietUnderstood, Zenon
<1> QED BY <1>7, <1>8, <1>9, <1>10, Zenon

\* What the callbacks of the application send, each behind a new identifier.
LEMMA FixedSaid ==
  ASSUME NEW n \in Nat
  PROVE  LET id == NextId(n) IN
         /\ id \in Nat
         /\ Means(mqtt_msg_subscribe(statusTopic, 0, id), Subscription(statusTopic))
         /\ Means(mqtt_msg_subscribe(cmdTopic, 0, id), Subscription(cmdTopic))
         /\ Means(Status(lwtDataLive, id), Publication(statusTopic, lwtDataLive, 1))
         /\ Means(mqtt_msg_unsubscribe(statusTopic, id),
                  Says(16 * Type.UNSUBSCRIBE + 2, <<>>, Own, append_string(statusTopic)))
<1> DEFINE id == NextId(n)
           one == 1
<1>1. id \in 1 .. IdSpan - 1 /\ id \in Nat
  BY NextIdTyped, Zenon
<1> HIDE DEF id
<1>2. one \in Nat
  OBVIOUS
<1>3. Built(mqtt_msg_subscribe(statusTopic, 0, id), Subscription(statusTopic))
  BY <1>1, TextsAre, SubscribeBuilt, Zenon
<1>4. Built(mqtt_msg_subscribe(cmdTopic, 0, id), Subscription(cmdTopic))
  BY <1>1, TextsAre, SubscribeBuilt, Zenon
<1>5. Built(Status(lwtDataLive, id), Publication(statusTopic, lwtDataLive, 1))
  <2>1. Status(lwtDataLive, id) = mqtt_msg_publish(statusTopic, lwtDataLive, 2, one, id)
    BY Zenon DEF Status
  <2>2. Built(mqtt_msg_publish(statusTopic, lwtDataLive, 2, one, id), Publication(statusTopic, lwtDataLive, one))
    <3> HIDE DEF one
    <3> QED BY <1>1, <1>2, TextsAre, PublishBuilt, Zenon
  <2> QED BY <2>1, <2>2, Zenon
<1>6. Built(mqtt_msg_unsubscribe(statusTopic, id),
            Says(16 * Type.UNSUBSCRIBE + 2, <<>>, Own, append_string(statusTopic)))
  BY <1>1, TextsAre, UnsubscribeBuilt, Zenon
<1> QED BY <1>1, <1>3, <1>4, <1>5, <1>6, FixedFit, Zenon DEF Built, id

\* A publication of the broker: its answer, and what the callback sends.
LEMMA PublicationUnderstood ==
  ASSUME ReadInv, message_id \in Nat, pdata # <<>>, Len(pdata) < BufSize, ReadPublish
  PROVE  Understood'
<1> DEFINE p == Head(todo)
           t == OnWire(Tail(todo))
           qos == mqtt_get_qos(pdata)
           id == mqtt_get_id(pdata)
           response == IF qos = 1 THEN <<mqtt_msg_puback(id)>> ELSE IF qos = 2 THEN <<mqtt_msg_pubrec(id)>> ELSE <<>>
           acknowledged == IF qos = 1 THEN <<Ack(Type.PUBACK, 0, p.id)>>
                           ELSE IF qos = 2 THEN <<Ack(Type.PUBREC, 0, p.id)>> ELSE <<>>
<1>1. p \in BrokerPackets /\ t \in Seq(Int) /\ pdata = Wire(p) \o t
  BY FrontOf, Zenon
<1>2. PICK topic, text : mqttDataCb(topic, text, response, acknowledged)
  BY Zenon DEF ReadPublish
<1>3. p.type = Type.PUBLISH /\ p.qos = qos
  BY <1>1, FrontIs, Zenon DEF ReadPublish
<1> HIDE DEF p, t, qos
<1>4. ASSUME qos = 1 \/ qos = 2 PROVE id = p.id /\ p.id \in Nat /\ p.id # None
  <2>1. qos > 0 /\ qos # 0
    BY <1>4
  <2>2. p.qos > 0 => id = p.id
    BY <1>1, <1>3, FrontSays, Zenon
  <2>3. p.id \in Nat /\ (p.id = None <=> p.qos = 0)
    BY <1>1, <1>3, BrokerIs, Zenon
  <2> QED BY <1>3, <2>1, <2>2, <2>3, Zenon
<1> HIDE DEF id
<1>5. \/ response = <<>> /\ acknowledged = <<>>
      \/ \E b, m : Means(b, m) /\ response = <<b>> /\ acknowledged = <<m>>
  <2> DEFINE zero == 0
  <2>1. Type.PUBACK \in Nat /\ Type.PUBREC \in Nat /\ zero \in Nat
    BY DEF Type
  <2>2. /\ mqtt_msg_puback(id) = fini_message(Type.PUBACK, zero, 0, Bytes2(id))
        /\ mqtt_msg_pubrec(id) = fini_message(Type.PUBREC, zero, 0, Bytes2(id))
    BY Zenon DEF mqtt_msg_puback, mqtt_msg_pubrec
  <2>3. ASSUME qos = 1 \/ qos = 2, NEW type \in Nat
        PROVE  Means(fini_message(type, zero, 0, Bytes2(id)), Ack(type, zero, p.id))
    <3> HIDE DEF zero
    <3>1. id = p.id /\ id \in Nat /\ id # None
      BY <1>4, <2>3, Zenon
    <3>2. Built(fini_message(type, zero, 0, Bytes2(id)), Ack(type, zero, p.id))
      BY <2>1, <3>1, AckBuilt, Zenon
    <3> QED BY <3>2, FixedFit, Zenon DEF Built
  <2>4. CASE qos = 1
    <3>1. Means(mqtt_msg_puback(id), Ack(Type.PUBACK, 0, p.id))
      BY <2>1, <2>2, <2>3, <2>4, Zenon
    <3> QED BY <2>4, <3>1, Zenon
  <2>5. CASE qos # 1 /\ qos = 2
    <3>1. Means(mqtt_msg_pubrec(id), Ack(Type.PUBREC, 0, p.id))
      BY <2>1, <2>2, <2>3, <2>5, Zenon
    <3> QED BY <2>5, <3>1, Zenon
  <2>6. CASE qos # 1 /\ qos # 2
    BY <2>6, Zenon
  <2> QED BY <2>4, <2>5, <2>6, Zenon
<1> HIDE DEF response, acknowledged
<1>6. CASE ~IsPrefix(statusTopic, topic)
  <2>1. out' = response /\ asked' = acknowledged
    BY <1>2, <1>6, Zenon DEF mqttDataCb
  <2>2. Agree(response, acknowledged)
    BY <1>5, NoneAgrees, OneAgrees, Zenon
  <2> QED BY <2>1, <2>2, AgreeUnderstood, Zenon
<1>7. CASE IsPrefix(statusTopic, topic)
  <2> DEFINE first == NextId(message_id)
             second == NextId(first)
             b1 == mqtt_msg_unsubscribe(statusTopic, first)
             b2 == Status(lwtDataLive, second)
             m1 == Says(16 * Type.UNSUBSCRIBE + 2, <<>>, Own, append_string(statusTopic))
             m2 == Publication(statusTopic, lwtDataLive, 1)
  <2>1. out' = response \o <<b1, b2>> /\ asked' = acknowledged \o <<m1, m2>>
    BY <1>2, <1>7, Zenon DEF mqttDataCb
  <2>2. first \in Nat /\ Means(b1, m1)
    BY FixedSaid, Zenon
  <2>3. Means(b2, m2)
    <3> HIDE DEF first
    <3> QED BY <2>2, FixedSaid, Zenon
  <2> HIDE DEF first, second, b1, b2, m1, m2
  <2>4. CASE response = <<>> /\ acknowledged = <<>>
    <3>1. out' = <<b1, b2>> /\ asked' = <<m1, m2>>
      BY <2>1, <2>4, Joined, Zenon
    <3> QED BY <2>2, <2>3, <3>1, PairAgrees, AgreeUnderstood, Zenon
  <2>5. ASSUME NEW b, NEW m, Means(b, m), response = <<b>>, acknowledged = <<m>>
        PROVE  Understood'
    <3>1. out' = <<b, b1, b2>> /\ asked' = <<m, m1, m2>>
      BY <2>1, <2>5, Joined, Zenon
    <3> QED BY <2>2, <2>3, <2>5, <3>1, ThreeAgree, AgreeUnderstood, Zenon
  <2> QED BY <1>5, <2>4, <2>5, Zenon
<1> QED BY <1>6, <1>7, Zenon

LEMMA ConnectedUnderstood ==
  ASSUME message_id \in Nat, mqttConnectedCb
  PROVE  Understood'
<1> DEFINE first == NextId(message_id)
           second == NextId(first)
           third == NextId(second)
           b1 == mqtt_msg_subscribe(statusTopic, 0, first)
           b2 == Status(lwtDataLive, second)
           b3 == mqtt_msg_subscribe(cmdTopic, 0, third)
           m1 == Subscription(statusTopic)
           m2 == Publication(statusTopic, lwtDataLive, 1)
           m3 == Subscription(cmdTopic)
<1>1. out' = <<b1, b2, b3>> /\ asked' = <<m1, m2, m3>>
  BY Zenon DEF mqttConnectedCb
<1>2. first \in Nat /\ Means(b1, m1)
  BY FixedSaid, Zenon
<1>3. second \in Nat /\ Means(b2, m2)
  <2> HIDE DEF first
  <2> QED BY <1>2, FixedSaid, Zenon
<1>4. Means(b3, m3)
  <2> HIDE DEF second
  <2> QED BY <1>3, FixedSaid, Zenon
<1> HIDE DEF b1, b2, b3, m1, m2, m3
<1> QED BY <1>1, <1>2, <1>3, <1>4, ThreeAgree, AgreeUnderstood, Zenon

\* The text of a report.
LEMMA JsonTyped == ASSUME NEW v \in Statics PROVE JsonText(v) \in Seq(Int)
<1> DEFINE numbers == <<v.cmd, v.id_cmd, v.token, v.len_data>>
<1>1. v.cmd \in Int /\ v.id_cmd \in Int /\ v.token \in Int /\ v.len_data \in Int /\ v.data \in Seq(Int)
  <2>1. v.cmd \in Byte /\ v.id_cmd \in Byte /\ v.token \in Nat /\ v.len_data \in Nat /\ v.data \in Seq(Int)
    BY StaticsAre, Zenon
  <2>2. \A x \in Byte : x \in Int
    BY DEF Byte
  <2>3. \A x \in Nat : x \in Int
    OBVIOUS
  <2> QED BY <2>1, <2>2, <2>3, Zenon
<1>2. Filler \in Seq(Int)
  <2>1. \A n \in Nat : [k \in 1 .. n |-> 0] \in Seq(Int)
    BY IsSequence
  <2> QED BY <2>1, IrGatewayAssumption DEF Filler
<1>3. numbers \in Seq(Int)
  BY <1>1
<1> HIDE DEF numbers
<1>4. (Filler \o numbers) \o v.data \in Seq(Int)
  <2>1. Filler \o numbers \in Seq(Int)
    BY <1>2, <1>3, JoinTyped, Zenon
  <2> QED BY <1>1, <2>1, JoinTyped, Zenon
<1> QED BY <1>4, Zenon DEF JsonText, numbers

LEMMA ReportUnderstood ==
  ASSUME message_id \in Nat, ir' \in Statics, NEW cmd, NEW id, NEW d, uartDataCallback(cmd, id, d)
  PROVE  Understood'
<1>1. CASE cmd \in {2, 4}
  <2> DEFINE text == JsonText(ir')
             zero == 0
             next == NextId(message_id)
  <2>1. Request(mqtt_msg_publish(fbTopic, text, 2, zero, next), Publication(fbTopic, text, zero))
    BY <1>1, Zenon DEF uartDataCallback
  <2>2. text \in Seq(Int) /\ next \in 1 .. IdSpan - 1
    BY JsonTyped, NextIdTyped, Zenon
  <2>3. zero \in Nat
    OBVIOUS
  <2> HIDE DEF text, zero, next
  <2>4. Built(mqtt_msg_publish(fbTopic, text, 2, zero, next), Publication(fbTopic, text, zero))
    BY <2>2, <2>3, TextsAre, PublishBuilt, Zenon
  <2> QED BY <2>1, <2>4, RequestUnderstood, Zenon
<1>2. CASE cmd \notin {2, 4}
  BY <1>2, QuietUnderstood, Zenon DEF uartDataCallback
<1> QED BY <1>1, <1>2, Zenon

\* Whatever is queued or sent, a broker reads as what was meant (mqtt_msg.c:63-126).
THEOREM GatewayUnderstood == Spec => []Understood
<1>1. Init => Understood
  <2> SUFFICES ASSUME Init PROVE Understood
    OBVIOUS
  <2>1. out = <<>> /\ asked = <<>>
    BY Zenon DEF Init
  <2> QED BY <2>1, NoneAgrees, Zenon DEF Understood, Agree
<1>2. ASSUME Understood, TodoInv, IrInv, IrInv', [Next]_vars PROVE Understood'
  <2>0. ReadInv /\ message_id \in Nat /\ ir' \in Statics
    BY <1>2, Zenon DEF TodoInv, IrInv, IrTyped
  <2>1. CASE UNCHANGED vars
    BY <1>2, <2>1, Zenon DEF vars, Understood
  <2>2. CASE mqtt_tcpclient_connect_cb
    BY <2>2, ConnectBuilt, RequestUnderstood, Zenon DEF mqtt_tcpclient_connect_cb
  <2>3. CASE mqtt_tcpclient_discon_cb
    <3> DEFINE id == NextId(message_id)
               one == 1
    <3>1. Request(mqtt_msg_publish(statusTopic, lwtData, 2, one, id), Publication(statusTopic, lwtData, one))
      BY <2>3, Zenon DEF mqtt_tcpclient_discon_cb, mqttDisconnectedCb, Status
    <3>2. one \in Nat /\ id \in 1 .. IdSpan - 1
      <4>1. one \in Nat
        OBVIOUS
      <4> QED BY <2>0, <4>1, NextIdTyped, Zenon
    <3> HIDE DEF one, id
    <3>3. Built(mqtt_msg_publish(statusTopic, lwtData, 2, one, id), Publication(statusTopic, lwtData, one))
      BY <3>2, TextsAre, PublishBuilt, Zenon
    <3> QED BY <3>1, <3>3, RequestUnderstood, Zenon
  <2>4. CASE mqtt_tcpclient_recv
    BY <2>4, QuietUnderstood, Zenon DEF mqtt_tcpclient_recv
  <2>5. CASE ReadData
    <3>1. pdata # <<>> /\ Len(pdata) < BufSize /\ (ReadPublish \/ ReadOther)
      BY <2>5, Zenon DEF ReadData
    <3> QED BY <2>0, <3>1, PublicationUnderstood, OtherUnderstood, Zenon
  <2>6. CASE ReadAnswer
    <3>1. mqttConnectedCb \/ Quiet
      BY <2>6, Zenon DEF ReadAnswer
    <3> QED BY <2>0, <3>1, ConnectedUnderstood, QuietUnderstood, Zenon
  <2>7. CASE TooLong
    BY <2>7, QuietUnderstood, Zenon DEF TooLong
  <2>8. ASSUME NEW cmd, NEW id, NEW d, uartDataCallback(cmd, id, d) PROVE Understood'
    BY <2>0, <2>8, ReportUnderstood, Zenon
  <2>9. CASE user_ir_cmd_init \/ Timer \/ Line
    BY <2>9, QuietUnderstood, Zenon DEF user_ir_cmd_init, Timer, Line
  <2> QED BY <1>2, <2>1, <2>2, <2>3, <2>4, <2>5, <2>6, <2>7, <2>8, <2>9, Zenon DEF Next, ReadPacket
<1> QED BY <1>1, <1>2, TodoInvHolds, IrInvHolds, PTL DEF Spec
=============================================================================
