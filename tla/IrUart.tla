------------------------------- MODULE IrUart -------------------------------
(***************************************************************************)
(* user/user_uart.c, sending to the IR controller: user_uart_packet_send   *)
(* puts the head of a packet straight into the transmit FIFO of UART0 and  *)
(* leaves the payload to a timer of 5 ms that sends a byte at a time.      *)
(* The writer without wait of driver/uart.c drops what finds no room.      *)
(* tx_buf takes payloads of TxBuf bytes; user_uart_packet_send does not    *)
(* look at the length, and a longer one is outside this module.            *)
(***************************************************************************)
EXTENDS Integers, Sequences

CONSTANTS TxFifo,    \* bytes the transmit FIFO takes: 126
          TxBuf      \* the length of tx_buf: 512

ASSUME TxAssumption == TxFifo \in Nat \ {0} /\ TxBuf \in Nat

Byte == 0 .. 255
Payloads == {d \in Seq(Byte) : Len(d) <= TxBuf}

VARIABLES
  fifo,      \* bytes in the transmit FIFO
  rest,      \* tx_buf from tx_buf_idx on; empty when nothing is being sent
  line,      \* history: the bytes in the FIFO
  owed,      \* history: what is due on the line, of all packets accepted
  overrun    \* history: a byte was dropped; line and owed are not kept until all is sent

txVars == <<fifo, rest, line, owed, overrun>>

START_PKT_FLAG_ARD == 100
END_PKT_FLAG_ARD == 101
HEADER_LEN == 6

is_uart_sending == rest # <<>>

InitTx == fifo = 0 /\ rest = <<>> /\ line = <<>> /\ owed = <<>> /\ overrun = FALSE

Header(cmd, id, length) ==
  <<START_PKT_FLAG_ARD, ((length + HEADER_LEN) \div 256) % 256, (length + HEADER_LEN) % 256, cmd, id>>

Packet(cmd, id, payload) == Header(cmd, id, Len(payload)) \o payload \o <<END_PKT_FLAG_ARD>>

\* What is written at once: the whole packet if it has no payload.
Start(cmd, id, payload) ==
  Header(cmd, id, Len(payload)) \o (IF payload = <<>> THEN <<END_PKT_FLAG_ARD>> ELSE <<>>)

\* uart_tx_one_char_no_wait for each of bytes, with n bytes in the FIFO already;
\* for the history, before are those not yet in line, and due is what the packet
\* adds to what is owed.
NoWait(n, before, bytes, due) ==
  /\ fifo' = IF n + Len(bytes) <= TxFifo THEN n + Len(bytes) ELSE TxFifo
  /\ overrun' = (overrun \/ n + Len(bytes) > TxFifo)
  /\ line' = IF overrun' THEN <<>> ELSE line \o before \o bytes
  /\ owed' = IF overrun' THEN <<>> ELSE owed \o due

\* Variant: a command does not wait for the one before.
SendAtOnce(cmd, id, payload) ==
  NoWait(fifo, <<>>, Start(cmd, id, payload), Packet(cmd, id, payload)) /\ rest' = payload

\* A command that comes while another is being sent is dropped.
user_uart_packet_send(cmd, id, payload) ==
  IF is_uart_sending THEN UNCHANGED txVars
  ELSE NoWait(fifo, <<>>, Start(cmd, id, payload), Packet(cmd, id, payload)) /\ rest' = payload

\* What uart_tx_one_char waits for.
HasRoom == fifo < TxFifo

\* The timer's byte waits for room; the end flag behind the last one does not.
tx_timeoutfunc ==
  /\ is_uart_sending /\ HasRoom
  /\ rest' = Tail(rest)
  /\ NoWait(fifo + 1, <<Head(rest)>>, IF Tail(rest) = <<>> THEN <<END_PKT_FLAG_ARD>> ELSE <<>>, <<>>)

\* The UART sends a byte of its FIFO.
Drain ==
  /\ fifo > 0
  /\ fifo' = fifo - 1
  /\ line' = IF overrun THEN <<>> ELSE Tail(line)
  /\ owed' = IF overrun THEN <<>> ELSE Tail(owed)
  /\ overrun' = (overrun /\ (fifo > 1 \/ is_uart_sending))
  /\ UNCHANGED rest

\* The transmitter on its own, with any commands at any time.
TxNext ==
  \/ \E cmd, id \in Byte, payload \in Payloads : user_uart_packet_send(cmd, id, payload)
  \/ tx_timeoutfunc
  \/ Drain

TxSpec == InitTx /\ [][TxNext]_txVars

-----------------------------------------------------------------------------

\* What is due and is not in the FIFO yet.
ToCome == IF is_uart_sending THEN rest \o <<END_PKT_FLAG_ARD>> ELSE <<>>

\* The controller sees whole packets, one behind the other, until the FIFO drops a
\* byte and again once all is sent: a command that comes between two bytes of the
\* timer neither cuts the packet under way nor gets into it (user_uart.c:66-131).
WholePackets == ~overrun => owed = line \o ToCome
=============================================================================
