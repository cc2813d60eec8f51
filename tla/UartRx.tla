------------------------------- MODULE UartRx -------------------------------
(***************************************************************************)
(* driver/uart.c, the receive side of UART0: the interrupt handler moves   *)
(* the hardware FIFO into a ring buffer, from which the poll in            *)
(* user/user_uart.c takes one byte at a time.  The interrupt may come      *)
(* between any two instructions of the poll, so rx_buff_deq is cut between *)
(* its accesses to what both share; the handler itself is one step.  Take  *)
(* holds two of them, which an interrupt in between leaves with the result *)
(* of one before: it only makes more bytes available.                      *)
(*                                                                         *)
(* Pointers are offsets from pUartBuff.  The FIFO and its interrupts are   *)
(* hardware: an interrupt is pending while the FIFO holds a byte (the full *)
(* and the time-out interrupt together).                                   *)
(***************************************************************************)
EXTENDS Integers, Sequences

CONSTANTS BuffSize,   \* UART_RX_BUFFER_SIZE
          FifoLen,    \* UART_FIFO_LEN
          Byte

Word == 65536           \* Space and the lengths are uint16

ASSUME UartAssumption == /\ FifoLen \in Nat \ {0}
                         /\ BuffSize \in FifoLen + 1 .. Word - 1
                         /\ Byte # {}

VARIABLES
  fifo,             \* the hardware FIFO
  intrEna,          \* the two receive interrupts are enabled
  pUartBuff,        \* the memory of the ring buffer
  pInPos, pOutPos, Space,
  pc,               \* where the poll is; "idle" between two polls
  len_tmp, loaded,  \* registers of rx_buff_deq: its length, and Space as loaded
  rx                \* _rx[0] of the poll

hardware == <<fifo, intrEna>>
ring     == <<pUartBuff, pInPos, pOutPos, Space>>
poll     == <<pc, len_tmp, loaded, rx>>
vars     == <<hardware, ring, poll>>

Slots == 0 .. BuffSize - 1

\* The slot k places after p, and how far slot s is from p.
At(p, k) == IF p + k < BuffSize THEN p + k ELSE p + k - BuffSize
Ahead(p, s) == IF s >= p THEN s - p ELSE s - p + BuffSize

\* Uart_Buf_Init
Init ==
  /\ fifo = <<>> /\ intrEna = TRUE
  /\ pUartBuff \in [Slots -> Byte]
  /\ pInPos = 0 /\ pOutPos = 0 /\ Space = BuffSize
  /\ pc = "idle" /\ len_tmp = 0 /\ loaded = 0
  /\ rx \in Byte

\* A byte on the line; one that finds the FIFO full is lost.
Arrive(b) ==
  /\ fifo' = IF Len(fifo) < FifoLen THEN Append(fifo, b) ELSE fifo
  /\ UNCHANGED <<intrEna, ring, poll>>

-----------------------------------------------------------------------------
\* The interrupt.

\* Variant: the ring may be filled to the last slot.
FitsExactly(n) == n <= Space

\* A full ring could not be told from an empty one by its pointers.
Fits(n) == n < Space

\* uart0_rx_intr_handler with Uart_rx_buff_enq: the whole FIFO or, when it does
\* not fit, nothing, and then the interrupts stay disabled.
RxIntr ==
  /\ intrEna /\ fifo # <<>>
  /\ LET n == Len(fifo)
     IN IF Fits(n)
        THEN /\ pUartBuff' = [s \in Slots |->
                  IF Ahead(pInPos, s) < n THEN fifo[Ahead(pInPos, s) + 1] ELSE pUartBuff[s]]
             /\ pInPos' = At(pInPos, n)
             /\ Space' = Space - n
             /\ fifo' = <<>>
             /\ intrEna' = (Space' >= FifoLen)
        ELSE intrEna' = FALSE /\ UNCHANGED <<fifo, pUartBuff, pInPos, Space>>
  /\ UNCHANGED <<pOutPos, poll>>

-----------------------------------------------------------------------------
\* The poll: uart0_Available and rx_buff_deq(_rx, 1).

uart0_Available ==
  /\ pc = "idle" /\ pInPos # pOutPos
  /\ pc' = "take"
  /\ UNCHANGED <<hardware, ring, len_tmp, loaded, rx>>

\* Variant: the read pointer wraps one slot early.
NextOutEarly(n) == IF pOutPos + n >= BuffSize - 1 THEN 0 ELSE pOutPos + n

\* Where n bytes further is.  Behind the write pointer the offset is not reduced.
NextOut(n) == IF pOutPos <= pInPos THEN pOutPos + n ELSE At(pOutPos, n)

\* How much to take, the byte, the read pointer.  With nothing to take by the
\* count of Space, _rx keeps what the stack held.
Take ==
  /\ pc = "take"
  /\ len_tmp' = IF (BuffSize - Space) % Word = 0 THEN 0 ELSE 1
  /\ rx' \in IF len_tmp' = 1 THEN {pUartBuff[At(pOutPos, 0)]} ELSE Byte
  /\ pOutPos' = NextOut(len_tmp')
  /\ pc' = "load"
  /\ UNCHANGED <<hardware, pUartBuff, pInPos, Space, loaded>>

\* Space += len_tmp, the load and the store of it.
LoadSpace ==
  /\ pc = "load"
  /\ loaded' = Space
  /\ pc' = "store"
  /\ UNCHANGED <<hardware, ring, len_tmp, rx>>

StoreSpace ==
  /\ pc = "store"
  /\ Space' = loaded + len_tmp
  /\ pc' = "check"
  /\ UNCHANGED <<hardware, pUartBuff, pInPos, pOutPos, len_tmp, loaded, rx>>

\* An interrupt between this test and what follows from it may fill the ring.
CheckSpace ==
  /\ pc = "check"
  /\ pc' = IF Space >= FifoLen THEN "enable" ELSE "idle"
  /\ UNCHANGED <<hardware, ring, len_tmp, loaded, rx>>

\* Variant: enabling the interrupts again is left to the handler.
EnableNot == pc = "enable" /\ pc' = "idle" /\ UNCHANGED <<hardware, ring, len_tmp, loaded, rx>>

Enable ==
  /\ pc = "enable"
  /\ intrEna' = TRUE
  /\ pc' = "idle"
  /\ UNCHANGED <<fifo, ring, len_tmp, loaded, rx>>

Poll == uart0_Available \/ Take \/ LoadSpace \/ StoreSpace \/ CheckSpace \/ Enable

-----------------------------------------------------------------------------

Next == (\E b \in Byte : Arrive(b)) \/ RxIntr \/ Poll

Spec == Init /\ [][Next]_vars

\* The runs of the driver in which no interrupt falls between the load and the
\* store of Space, which are two adjacent instructions.
OutsideWindow == pc # "store" /\ RxIntr
GentleNext == (\E b \in Byte : Arrive(b)) \/ OutsideWindow \/ Poll
GentleSpec == Init /\ [][GentleNext]_vars

\* A pending enabled interrupt is taken; the timer of the poll repeats.
FairGentleSpec == GentleSpec /\ WF_vars(OutsideWindow) /\ WF_vars(Poll)

-----------------------------------------------------------------------------

TypeOK ==
  /\ fifo \in Seq(Byte) /\ Len(fifo) <= FifoLen
  /\ intrEna \in BOOLEAN
  /\ pUartBuff \in [Slots -> Byte]
  /\ pInPos \in Slots /\ pOutPos \in Slots
  /\ Space \in 1 .. BuffSize
  /\ pc \in {"idle", "take", "load", "store", "check", "enable"}
  /\ len_tmp \in {0, 1}
  /\ loaded \in 0 .. BuffSize
  /\ rx \in Byte

Used == Ahead(pOutPos, pInPos)

\* Space is what its declaration calls it, the remaining space of the buffer:
\* between two polls it is the size less what stands between the two pointers
\* (uart.h:162, uart.c:425-484).
SpaceIsRemaining == pc = "idle" => Space = BuffSize - Used

\* The ring and the FIFO behind it are one first-in first-out line: no byte that
\* was taken from the line is lost, repeated, overwritten or reordered, over
\* interrupts anywhere in a poll and the wrap of either pointer (uart.c:426-497).
Unread == [i \in 1 .. Used |-> pUartBuff[At(pOutPos, i - 1)]]
Line == INSTANCE SerialLine WITH line <- Unread \o fifo
ReadsTheLine == Line!Spec

\* No byte waits in the hardware FIFO for ever: interrupts that were left
\* disabled because the ring was full are enabled again (uart.c:461-463, 475-491).
FifoEmptied == []<>(fifo = <<>>)
=============================================================================
