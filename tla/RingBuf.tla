------------------------------- MODULE RingBuf -------------------------------
(***************************************************************************)
(* mqtt/ringbuf.c: the ring buffer under the MQTT send queue.  Pointers    *)
(* are offsets from p_o.  The callers all run to completion in task or     *)
(* callback context, so a call is one step.                                *)
(***************************************************************************)
EXTENDS Integers, Sequences

CONSTANTS Size, Byte, Zero

ASSUME RingAssumption == /\ Size \in Nat /\ Size >= 2  \* else RINGBUF_Init fails
                         /\ Zero \in Byte

VARIABLES buf,       \* the memory at p_o
          p_w, p_r,  \* write and read offsets
          fill_cnt,  \* characters stored
          ret,       \* return value of the last call
          c          \* the output character of RINGBUF_Get

vars == <<buf, p_w, p_r, fill_cnt, ret, c>>

Slots == 0 .. Size - 1

\* Variant: the boundary test is off by one, the last slot is skipped.
EarlyStep(p) == IF p + 1 >= Size - 1 THEN 0 ELSE p + 1

\* Advance a pointer, rolling over at the physical boundary.
Step(p) == IF p + 1 >= Size THEN 0 ELSE p + 1

\* RINGBUF_Init on the zeroed memory of QUEUE_Init.
Init == /\ buf = [s \in Slots |-> Zero]
        /\ p_w = 0 /\ p_r = 0
        /\ fill_cnt = 0
        /\ ret = 0
        /\ c = Zero

Full  == fill_cnt >= Size
Empty == fill_cnt <= 0

RINGBUF_Put(x) ==
  \/ /\ Full
     /\ ret' = -1
     /\ UNCHANGED <<buf, p_w, p_r, fill_cnt, c>>
  \/ /\ ~Full
     /\ fill_cnt' = fill_cnt + 1
     /\ buf' = [buf EXCEPT ![p_w] = x]
     /\ p_w' = Step(p_w)
     /\ ret' = 0
     /\ UNCHANGED <<p_r, c>>

RINGBUF_Get ==
  \/ /\ Empty
     /\ ret' = -1
     /\ UNCHANGED <<buf, p_w, p_r, fill_cnt, c>>
  \/ /\ ~Empty
     /\ fill_cnt' = fill_cnt - 1
     /\ c' = buf[p_r]
     /\ p_r' = Step(p_r)
     /\ ret' = 0
     /\ UNCHANGED <<buf, p_w>>

Next == (\E x \in Byte : RINGBUF_Put(x)) \/ RINGBUF_Get

Spec == Init /\ [][Next]_vars

-----------------------------------------------------------------------------

TypeOK == /\ buf \in [Slots -> Byte]
          /\ p_w \in Slots
          /\ p_r \in Slots
          /\ fill_cnt \in 0 .. Size
          /\ ret \in {0, -1}
          /\ c \in Byte

\* The slot of the character that is k places behind the oldest one.
Behind(k) == IF p_r + k < Size THEN p_r + k ELSE p_r + k - Size

\* The two pointers and the separate fill count agree: the write pointer stands
\* fill_cnt slots ahead of the read pointer, so a full ring and an empty one,
\* where the pointers are equal, are told apart by the count alone.
PointersAgree == p_w = (IF fill_cnt = Size THEN p_r ELSE Behind(fill_cnt))

\* The characters stored, oldest first.
Stored == [i \in 1 .. fill_cnt |-> buf[Behind(i - 1)]]

Fifo == INSTANCE ByteFifo WITH bytes <- Stored

\* The ring behaves as a bounded FIFO of characters: nothing is lost, repeated,
\* overwritten or reordered across the wrap, and a failed call changes nothing.
FifoSpec == Fifo!Spec
=============================================================================
