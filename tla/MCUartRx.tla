------------------------------ MODULE MCUartRx ------------------------------
(* A FIFO of two and a ring of four, the proportion of the code (128 and    *)
(* 256): the ring fills, refuses a FIFO of one byte and one of two, and     *)
(* wraps at every distance.                                                 *)
EXTENDS UartRx
=============================================================================
