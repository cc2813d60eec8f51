----------------------------- MODULE SerialLine -----------------------------
(***************************************************************************)
(* What the receive side of driver/uart.c promises to its one reader: the  *)
(* bytes it takes from the line are read once each, unchanged and in       *)
(* order.  A byte that finds the hardware FIFO full is lost on arrival.    *)
(***************************************************************************)
EXTENDS Sequences

CONSTANT Byte

VARIABLES line,    \* bytes received and not yet read, oldest first
          rx       \* the byte read last

vars == <<line, rx>>

Init == line = <<>> /\ rx \in Byte

Arrive(b) == line' = Append(line, b) /\ UNCHANGED rx

Read == /\ line # <<>>
        /\ rx' = Head(line)
        /\ line' = Tail(line)

Next == (\E b \in Byte : Arrive(b)) \/ Read

Spec == Init /\ [][Next]_vars
=============================================================================
