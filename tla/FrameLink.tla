----------------------------- MODULE FrameLink -----------------------------
(***************************************************************************)
(* What the receiver of user/user_uart.c promises to its callback: while   *)
(* nothing disturbs it, the frames that the IR controller sends arrive     *)
(* once each and in order.  After a disturbance anything may arrive, until *)
(* sender and receiver are in step again.                                  *)
(***************************************************************************)
EXTENDS Sequences

CONSTANTS Frames,      \* what the IR controller may send
          Packet(_)    \* what the callback should get of a frame

VARIABLES owed,        \* frames sent and not yet delivered
          got,         \* what the callback got last
          inStep

vars == <<owed, got, inStep>>

Init == owed = <<>> /\ inStep = TRUE

Send(f) == inStep /\ owed' = Append(owed, f) /\ UNCHANGED <<got, inStep>>

Deliver == /\ inStep /\ owed # <<>>
           /\ got' = Packet(Head(owed))
           /\ owed' = Tail(owed)
           /\ UNCHANGED inStep

Disturb == inStep' = FALSE /\ owed' = <<>> /\ UNCHANGED got

\* Out of step the callback may be told anything, or be back in step.
Stray == ~inStep /\ owed = <<>> /\ owed' = <<>> /\ inStep' \in BOOLEAN

Next == (\E f \in Frames : Send(f)) \/ Deliver \/ Disturb \/ Stray

Spec == Init /\ [][Next]_vars
=============================================================================
