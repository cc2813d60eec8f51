----------------------------- MODULE LossyFifo -----------------------------
(***************************************************************************)
(* What the MQTT send queue promises (mqtt/queue.c over mqtt/proto.c):     *)
(* whole messages leave in the order they came and unchanged.  It may lose *)
(* messages, but only from its old end, or all of them together with the   *)
(* message that could not be queued; it never reorders, cuts, joins or     *)
(* repeats one.                                                            *)
(***************************************************************************)
EXTENDS Integers, Sequences

CONSTANT Msg

VARIABLES queue,   \* whole messages waiting, oldest first
          sent,    \* the last message handed to espconn_send
          res      \* how the last call ended

vars == <<queue, sent, res>>

Init == queue = <<>> /\ sent = <<>> /\ res = "none"

\* A request of the application: as many old messages as it takes are evicted.
Enqueue(m) == \E k \in 0 .. Len(queue) :
  /\ queue' = Append(SubSeq(queue, k + 1, Len(queue)), m)
  /\ res' = "queued"
  /\ UNCHANGED sent

\* The request cannot be queued: everything waiting goes with it.
EnqueueFails == queue' = <<>> /\ res' = "failed" /\ UNCHANGED sent

\* An acknowledgement: queued if there is room, dropped otherwise.
Reply(m) == \/ queue' = Append(queue, m) /\ res' = "queued" /\ UNCHANGED sent
            \/ res' = "dropped" /\ UNCHANGED <<queue, sent>>

Send == /\ queue # <<>>
        /\ sent' = Head(queue)
        /\ queue' = Tail(queue)
        /\ res' = "sent"

SendNothing == queue = <<>> /\ res' = "nothing" /\ UNCHANGED <<queue, sent>>

Next == \/ \E m \in Msg : Enqueue(m) \/ Reply(m)
        \/ EnqueueFails
        \/ Send
        \/ SendNothing

Spec == Init /\ [][Next]_vars
=============================================================================
