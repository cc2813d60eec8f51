------------------------------ MODULE ByteFifo ------------------------------
(***************************************************************************)
(* What mqtt/ringbuf.c promises: a first-in first-out store of at most     *)
(* Size characters.  A put on a full store and a get on an empty one fail  *)
(* with -1 and change nothing, the output character of the get included.   *)
(***************************************************************************)
EXTENDS Integers, Sequences

CONSTANTS Size,     \* capacity, in characters
          Byte,     \* the characters
          Zero      \* what the caller's output character holds at first

VARIABLES bytes,    \* the characters stored, oldest first
          ret,      \* return value of the last call
          c         \* the output character of RINGBUF_Get

vars == <<bytes, ret, c>>

Init == bytes = <<>> /\ ret = 0 /\ c = Zero

PutOk(x) == /\ Len(bytes) < Size
            /\ bytes' = Append(bytes, x)
            /\ ret' = 0
            /\ UNCHANGED c

PutFull == /\ Len(bytes) = Size
           /\ ret' = -1
           /\ UNCHANGED <<bytes, c>>

GetOk == /\ bytes # <<>>
         /\ c' = Head(bytes)
         /\ bytes' = Tail(bytes)
         /\ ret' = 0

GetEmpty == /\ bytes = <<>>
            /\ ret' = -1
            /\ UNCHANGED <<bytes, c>>

Next == \/ \E x \in Byte : PutOk(x)
        \/ PutFull
        \/ GetOk
        \/ GetEmpty

Spec == Init /\ [][Next]_vars
=============================================================================
