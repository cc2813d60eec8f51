----------------------------- MODULE MCUserUart -----------------------------
(* Frames without data, with data that imitates the END flag, and with data *)
(* that imitates a packet whose length is shorter than its header.  A wrong *)
(* length beyond MaxLen comes from any frame that lost a byte of its length.*)
EXTENDS UserUart

MCFrame(data) == <<200, 0, 6 + Len(data), 4, 1>> \o data \o <<201>>

MCFrames == {MCFrame(<<>>), MCFrame(<<201, 7>>), MCFrame(<<200, 0, 2>>)}
=============================================================================
