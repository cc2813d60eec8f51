----------------------------- MODULE MCMsgQueue -----------------------------
(* The send queue with a ring of ten characters and messages that need  *)
(* no escape, only escapes, an escape between plain characters, and one    *)
(* whose frame is longer than the ring.                                    *)
EXTENDS MsgQueue

MCMsg == {<<65>>, <<93, 67>>, <<127, 65>>, <<126, 127, 125, 126, 65>>}
=============================================================================
