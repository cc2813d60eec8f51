----------------------------- MODULE MCRingBuf -----------------------------
(* Model checking the ring buffer: four slots so that the pointers wrap at *)
(* every distance, three characters so that slots can be told apart.       *)
EXTENDS RingBuf
=============================================================================
