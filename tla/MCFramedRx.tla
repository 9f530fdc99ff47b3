----------------------------- MODULE MCFramedRx -----------------------------
(* FramedRx with five byte values, payloads of at most four bytes and one  *)
(* frame of each kind: a packet, an error, a result, and an empty frame.   *)
EXTENDS FramedRx

MCFrames == {<<1, 2, 0, 4, 1>>, <<3, 1, 0, 3>>, <<4, 2, 0, 1, 0>>, <<4, 2, 0, 4, 1>>, <<2, 0, 0>>}
=============================================================================
