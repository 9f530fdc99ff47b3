------------------------------ MODULE MCBridge ------------------------------
(* Bridge for TLC: one or two packets. *)
EXTENDS Bridge

OnePacket == {1}
TwoPackets == 1..2
=============================================================================
