------------------------ MODULE MCPacketReceiverQueue ------------------------
(* A stream of five packets through a queue of two.                         *)
EXTENDS PacketReceiverQueue
=============================================================================
