--------------------------- MODULE MCPacketReceiver ---------------------------
(* One receiver of a stream of four packets, in every mode, with and without  *)
(* an offset.                                                                 *)
EXTENDS PacketReceiver
=============================================================================
