------------------------------ MODULE MCPCQueue ------------------------------
(* Two producers and two consumers over a queue of two slots, with elements  *)
(* enough to fill it and have both producers wait behind it.                *)
EXTENDS PCQueue
=============================================================================
