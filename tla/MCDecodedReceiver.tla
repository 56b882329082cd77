-------------------------- MODULE MCDecodedReceiver --------------------------
(* A stream of four packets, a header queue and an image queue of two.      *)
EXTENDS DecodedReceiver
=============================================================================
