--------------------------- MODULE MCVideoExporter ---------------------------
(* Three frames, files of two, channels of two.                             *)
EXTENDS VideoExporter
=============================================================================
