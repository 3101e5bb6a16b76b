--------------------------- MODULE MCLayeredSession ---------------------------
(* Three frames of two chunks each, through pipes that hold one chunk. *)
EXTENDS LayeredSession
=============================================================================
