--------------------------- MODULE MCPlayoutPipe ---------------------------
(***************************************************************************)
(* Frames of two samples, a device that asks for less than a frame or for  *)
(* more, and no more frames than the ring, the player and the queue hold.  *)
(***************************************************************************)
EXTENDS PlayoutPipe

=============================================================================
