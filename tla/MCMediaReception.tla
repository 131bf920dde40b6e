-------------------------- MODULE MCMediaReception --------------------------
(***************************************************************************)
(* Small instances of MediaReception: numbers wrap at 6, one delivery      *)
(* thread, or two when the member moves, a handful of packets.             *)
(***************************************************************************)
EXTENDS MediaReception

=============================================================================
