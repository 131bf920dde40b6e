--------------------------- MODULE MCRtcpPackets ---------------------------
(***************************************************************************)
(* RtcpPackets with the limits of the code (31 reports, 1024 bytes).       *)
(***************************************************************************)
EXTENDS RtcpPackets

=============================================================================
