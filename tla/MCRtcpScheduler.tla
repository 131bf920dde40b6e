-------------------------- MODULE MCRtcpScheduler --------------------------
(***************************************************************************)
(* Small instances of RtcpScheduler: one or two slots, intervals of one to *)
(* three clock ticks.                                                      *)
(***************************************************************************)
EXTENDS RtcpScheduler

=============================================================================
