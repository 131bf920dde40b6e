-------------------------- MODULE MCSessionMembers --------------------------
(***************************************************************************)
(* Small instances of SessionMembers: the session of a call and that of    *)
(* the conference with two members, or one session that two peers join,    *)
(* leave and join again.                                                   *)
(***************************************************************************)
EXTENDS SessionMembers, TLC

\* Nothing chooses among the peers.
PeerSymmetry == Permutations(Peers)

=============================================================================
