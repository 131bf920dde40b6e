------------------------ MODULE MCClientRegistration ------------------------
(***************************************************************************)
(* Two profiles and one register thread more than they need.               *)
(***************************************************************************)
EXTENDS ClientRegistration, TLC

Symmetry == Permutations(Threads) \union Permutations(Profiles)

=============================================================================
