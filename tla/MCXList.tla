------------------------------ MODULE MCXList ------------------------------
(***************************************************************************)
(* A small instance of XList: four items, two of them of one key, and      *)
(* memory for three nodes, so that an addition may fail and a freed node   *)
(* is given out again.                                                     *)
(***************************************************************************)
EXTENDS XList, TLC

CONSTANTS n1, n2, n3

MCNodes == {n1, n2, n3}
MCKeyOf == <<1, 1, 2, 3>>

Symmetry == Permutations(MCNodes)

=============================================================================
