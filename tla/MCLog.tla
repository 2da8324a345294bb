------------------------------- MODULE MCLog -------------------------------
(* Model values for Log.                                                   *)
EXTENDS Log, TLC

CONSTANTS p1, p2, b1, b2, b3

TwoClients == {p1, p2}
ThreeBlocks == {b1, b2, b3}
Bits == {0, 1}
Symmetry == Permutations(Client) \cup Permutations(Block)
=============================================================================
