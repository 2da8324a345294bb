------------------------------ MODULE MCBlocks ------------------------------
(* An instance of Blocks.                                                  *)
EXTENDS Blocks, TLC

CONSTANTS p1, p2

TwoProcs == {p1, p2}
Callers == Permutations(TwoProcs)
=============================================================================
