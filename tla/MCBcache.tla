------------------------------ MODULE MCBcache ------------------------------
(* An instance of Bcache.                                                  *)
EXTENDS Bcache, TLC

CONSTANTS p1, p2, u1, u2, b1, b2, b3

TwoProcs == {p1, p2}
TwoBufs == {u1, u2}
ThreeBlocks == {b1, b2, b3}
Bits == {0, 1}
CallersAndBlocks == Permutations(TwoProcs) \cup Permutations(ThreeBlocks)
=============================================================================
