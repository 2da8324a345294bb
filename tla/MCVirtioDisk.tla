---------------------------- MODULE MCVirtioDisk ----------------------------
(* An instance of VirtioDisk.                                              *)
EXTENDS VirtioDisk

CONSTANTS p1, p2, p3

ThreeProcs == {p1, p2, p3}
=============================================================================
