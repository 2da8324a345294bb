------------------------------- MODULE MCPipe -------------------------------
(* An instance of Pipe.                                                    *)
EXTENDS Pipe

CONSTANTS p1, p2

TwoProcs == {p1, p2}
OneVictim == {p2}
Bits == {0, 1}
=============================================================================
