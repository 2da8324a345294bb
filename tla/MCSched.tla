------------------------------ MODULE MCSched ------------------------------
(* Model values for Sched: harts, sleep locks and null pointers.           *)
EXTENDS Sched, TLC

CONSTANTS c1, c2, s1

Harts == {c1, c2}
OneLock == {s1}
=============================================================================
