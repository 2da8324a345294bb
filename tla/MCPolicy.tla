------------------------------ MODULE MCPolicy ------------------------------
(* An instance of Policy: which system calls the programs make.            *)
EXTENDS Policy

CONSTANT c1

OneHart == {c1}
AllPolicies == {OLD, PS, CFS}
PsOne == {1}
OnlyHigh == {0}
=============================================================================
