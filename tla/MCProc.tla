------------------------------- MODULE MCProc -------------------------------
(* An instance of Proc: which pids programs pass to kill().                *)
EXTENDS Proc

\* The first child of init.  pid 1 is init, whose exit stops the machine; the
\* code lets kill(0) mark a free slot, see the README.
FirstChild == {2}
=============================================================================
