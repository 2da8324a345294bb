------------------------------ MODULE MCInodes ------------------------------
(* Instances of Inodes.                                                    *)
EXTENDS Inodes

CONSTANTS p1, p2

TwoProcs == {p1, p2}
TwoNames == {"a", "b"}
Do(call, path) == [call |-> call, path |-> path, new |-> <<>>]

\* One process makes names, the other one removes, reuses and runs them.
Calls ==
  [p \in TwoProcs |->
     IF p = p1
     THEN { Do("creat", <<"/", "a">>), Do("mkdir", <<"/", "a">>), Do("mkdir", <<"b">>),
            Do("chdir", <<"/", "a">>), Do("unlink", <<"/", "a">>), Do("mkdir", <<"/">>),
            [call |-> "link", path |-> <<"/", "a">>, new |-> <<"/", "b">>] }
     ELSE { Do("unlink", <<"/", "a">>), Do("unlink", <<"/", "a", "b">>),
            Do("openw", <<"/", "a">>), Do("mknod", <<"b">>), Do("exec", <<"/", "a">>) }]

\* Enough for one process to reuse an inode that the other one frees.
FileCalls ==
  [p \in TwoProcs |-> { Do("creat", <<"/", "a">>), Do("unlink", <<"/", "a">>) }]
=============================================================================
