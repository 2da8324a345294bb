----------------------------- MODULE MCDevices ------------------------------
(* An instance of Devices.                                                 *)
EXTENDS Devices

CONSTANTS h0, h1

TwoHarts == {h0, h1}
Do(op, n) == [op |-> op, n |-> n]
Env(c0, c1, keys, timers, victims) ==
  [calls |-> [h \in TwoHarts |-> IF h = h0 THEN c0 ELSE c1], keys |-> keys,
   timers |-> timers, victims |-> victims]

\* Sleeping and writing; reading and writing; two readers.  UINT - 1 is
\* sleep(-1).
Scenarios ==
  { Env({Do("sleep", 1), Do("sleep", UINT - 1)}, {Do("write", 2)}, {}, {h0, h1}, {h0}),
    Env({Do("read", 2)}, {Do("write", 2)}, Key \ {"eof"}, {}, {}),
    Env({Do("read", 2)}, {Do("read", 1)}, {"x", "nl", "eof"}, {}, {h1}) }
=============================================================================
