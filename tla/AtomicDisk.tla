----------------------------- MODULE AtomicDisk -----------------------------
(***************************************************************************)
(* What the log of kernel/log.c promises to file system calls: a disk that *)
(* moves from one state between calls to another in one step.  Calls run   *)
(* concurrently on the memory image, the image becomes durable only while  *)
(* no call is active, and a crash falls back to the durable image.         *)
(***************************************************************************)
CONSTANTS Block, Value, Client

VARIABLES
  mem,       \* what the calls read and write
  durable,   \* what a crash leaves
  active,    \* the clients between begin_op() and end_op()
  up         \* the system is not crashed or recovering

vars == <<mem, durable, active, up>>

Init ==
  /\ mem \in [Block -> Value]
  /\ durable = mem
  /\ active = {}
  /\ up = FALSE

Begin(p) ==
  /\ up /\ p \notin active
  /\ active' = active \cup {p}
  /\ UNCHANGED <<mem, durable, up>>

Write(p) ==
  /\ up /\ p \in active
  /\ \E b \in Block, v \in Value : mem' = [mem EXCEPT ![b] = v]
  /\ UNCHANGED <<durable, active, up>>

End(p) ==
  /\ up /\ p \in active
  /\ active' = active \ {p}
  /\ UNCHANGED <<mem, durable, up>>

\* The only step that changes the durable image: all of it at once.
Sync ==
  /\ up /\ active = {}
  /\ durable' = mem
  /\ UNCHANGED <<mem, active, up>>

Crash ==
  /\ mem' = durable
  /\ active' = {}
  /\ up' = FALSE
  /\ UNCHANGED durable

Restart ==
  /\ ~up
  /\ up' = TRUE
  /\ UNCHANGED <<mem, durable, active>>

Next ==
  \/ \E p \in Client : Begin(p) \/ Write(p) \/ End(p)
  \/ Sync \/ Crash \/ Restart

Spec == Init /\ [][Next]_vars
=============================================================================
