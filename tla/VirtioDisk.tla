----------------------------- MODULE VirtioDisk -----------------------------
(***************************************************************************)
(* The disk driver (kernel/virtio_disk.c): descriptors, the two queues     *)
(* shared with the device, and the interrupt.                              *)
(*                                                                         *)
(* A section of virtio_disk_rw() under vdisk_lock, from acquire() or the   *)
(* return of sleep() to the next sleep() or release(), is one step: what   *)
(* it writes before it moves avail->idx is not visible to the device.  The *)
(* interrupt handler holds the lock over several steps, because the device *)
(* goes on meanwhile.  The rings are queues: their indices count modulo    *)
(* 2^16, of which NUM is a divisor, and no more than NUM / 3 entries are   *)
(* ever in use.                                                            *)
(*                                                                         *)
(* Every process has one buffer, locked by its caller (kernel/bio.c); a    *)
(* buffer is named by its process.  Which block is moved, and in which     *)
(* direction, travels with the request; what matters is when it is moved.  *)
(***************************************************************************)
EXTENDS Naturals, Sequences, FiniteSetsExt

CONSTANTS
  Proc,       \* the processes that call virtio_disk_rw()
  NUM,        \* number of descriptors
  NoProc,     \* null buffer pointer
  NoDesc      \* no next descriptor

Desc == 0 .. NUM - 1

ASSUME VirtioAssumption ==
  /\ NUM \in Nat /\ NUM >= 3
  /\ NoProc \notin Proc /\ NoDesc \notin Desc

VARIABLES
  free,      \* disk.free: the descriptors that are free
  next,      \* desc[i].next, NoDesc where VRING_DESC_F_NEXT is not set
  addr,      \* desc[i].addr of a data descriptor: the buffer
  info,      \* info[i].b, for the first descriptor of a request
  status,    \* info[i].status: TRUE once the device has written 0
  avail,     \* the available ring, from what the device has fetched to avail->idx
  used,      \* the used ring, from disk.used_idx to used->idx
  fetched,   \* the requests the device works on
  irq,       \* the device asks for an interrupt
  inIntr,    \* virtio_disk_intr() is running
  busy,      \* b->disk
  head,      \* idx[0]
  pc         \* where a process is

queueVars == <<free, next, addr, info, status, avail>>
deviceVars == <<used, fetched, irq>>
vars == <<free, next, addr, info, status, avail, used, fetched, irq, inIntr, busy,
          head, pc>>

TypeOK ==
  /\ free \subseteq Desc
  /\ next \in [Desc -> Desc \cup {NoDesc}]
  /\ addr \in [Desc -> Proc \cup {NoProc}]
  /\ info \in [Desc -> Proc \cup {NoProc}]
  /\ status \in [Desc -> BOOLEAN]
  /\ avail \in Seq(Desc) /\ used \in Seq(Desc)
  /\ fetched \subseteq Desc
  /\ Len(avail) + Cardinality(fetched) + Len(used) <= NUM \div 3
  /\ irq \in BOOLEAN /\ inIntr \in BOOLEAN
  /\ busy \in [Proc -> BOOLEAN]
  /\ head \in [Proc -> Desc \cup {NoDesc}]
  /\ pc \in [Proc -> {"idle", "alloc", "nodesc", "asleep", "awake"}]

\* virtio_disk_init().
Init ==
  /\ free = Desc
  /\ next = [i \in Desc |-> NoDesc]
  /\ addr = [i \in Desc |-> NoProc]
  /\ info = [i \in Desc |-> NoProc]
  /\ status = [i \in Desc |-> FALSE]
  /\ avail = <<>> /\ used = <<>> /\ fetched = {}
  /\ irq = FALSE /\ inIntr = FALSE
  /\ busy = [p \in Proc |-> FALSE]
  /\ head = [p \in Proc |-> NoDesc]
  /\ pc = [p \in Proc |-> "idle"]

\* A free_desc() that does not call wakeup().
WakeNobody(p, label) == pc' = [pc EXCEPT ![p] = label]

\* pc after wakeup(&disk.free[0]), when p goes to label.
WakeFree(p, label) ==
  pc' = [q \in Proc |-> IF q = p THEN label ELSE IF pc[q] = "nodesc" THEN "alloc" ELSE pc[q]]

-----------------------------------------------------------------------------
(* virtio_disk_rw().                                                       *)

\* bread() or bwrite() calls it.
virtio_disk_rw(p) ==
  /\ pc[p] = "idle"
  /\ pc' = [pc EXCEPT ![p] = "alloc"]
  /\ UNCHANGED <<queueVars, deviceVars, inIntr, busy, head>>

\* alloc3_desc() that keeps what it took.
AllocLeaks(p) ==
  /\ pc[p] = "alloc" /\ ~inIntr
  /\ Cardinality(free) < 3
  /\ free' = {}
  /\ pc' = [pc EXCEPT ![p] = "nodesc"]
  /\ UNCHANGED <<next, addr, info, status, avail, deviceVars, inIntr, busy, head>>

\* alloc3_desc() fails and gives back what it took, which wakes those who wait
\* for descriptors; then sleep(&disk.free[0]).
AllocFail(p) ==
  /\ pc[p] = "alloc" /\ ~inIntr
  /\ Cardinality(free) < 3
  /\ IF free = {} THEN pc' = [pc EXCEPT ![p] = "nodesc"] ELSE WakeFree(p, "nodesc")
  /\ UNCHANGED <<queueVars, deviceVars, inIntr, busy, head>>

\* The three descriptors alloc_desc() finds.
alloc3_desc ==
  LET i == Min(free)
      j == Min(free \ {i})
      k == Min(free \ {i, j}) IN <<i, j, k>>

\* The request is written into three descriptors and published; then
\* sleep(b) until the interrupt handler has cleared b->disk.
Submit(p) ==
  LET idx == alloc3_desc IN
  /\ pc[p] = "alloc" /\ ~inIntr
  /\ Cardinality(free) >= 3
  /\ free' = free \ {idx[1], idx[2], idx[3]}
  /\ next' = [next EXCEPT ![idx[1]] = idx[2], ![idx[2]] = idx[3], ![idx[3]] = NoDesc]
  /\ addr' = [addr EXCEPT ![idx[2]] = p]
  /\ status' = [status EXCEPT ![idx[1]] = FALSE]
  /\ info' = [info EXCEPT ![idx[1]] = p]
  /\ busy' = [busy EXCEPT ![p] = TRUE]
  /\ head' = [head EXCEPT ![p] = idx[1]]
  /\ avail' = Append(avail, idx[1])
  /\ pc' = [pc EXCEPT ![p] = "asleep"]
  /\ UNCHANGED <<deviceVars, inIntr>>

\* Awake, but the request has not finished: sleep(b) again.
SleepAgain(p) ==
  /\ pc[p] = "awake" /\ ~inIntr /\ busy[p]
  /\ pc' = [pc EXCEPT ![p] = "asleep"]
  /\ UNCHANGED <<queueVars, deviceVars, inIntr, busy, head>>

\* free_chain(): the descriptors from i along next.
Chain(i) ==
  {i} \cup (IF next[i] = NoDesc THEN {}
            ELSE {next[i]} \cup (IF next[next[i]] = NoDesc THEN {} ELSE {next[next[i]]}))

\* The request has finished: free_chain(), return.
Finish(p) ==
  /\ pc[p] = "awake" /\ ~inIntr /\ ~busy[p]
  /\ info' = [info EXCEPT ![head[p]] = NoProc]
  /\ free' = free \cup Chain(head[p])
  /\ next' = [i \in Desc |-> IF i \in Chain(head[p]) THEN NoDesc ELSE next[i]]
  /\ addr' = [i \in Desc |-> IF i \in Chain(head[p]) THEN NoProc ELSE addr[i]]
  /\ WakeFree(p, "idle")
  /\ head' = [head EXCEPT ![p] = NoDesc]
  /\ UNCHANGED <<status, avail, deviceVars, inIntr, busy>>

\* kill() makes any sleeping process RUNNABLE.
Kill(p) ==
  /\ pc[p] \in {"nodesc", "asleep"}
  /\ pc' = [pc EXCEPT ![p] = IF @ = "nodesc" THEN "alloc" ELSE "awake"]
  /\ UNCHANGED <<queueVars, deviceVars, inIntr, busy, head>>

-----------------------------------------------------------------------------
(* The device (external): fetches requests in order, finishes them in any  *)
(* order, and asks for an interrupt for each.                              *)

DeviceFetch ==
  /\ avail # <<>>
  /\ fetched' = fetched \cup {Head(avail)}
  /\ avail' = Tail(avail)
  /\ UNCHANGED <<free, next, addr, info, status, used, irq, inIntr, busy, head, pc>>

\* The device moves the buffer that the data descriptor of the chain names, and
\* writes the status.
DeviceTransfer(i) ==
  /\ i \in fetched /\ ~status[i]
  /\ status' = [status EXCEPT ![i] = TRUE]
  /\ UNCHANGED <<free, next, addr, info, avail, deviceVars, inIntr, busy, head, pc>>

DeviceUsed(i) ==
  /\ i \in fetched /\ status[i]
  /\ fetched' = fetched \ {i}
  /\ used' = Append(used, i)
  /\ irq' = TRUE
  /\ UNCHANGED <<queueVars, inIntr, busy, head, pc>>

-----------------------------------------------------------------------------
(* virtio_disk_intr().                                                     *)

\* acquire(&disk.vdisk_lock), then acknowledge.
IntrStart ==
  /\ irq /\ ~inIntr
  /\ inIntr' = TRUE
  /\ irq' = FALSE
  /\ UNCHANGED <<queueVars, used, fetched, busy, head, pc>>

\* One entry of the used ring: b->disk = 0, wakeup(b).  Where the device did not
\* write a zero status the kernel panics.
IntrOne ==
  /\ inIntr /\ used # <<>>
  /\ status[Head(used)]
  /\ LET p == info[Head(used)] IN
       /\ busy' = [busy EXCEPT ![p] = FALSE]
       /\ pc' = [pc EXCEPT ![p] = IF @ = "asleep" THEN "awake" ELSE @]
  /\ used' = Tail(used)
  /\ UNCHANGED <<queueVars, fetched, irq, inIntr, head>>

\* A handler that looks at the used ring once.
IntrEndEarly ==
  /\ inIntr
  /\ inIntr' = FALSE
  /\ UNCHANGED <<queueVars, deviceVars, busy, head, pc>>

IntrEnd ==
  /\ inIntr /\ used = <<>>
  /\ inIntr' = FALSE
  /\ UNCHANGED <<queueVars, deviceVars, busy, head, pc>>

-----------------------------------------------------------------------------
Driver(p) == AllocFail(p) \/ Submit(p) \/ SleepAgain(p) \/ Finish(p)
Device == DeviceFetch \/ \E i \in Desc : DeviceTransfer(i) \/ DeviceUsed(i)
Intr == IntrStart \/ IntrOne \/ IntrEnd

Next ==
  \/ \E p \in Proc : virtio_disk_rw(p) \/ Driver(p) \/ Kill(p)
  \/ Device \/ Intr

Spec == Init /\ [][Next]_vars

(***************************************************************************)
(* Fairness.  A process is scheduled and gets vdisk_lock although the      *)
(* handler and others take it (SF); a pending interrupt is handled and     *)
(* the handler goes on (SF: it needs the lock too); the device finishes    *)
(* every request it was given.                                             *)
(***************************************************************************)
FairSpec ==
  /\ Spec
  /\ \A p \in Proc : SF_vars(Driver(p))
  /\ SF_vars(Intr)
  /\ WF_vars(DeviceFetch)
  /\ \A i \in Desc : WF_vars(DeviceTransfer(i) \/ DeviceUsed(i))

-----------------------------------------------------------------------------
(* Properties.                                                             *)

\* The calls with a request in the queues.
InFlight == {p \in Proc : pc[p] \in {"asleep", "awake"}}

\* Every descriptor is free or in the chain of one request, none is lost and
\* none is shared, and the device works on requests that were not taken back.
DescriptorsOwned ==
  /\ \A p \in InFlight : Cardinality(Chain(head[p])) = 3 /\ Chain(head[p]) \cap free = {}
  /\ \A p, q \in InFlight : p # q => Chain(head[p]) \cap Chain(head[q]) = {}
  /\ Cardinality(free) + 3 * Cardinality(InFlight) = NUM
  /\ \A i \in fetched : \E p \in InFlight : head[p] = i /\ info[i] = p /\ busy[p]

\* Nobody sleeps for descriptors while three are free, outside of a call's own
\* critical section: every wakeup(&disk.free[0]) that was due has happened.
NobodyWaitsInVain ==
  \A p \in Proc : pc[p] = "nodesc" => Cardinality(free) < 3

\* Every request finishes and its call returns: no interrupt is lost, though
\* completions come while the handler runs.  (A call that waits for descriptors
\* may be overtaken again and again, so this is about calls that have them.)
RequestsFinish ==
  \A p \in Proc : (p \in InFlight) ~> (pc[p] = "idle")
=============================================================================
