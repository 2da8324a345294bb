------------------------------- MODULE Policy -------------------------------
(***************************************************************************)
(* The three scheduling policies and the switch between them               *)
(* (kernel/proc.c: scheduler, scheduler_old, schedulerPriority,            *)
(* schedulerCFS, find_minimum, minimum_vruntime, check_vruntime,           *)
(* update_ticks, set_policy, set_ps_priority, set_cfs_priority; the timer  *)
(* branches of usertrap and kerneltrap in kernel/trap.c).                  *)
(*                                                                         *)
(* Every CPU runs one of the three loops.  The minimum is collected slot   *)
(* by slot, each under its own lock, while the other CPUs go on; p->lock   *)
(* makes the look at one slot, and a dispatch, one step (module Sched).    *)
(* Each loop, when it sees that the policy has changed, calls the loop of  *)
(* the new policy, which never returns: the caller's frame stays on the    *)
(* CPU's boot stack.                                                       *)
(*                                                                         *)
(* A timer interrupt is one step: update_ticks() charges every slot, then  *)
(* the interrupted process is charged its priority and yields.             *)
(***************************************************************************)
EXTENDS Integers

CONSTANTS
  NPROC,           \* size of the process table
  CPU,             \* the harts
  PsPriorities,    \* the arguments programs pass to set_ps_priority
  CfsPriorities,   \* the arguments programs pass to set_cfs_priority
  Policies,        \* the arguments programs pass to set_policy
  MaxAcc,          \* bound on accumulators: no timer step beyond it
  MaxSwitches,     \* bound on the number of set_policy calls
  NoProc           \* null process pointer; as on[c]: the scheduler itself

Proc == 0 .. NPROC - 1

ASSUME PolicyAssumption ==
  /\ NPROC \in Nat \ {0}
  /\ NoProc \notin Proc
  /\ PsPriorities \subseteq Nat
  /\ CfsPriorities \subseteq Int
  /\ Policies \subseteq Int
  /\ MaxAcc \in Nat
  /\ MaxSwitches \in Nat

VARIABLES
  policy,
  switches,     \* number of set_policy calls so far
  state,        \* p->state
  accumulator,
  ps_priority,
  cfs_priority,
  usage,        \* what rtime, retime and stime say, see UsageOf
  on,           \* the process a CPU runs
  loop,         \* the policy whose loop a CPU runs
  frames,       \* bytes of scheduler frames on the CPU's boot stack
  spc,          \* where that loop is
  idx,          \* p, its loop variable
  mi,           \* p, the loop variable of find_minimum or minimum_vruntime
  minimum,      \* minimum in the loop, or in the scan in progress
  waiting       \* auxiliary: processes RUNNABLE ever since the scan began

procVars == <<state, accumulator, ps_priority, cfs_priority, usage>>
cpuVars == <<on, loop, frames, spc, idx, mi, minimum>>
vars == <<policy, switches, state, accumulator, ps_priority, cfs_priority, usage,
          on, loop, frames, spc, idx, mi, minimum, waiting>>

OLD == 0
PS  == 1
CFS == 2

-----------------------------------------------------------------------------
(* check_vruntime().                                                       *)

\* The RISC-V signed division of naturals: a zero divisor gives -1.
Div(a, b) == IF b = 0 THEN -1 ELSE a \div b

\* check_vruntime() as written, on the three counters and cfs_priority.
Weight(priority) == IF priority = 0 THEN 75 ELSE IF priority = 1 THEN 100 ELSE 125
check_vruntime(rtime, retime, stime, priority) ==
  Weight(priority) * Div(rtime, rtime + retime + stime)

\* All that the quotient tells apart: no tick was charged yet, every tick was
\* charged while running, or some tick was charged off the CPU.
UsageOf(rtime, other) ==
  IF other > 0 THEN "mixed" ELSE IF rtime > 0 THEN "ran" ELSE "fresh"
Quotient(u) == CASE u = "fresh" -> -1 [] u = "ran" -> 1 [] u = "mixed" -> 0

VRuntime(p) == Weight(cfs_priority[p]) * Quotient(usage[p])

\* update_ticks() on one slot.
Charge(u, st) ==
  IF st \in {"SLEEPING", "RUNNABLE"} THEN "mixed"
  ELSE IF st = "RUNNING" /\ u = "fresh" THEN "ran" ELSE u

update_ticks == usage' = [p \in Proc |-> Charge(usage[p], state[p])]

-----------------------------------------------------------------------------
TypeOK ==
  /\ policy \in 0 .. 2
  /\ switches \in 0 .. MaxSwitches
  /\ state \in [Proc -> {"UNUSED", "SLEEPING", "RUNNABLE", "RUNNING"}]
  /\ accumulator \in [Proc -> Nat]
  /\ ps_priority \in [Proc -> Nat]
  /\ cfs_priority \in [Proc -> 0 .. 2]
  /\ usage \in [Proc -> {"fresh", "ran", "mixed"}]
  /\ on \in [CPU -> Proc \cup {NoProc}]
  /\ loop \in [CPU -> 0 .. 2]
  /\ frames \in [CPU -> Nat]
  /\ spc \in [CPU -> {"boot", "enter", "slot", "back", "scan", "switch"}]
  /\ idx \in [CPU -> Proc]
  /\ mi \in [CPU -> 0 .. NPROC]
  /\ minimum \in [CPU -> Int]
  /\ waiting \in [CPU -> SUBSET Proc]

\* After userinit(): the first process is RUNNABLE, no CPU is scheduling yet.
Init ==
  /\ policy = OLD
  /\ switches = 0
  /\ state = [p \in Proc |-> IF p = 0 THEN "RUNNABLE" ELSE "UNUSED"]
  /\ accumulator = [p \in Proc |-> 0]
  /\ ps_priority = [p \in Proc |-> 0]
  /\ cfs_priority = [p \in Proc |-> IF p = 0 THEN 1 ELSE 0]
  /\ usage = [p \in Proc |-> "fresh"]
  /\ on = [c \in CPU |-> NoProc]
  /\ loop = [c \in CPU |-> OLD]
  /\ frames = [c \in CPU |-> 0]
  /\ spc = [c \in CPU |-> "boot"]
  /\ idx = [c \in CPU |-> 0]
  /\ mi = [c \in CPU |-> 0]
  /\ minimum = [c \in CPU |-> 0]
  /\ waiting = [c \in CPU |-> {}]

-----------------------------------------------------------------------------
(* The scheduler loops on CPU c.                                           *)

\* sizes of the frames of the three loops (kernel.asm), and of the boot stack.
FrameBytes(k) == IF k = OLD THEN 80 ELSE 96
BootStackBytes == 4096

Runnable == {p \in Proc : state[p] = "RUNNABLE"}

\* minimum = find_minimum() or minimum_vruntime(), up to its loop.
StartScan(c, label) ==
  /\ spc' = [spc EXCEPT ![c] = label]
  /\ mi' = [mi EXCEPT ![c] = 0]
  /\ minimum' = [minimum EXCEPT ![c] = -1]
  /\ waiting' = [waiting EXCEPT ![c] = Runnable]

\* Call the loop of policy k on top of what is on the stack.
CallLoop(c, k) ==
  /\ loop' = [loop EXCEPT ![c] = k]
  /\ frames' = [frames EXCEPT ![c] = @ + FrameBytes(k)]
  /\ idx' = [idx EXCEPT ![c] = 0]
  /\ IF k = OLD
     THEN spc' = [spc EXCEPT ![c] = "slot"] /\ UNCHANGED <<mi, minimum, waiting>>
     ELSE StartScan(c, "enter")

\* scheduler(), called once by main().
Boot(c) ==
  /\ spc[c] = "boot"
  /\ CallLoop(c, policy)
  /\ UNCHANGED <<policy, switches, procVars, on>>

\* The value the loop of CPU c compares.
Key(c, p) == IF loop[c] = PS THEN accumulator[p] ELSE VRuntime(p)

\* find_minimum() without the test for the first RUNNABLE process.
ScanSlotNoFirst(c) ==
  LET p == mi[c] IN
  /\ spc[c] \in {"enter", "scan"} /\ p < NPROC
  /\ mi' = [mi EXCEPT ![c] = p + 1]
  /\ minimum' = IF state[p] = "RUNNABLE" /\ Key(c, p) < minimum[c]
                THEN [minimum EXCEPT ![c] = Key(c, p)] ELSE minimum
  /\ UNCHANGED <<policy, switches, procVars, on, loop, frames, spc, idx, waiting>>

\* One slot of find_minimum() or minimum_vruntime().
ScanSlot(c) ==
  LET p == mi[c] IN
  /\ spc[c] \in {"enter", "scan"} /\ p < NPROC
  /\ mi' = [mi EXCEPT ![c] = p + 1]
  /\ minimum' = IF /\ state[p] = "RUNNABLE"
                   /\ minimum[c] = -1 \/ Key(c, p) < minimum[c]
                THEN [minimum EXCEPT ![c] = Key(c, p)] ELSE minimum
  /\ UNCHANGED <<policy, switches, procVars, on, loop, frames, spc, idx, waiting>>

\* find_minimum() that leaves out the last slot.
ScanDoneEarly(c) ==
  /\ spc[c] \in {"enter", "scan"} /\ mi[c] = NPROC - 1
  /\ spc' = [spc EXCEPT ![c] = IF @ = "enter" THEN "slot" ELSE "switch"]
  /\ UNCHANGED <<policy, switches, procVars, on, loop, frames, idx, mi, minimum, waiting>>

\* The scan returns: to the head of a loop just called, or to the end of its
\* body, where the policy is looked at.
ScanDone(c) ==
  /\ spc[c] \in {"enter", "scan"} /\ mi[c] = NPROC
  /\ spc' = [spc EXCEPT ![c] = IF @ = "enter" THEN "slot" ELSE "switch"]
  /\ UNCHANGED <<policy, switches, procVars, on, loop, frames, idx, mi, minimum, waiting>>

\* The loop's test of a RUNNABLE process.
Chosen(c, p) == loop[c] = OLD \/ Key(c, p) <= minimum[c]

\* The slot holds a process to run: RUNNING, swtch().
Dispatch(c) ==
  LET p == idx[c] IN
  /\ on[c] = NoProc /\ spc[c] = "slot"
  /\ state[p] = "RUNNABLE" /\ Chosen(c, p)
  /\ state' = [state EXCEPT ![p] = "RUNNING"]
  /\ on' = [on EXCEPT ![c] = p]
  /\ spc' = [spc EXCEPT ![c] = "back"]
  /\ waiting' = [d \in CPU |-> IF d = c THEN {} ELSE waiting[d] \ {p}]
  /\ UNCHANGED <<policy, switches, accumulator, ps_priority, cfs_priority, usage,
                 loop, frames, idx, mi, minimum>>

\* The end of the loop body: the next minimum, except in scheduler_old().
EndOfSlot(c) ==
  IF loop[c] = OLD
  THEN spc' = [spc EXCEPT ![c] = "switch"] /\ UNCHANGED <<mi, minimum, waiting>>
  ELSE StartScan(c, "scan")

\* The slot holds no process to run, or the process has switched back.
PassSlot(c) ==
  /\ on[c] = NoProc
  /\ \/ spc[c] = "back"
     \/ spc[c] = "slot" /\ ~(state[idx[c]] = "RUNNABLE" /\ Chosen(c, idx[c]))
  /\ EndOfSlot(c)
  /\ UNCHANGED <<policy, switches, procVars, on, loop, frames, idx>>

\* A loop that need not look at the policy.
NextSlotAnyPolicy(c) ==
  /\ spc[c] = "switch"
  /\ spc' = [spc EXCEPT ![c] = "slot"]
  /\ idx' = [idx EXCEPT ![c] = (@ + 1) % NPROC]
  /\ UNCHANGED <<policy, switches, procVars, on, loop, frames, mi, minimum, waiting>>

\* The policy is the loop's own: p++, and from the last slot to the first.
NextSlot(c) ==
  /\ spc[c] = "switch" /\ policy = loop[c]
  /\ spc' = [spc EXCEPT ![c] = "slot"]
  /\ idx' = [idx EXCEPT ![c] = (@ + 1) % NPROC]
  /\ UNCHANGED <<policy, switches, procVars, on, loop, frames, mi, minimum, waiting>>

\* The policy has changed: call the new loop from inside this one.
SwitchLoop(c) ==
  /\ spc[c] = "switch" /\ policy # loop[c]
  /\ CallLoop(c, policy)
  /\ UNCHANGED <<policy, switches, procVars, on>>

-----------------------------------------------------------------------------
(* The process on CPU c.                                                   *)

\* The process gives up the CPU in state st: sched(), and the release of p->lock
\* by the scheduler.
Leave(c, st) ==
  /\ on[c] \in Proc
  /\ state' = [state EXCEPT ![on[c]] = st]
  /\ on' = [on EXCEPT ![c] = NoProc]

\* A timer interrupt of a process: update_ticks(), the accumulator, yield().
Timer(c) ==
  /\ Leave(c, "RUNNABLE")
  /\ accumulator[on[c]] + ps_priority[on[c]] <= MaxAcc
  /\ update_ticks
  /\ accumulator' = [accumulator EXCEPT ![on[c]] = @ + ps_priority[on[c]]]
  /\ UNCHANGED <<policy, switches, ps_priority, cfs_priority,
                 loop, frames, spc, idx, mi, minimum, waiting>>

\* A timer interrupt of the scheduler itself only counts.
IdleTimer(c) ==
  /\ on[c] = NoProc /\ spc[c] # "boot"
  /\ update_ticks
  /\ UNCHANGED <<policy, switches, state, accumulator, ps_priority, cfs_priority,
                 cpuVars, waiting>>

\* sleep(), or exit() and the freeproc() after it: the slot keeps its accumulator.
Sleep(c) ==
  /\ Leave(c, "SLEEPING")
  /\ UNCHANGED <<policy, switches, accumulator, ps_priority, cfs_priority, usage,
                 loop, frames, spc, idx, mi, minimum, waiting>>

Exit(c) ==
  /\ on[c] # 0
  /\ Leave(c, "UNUSED")
  /\ UNCHANGED <<policy, switches, accumulator, ps_priority, cfs_priority, usage,
                 loop, frames, spc, idx, mi, minimum, waiting>>

\* fork(): allocproc() resets the priorities and counters, not the accumulator;
\* the child inherits the CFS priority.
Fork(c) ==
  /\ on[c] \in Proc
  /\ \E q \in Proc :
       /\ state[q] = "UNUSED"
       /\ \A r \in 0 .. q - 1 : state[r] # "UNUSED"
       /\ state' = [state EXCEPT ![q] = "RUNNABLE"]
       /\ ps_priority' = [ps_priority EXCEPT ![q] = 0]
       /\ cfs_priority' = [cfs_priority EXCEPT ![q] = cfs_priority[on[c]]]
       /\ usage' = [usage EXCEPT ![q] = "fresh"]
  /\ UNCHANGED <<policy, switches, accumulator, cpuVars, waiting>>

\* wakeup() by an interrupt handler or another process.
Wakeup(p) ==
  /\ state[p] = "SLEEPING"
  /\ state' = [state EXCEPT ![p] = "RUNNABLE"]
  /\ UNCHANGED <<policy, switches, accumulator, ps_priority, cfs_priority, usage,
                 cpuVars, waiting>>

set_ps_priority(c, k) ==
  /\ ps_priority' = [ps_priority EXCEPT ![on[c]] = k]
  /\ UNCHANGED <<policy, switches, state, accumulator, cfs_priority, usage, cpuVars, waiting>>

set_cfs_priority(c, k) ==
  /\ cfs_priority' = [cfs_priority EXCEPT ![on[c]] = k]
  /\ UNCHANGED <<policy, switches, state, accumulator, ps_priority, usage, cpuVars, waiting>>

set_policy(k) ==
  /\ policy' = k
  /\ UNCHANGED <<procVars, cpuVars, waiting>>

\* The system calls.  An argument that is no CFS priority or no policy is refused.
sys_set_ps_priority(c) ==
  /\ on[c] \in Proc
  /\ \E k \in PsPriorities : set_ps_priority(c, k)

sys_set_cfs_priority(c) ==
  /\ on[c] \in Proc
  /\ \E k \in CfsPriorities : k \in 0 .. 2 /\ set_cfs_priority(c, k)

sys_set_policy(c) ==
  /\ on[c] \in Proc /\ switches < MaxSwitches
  /\ \E k \in Policies : k \in 0 .. 2 /\ set_policy(k)
  /\ switches' = switches + 1

-----------------------------------------------------------------------------
\* What a CPU does by itself when it runs the scheduler.
Schedule(c) ==
  \/ Boot(c) \/ ScanSlot(c) \/ ScanDone(c) \/ Dispatch(c) \/ PassSlot(c)
  \/ NextSlot(c) \/ SwitchLoop(c)

\* What the process on a CPU may do besides computing.
Run(c) ==
  \/ Sleep(c) \/ Exit(c) \/ Fork(c)
  \/ sys_set_ps_priority(c) \/ sys_set_cfs_priority(c) \/ sys_set_policy(c)

Next ==
  \/ \E c \in CPU : Schedule(c) \/ Timer(c) \/ IdleTimer(c) \/ Run(c)
  \/ \E p \in Proc : Wakeup(p)

Spec == Init /\ [][Next]_vars

(***************************************************************************)
(* Fairness.  A CPU in the scheduler keeps executing it (WF); the timer of *)
(* a CPU keeps interrupting the process it runs (WF).                      *)
(***************************************************************************)
FairSpec == Spec /\ \A c \in CPU : WF_vars(Schedule(c)) /\ WF_vars(Timer(c))

-----------------------------------------------------------------------------
(* Properties.                                                             *)

\* schedulerPriority() never runs a process whose accumulator exceeds that of a
\* process that was RUNNABLE all the time since find_minimum() began, although
\* the other CPUs dispatch, wake, fork and charge processes during the scan.
PsPicksMinimum ==
  [][\A c \in CPU : Dispatch(c) /\ loop[c] = PS =>
       \A q \in waiting[c] : accumulator[idx[c]] <= accumulator[q]]_vars

\* A process is RUNNING exactly while some CPU runs it, and on one CPU only,
\* whichever loops the CPUs are in.
RunningOnOne ==
  /\ \A p \in Proc : state[p] = "RUNNING" <=> \E c \in CPU : on[c] = p
  /\ \A c, d \in CPU : c # d /\ on[c] \in Proc => on[c] # on[d]

\* A policy that set_policy() installs and nobody changes is adopted by every
\* CPU that has processes to come back from, unless the model's bound on
\* accumulators has cut off the timer of a process.
AtBound == \E p \in Proc : accumulator[p] + ps_priority[p] > MaxAcc
PolicyAdopted ==
  \A c \in CPU, k \in 0 .. 2 :
    (policy = k) ~> (policy # k \/ loop[c] = k \/ AtBound)

\* When every CPU is idle and a process is RUNNABLE, one gets to run: the -1
\* that stands for "no RUNNABLE process" in find_minimum() and
\* minimum_vruntime(), and minima that are stale, do not stall the machine.
IdleMachineFindsWork ==
  (Runnable # {} /\ \A c \in CPU : on[c] = NoProc) ~> (\E c \in CPU : on[c] # NoProc)

\* entry.S gives each CPU a boot stack of 4096 bytes; the frames of the
\* scheduler loops on it fit.
StackFits == \A c \in CPU : frames[c] <= BootStackBytes
=============================================================================
