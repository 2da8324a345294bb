---------------------------- MODULE PolicyProofs ----------------------------
(***************************************************************************)
(* Proofs about Policy, for any process table, any set of harts and any    *)
(* priorities: the abstraction of check_vruntime() is exact, the model is  *)
(* type correct, a process runs on one CPU only, the priority loop         *)
(* dispatches least accumulators, and the boot stack lasts for 41 changes  *)
(* of policy.                                                              *)
(***************************************************************************)
EXTENDS Policy, TLAPS

-----------------------------------------------------------------------------
(* check_vruntime() and update_ticks().                                    *)

\* A quotient of naturals whose dividend is part of the divisor.
LEMMA PartQuotient ==
  ASSUME NEW r \in Nat, NEW o \in Nat, r + o # 0
  PROVE  r \div (r + o) = IF o = 0 THEN 1 ELSE 0
OBVIOUS

\* Everything check_vruntime() computes from the three counters is their usage:
\* whatever the counters are, its integer division gives -1, 1 or 0.
THEOREM VRuntimeExact ==
  \A rtime, retime, stime \in Nat, k \in 0 .. 2 :
    check_vruntime(rtime, retime, stime, k)
      = Weight(k) * Quotient(UsageOf(rtime, retime + stime))
<1> SUFFICES ASSUME NEW rtime \in Nat, NEW retime \in Nat, NEW stime \in Nat, NEW k \in 0 .. 2
             PROVE  Div(rtime, rtime + retime + stime)
                      = Quotient(UsageOf(rtime, retime + stime))
    BY DEF check_vruntime
<1>1. CASE rtime + retime + stime = 0
    BY <1>1 DEF Div, Quotient, UsageOf
<1>2. CASE rtime + retime + stime # 0
  <2>1. rtime \div (rtime + (retime + stime)) = IF retime + stime = 0 THEN 1 ELSE 0
    BY <1>2, PartQuotient
  <2> QED
    BY <1>2, <2>1 DEF Div, Quotient, UsageOf
<1> QED
    BY <1>1, <1>2

\* update_ticks() on the usage of a slot is what it does to the counters: one
\* tick to rtime of a RUNNING process, one to the others of a waiting one.
THEOREM ChargeExact ==
  \A rtime, other \in Nat, st \in {"UNUSED", "SLEEPING", "RUNNABLE", "RUNNING"} :
    Charge(UsageOf(rtime, other), st)
      = UsageOf(IF st = "RUNNING" THEN rtime + 1 ELSE rtime,
                IF st \in {"SLEEPING", "RUNNABLE"} THEN other + 1 ELSE other)
BY DEF Charge, UsageOf

-----------------------------------------------------------------------------
(* Type correctness.                                                       *)

\* The loop variables stay inside the process table.
LEMMA SlotType ==
  /\ 0 \in Proc
  /\ \A i \in Proc : (i + 1) % NPROC \in Proc /\ i \in 0 .. NPROC
  /\ \A i \in 0 .. NPROC : i < NPROC => i \in Proc /\ i + 1 \in 0 .. NPROC
  /\ 0 \in 0 .. NPROC
BY PolicyAssumption DEF Proc

LEMMA VRuntimeType == TypeOK => \A p \in Proc : VRuntime(p) \in Int
BY DEF TypeOK, VRuntime, Weight, Quotient

LEMMA KeyType == TypeOK => \A c \in CPU, p \in Proc : Key(c, p) \in Int
BY VRuntimeType DEF TypeOK, Key

LEMMA TypeInit == Init => TypeOK
BY PolicyAssumption DEF Init, TypeOK, Proc, OLD

\* A scheduler loop that is called, on top of a well-typed stack.
LoopTypeOK ==
  /\ loop \in [CPU -> 0 .. 2]
  /\ frames \in [CPU -> Nat]
  /\ spc \in [CPU -> {"boot", "enter", "slot", "back", "scan", "switch"}]
  /\ idx \in [CPU -> Proc]
  /\ mi \in [CPU -> 0 .. NPROC]
  /\ minimum \in [CPU -> Int]
  /\ waiting \in [CPU -> SUBSET Proc]

LEMMA CallLoopType ==
  ASSUME TypeOK, NEW c \in CPU, CallLoop(c, policy)
  PROVE  LoopTypeOK'
<1> DEFINE k == policy
<1> USE DEF LoopTypeOK
<1>1. FrameBytes(k) \in Nat
    BY DEF FrameBytes
<1>2. /\ loop' \in [CPU -> 0 .. 2]
      /\ frames' \in [CPU -> Nat]
      /\ idx' \in [CPU -> Proc]
    BY <1>1, SlotType DEF TypeOK, CallLoop
<1>3. CASE k = OLD
    BY <1>2, <1>3 DEF TypeOK, CallLoop
<1>4. CASE k # OLD
  <2>1. StartScan(c, "enter")
    BY <1>4 DEF CallLoop
  <2> QED
    BY <1>2, <2>1, SlotType DEF TypeOK, StartScan, Runnable
<1> QED
    BY <1>3, <1>4

LEMMA TypeStep == TypeOK /\ [Next]_vars => TypeOK'
<1> SUFFICES ASSUME TypeOK, [Next]_vars PROVE TypeOK'
    OBVIOUS
<1>1. CASE UNCHANGED vars
    BY <1>1 DEF vars, TypeOK
<1>2. ASSUME NEW c \in CPU, Schedule(c) \/ Timer(c) \/ IdleTimer(c) \/ Run(c)
      PROVE  TypeOK'
  <2> USE PolicyAssumption DEF TypeOK, procVars, cpuVars
  <2>1. CASE Boot(c)
    <3>1. LoopTypeOK'
      BY <2>1, CallLoopType DEF Boot
    <3> QED
      BY <2>1, <3>1, SMT DEF Boot, LoopTypeOK
  <2>2. CASE ScanSlot(c)
    BY <2>2, KeyType, SlotType, SMT DEF ScanSlot
  <2>3. CASE ScanDone(c)
    BY <2>3, SMT DEF ScanDone
  <2>4. CASE Dispatch(c)
    BY <2>4, SMT DEF Dispatch
  <2>5. CASE PassSlot(c)
    BY <2>5, SMT DEF PassSlot, EndOfSlot, StartScan, Runnable
  <2>6. CASE NextSlot(c)
    BY <2>6, SlotType, SMT DEF NextSlot
  <2>7. CASE SwitchLoop(c)
    <3>1. LoopTypeOK'
      BY <2>7, CallLoopType DEF SwitchLoop
    <3> QED
      BY <2>7, <3>1, SMT DEF SwitchLoop, LoopTypeOK
  <2>8. CASE Timer(c)
    BY <2>8, SMT DEF Timer, Leave, update_ticks, Charge
  <2>9. CASE IdleTimer(c)
    BY <2>9, SMT DEF IdleTimer, update_ticks, Charge
  <2>10. CASE Sleep(c)
    BY <2>10, SMT DEF Sleep, Leave
  <2>11. CASE Exit(c)
    BY <2>11, SMT DEF Exit, Leave
  <2>12. CASE Fork(c)
    BY <2>12, SMT DEF Fork
  <2>13. CASE sys_set_ps_priority(c)
    BY <2>13, SMT DEF sys_set_ps_priority, set_ps_priority
  <2>14. CASE sys_set_cfs_priority(c)
    BY <2>14, SMT DEF sys_set_cfs_priority, set_cfs_priority
  <2>15. CASE sys_set_policy(c)
    BY <2>15, SMT DEF sys_set_policy, set_policy
  <2> QED
    BY <1>2, <2>1, <2>2, <2>3, <2>4, <2>5, <2>6, <2>7, <2>8, <2>9, <2>10, <2>11, <2>12,
       <2>13, <2>14, <2>15 DEF Schedule, Run
<1>3. ASSUME NEW p \in Proc, Wakeup(p) PROVE TypeOK'
    BY <1>3 DEF TypeOK, Wakeup, cpuVars
<1> QED
    BY <1>1, <1>2, <1>3 DEF Next

\* Every variable keeps its type, for every instance.
THEOREM TypeCorrect == Spec => []TypeOK
BY TypeInit, TypeStep, PTL DEF Spec

-----------------------------------------------------------------------------
(* A process runs on one CPU.                                              *)

LEMMA RunningInit == Init => RunningOnOne
BY PolicyAssumption DEF Init, RunningOnOne

\* RunningOnOne depends on state and on only.
LEMMA RunningStep == TypeOK /\ RunningOnOne /\ [Next]_vars => RunningOnOne'
<1> SUFFICES ASSUME TypeOK, RunningOnOne, [Next]_vars PROVE RunningOnOne'
    OBVIOUS
<1> USE PolicyAssumption
<1>1. CASE UNCHANGED <<state, on>>
    BY <1>1 DEF RunningOnOne
<1>2. ASSUME NEW c \in CPU, Dispatch(c) PROVE RunningOnOne'
    BY <1>2, SMT DEF Dispatch, RunningOnOne, TypeOK
<1>3. ASSUME NEW c \in CPU, NEW st \in {"RUNNABLE", "SLEEPING", "UNUSED"}, Leave(c, st)
      PROVE  RunningOnOne'
    BY <1>3, SMT DEF Leave, RunningOnOne, TypeOK
<1>4. ASSUME NEW c \in CPU, Fork(c) PROVE RunningOnOne'
    BY <1>4, SMT DEF Fork, RunningOnOne, TypeOK, cpuVars
<1>5. ASSUME NEW p \in Proc, Wakeup(p) PROVE RunningOnOne'
    BY <1>5, SMT DEF Wakeup, RunningOnOne, TypeOK, cpuVars
<1>6. CASE UNCHANGED vars
    BY <1>1, <1>6 DEF vars
<1>7. ASSUME NEW c \in CPU, Schedule(c) \/ Timer(c) \/ IdleTimer(c) \/ Run(c)
      PROVE  RunningOnOne'
    BY <1>1, <1>2, <1>3, <1>4, <1>7
    DEF Schedule, Run, Boot, ScanSlot, ScanDone, PassSlot, NextSlot, SwitchLoop, Timer,
        IdleTimer, Sleep, Exit, sys_set_ps_priority, set_ps_priority, sys_set_cfs_priority,
        set_cfs_priority, sys_set_policy, set_policy, procVars, cpuVars
<1> QED
    BY <1>5, <1>6, <1>7 DEF Next

\* A process is RUNNING exactly while one CPU, and only one, runs it, for every
\* number of CPUs in whichever loops.
THEOREM OneCpuEach == Spec => []RunningOnOne
BY TypeInit, TypeStep, RunningInit, RunningStep, PTL DEF Spec

-----------------------------------------------------------------------------
(* The priority loop.                                                      *)

\* Processes counted as waiting since the scan began are still RUNNABLE.
StillWaiting == \A c \in CPU : \A q \in waiting[c] : state[q] = "RUNNABLE"

\* The scan of the priority loop has seen what it has passed, and its result
\* is a lower bound on it; the -1 it starts from is gone.
ScanBound ==
  \A c \in CPU : loop[c] = PS =>
    /\ spc[c] \in {"slot", "switch"} => mi[c] = NPROC
    /\ \A q \in waiting[c] : q < mi[c] =>
         minimum[c] # -1 /\ minimum[c] <= accumulator[q]

\* Every CPU that has not reached its scheduler() counts as in the old loop.
BootOld == \A c \in CPU : spc[c] = "boot" => loop[c] = OLD

PsInv == TypeOK /\ RunningOnOne /\ StillWaiting /\ ScanBound /\ BootOld

LEMMA PsInit == Init => PsInv
BY TypeInit, RunningInit DEF Init, PsInv, StillWaiting, ScanBound, BootOld, OLD, PS

\* Steps that leave the scans and everything they have seen alone.
LEMMA PsQuiet ==
  ASSUME PsInv, UNCHANGED <<loop, spc, mi, minimum, waiting>>,
         \A c \in CPU : \A q \in waiting[c] :
           state'[q] = "RUNNABLE" /\ accumulator'[q] = accumulator[q]
  PROVE  (StillWaiting /\ ScanBound /\ BootOld)'
BY DEF PsInv, StillWaiting, ScanBound, BootOld

\* A scan that starts has seen nothing; the other CPUs' scans go on.
LEMMA PsStart ==
  ASSUME PsInv, NEW c \in CPU, NEW label \in {"enter", "scan"}, StartScan(c, label),
         UNCHANGED <<state, accumulator>>,
         \A d \in CPU \ {c} : loop'[d] = loop[d]
  PROVE  (StillWaiting /\ ScanBound /\ BootOld)'
<1> USE DEF PsInv, TypeOK, StartScan
<1>1. StillWaiting'
    BY DEF StillWaiting, Runnable
<1>2. ScanBound'
  <2>1. \A q \in waiting'[c] : ~(q < mi'[c])
    BY DEF Proc, Runnable
  <2> QED
    BY <2>1 DEF ScanBound
<1>3. BootOld'
    BY DEF BootOld
<1> QED
    BY <1>1, <1>2, <1>3

\* Calling a loop: the old one does not scan, the others start to.
LEMMA PsCall ==
  ASSUME PsInv, NEW c \in CPU, CallLoop(c, policy), UNCHANGED <<state, accumulator>>
  PROVE  (StillWaiting /\ ScanBound /\ BootOld)'
<1>1. CASE policy = OLD
    BY <1>1 DEF PsInv, TypeOK, CallLoop, StillWaiting, ScanBound, BootOld, OLD, PS
<1>2. CASE policy # OLD
    BY <1>2, PsStart DEF PsInv, TypeOK, CallLoop
<1> QED
    BY <1>1, <1>2

\* One slot of find_minimum() extends the bound to that slot.
LEMMA PsScanSlot ==
  ASSUME PsInv, NEW c \in CPU, ScanSlot(c)
  PROVE  (StillWaiting /\ ScanBound /\ BootOld)'
<1> USE DEF PsInv, TypeOK, ScanSlot, procVars
<1>1. (StillWaiting /\ BootOld)'
    BY DEF StillWaiting, BootOld
<1>2. ASSUME NEW q \in waiting[c], q < mi'[c], loop[c] = PS
      PROVE  minimum'[c] # -1 /\ minimum'[c] <= accumulator[q]
  <2>1. mi[c] \in Proc /\ q \in Proc /\ Key(c, mi[c]) = accumulator[mi[c]]
    BY <1>2, SlotType DEF Key
  <2>2. q < mi[c] \/ q = mi[c]
    BY <1>2, <2>1 DEF Proc
  <2>3. CASE q < mi[c]
    <3>1. minimum[c] # -1 /\ minimum[c] <= accumulator[q]
      BY <1>2, <2>3 DEF ScanBound
    <3> QED
      BY <2>1, <3>1
  <2>4. CASE q = mi[c]
    <3>1. state[q] = "RUNNABLE"
      BY DEF StillWaiting
    <3> QED
      BY <2>1, <2>4, <3>1
  <2> QED
    BY <2>2, <2>3, <2>4
<1>3. ScanBound'
    BY <1>2 DEF ScanBound
<1> QED
    BY <1>1, <1>3

LEMMA PsStep == PsInv /\ [Next]_vars => PsInv'
<1> SUFFICES ASSUME PsInv, [Next]_vars PROVE (StillWaiting /\ ScanBound /\ BootOld)'
    BY TypeStep, RunningStep DEF PsInv
<1>1. CASE UNCHANGED vars
    BY <1>1 DEF vars, PsInv, StillWaiting, ScanBound, BootOld
<1>2. ASSUME NEW c \in CPU, Schedule(c) \/ Timer(c) \/ IdleTimer(c) \/ Run(c)
      PROVE  (StillWaiting /\ ScanBound /\ BootOld)'
  <2> USE DEF procVars, cpuVars
  <2>1. CASE Boot(c) \/ SwitchLoop(c)
    BY <2>1, PsCall DEF Boot, SwitchLoop
  <2>2. CASE ScanSlot(c)
    BY <2>2, PsScanSlot
  <2>3. CASE ScanDone(c)
    BY <2>3 DEF ScanDone, PsInv, TypeOK, StillWaiting, ScanBound, BootOld
  <2>4. CASE Dispatch(c)
    BY <2>4 DEF Dispatch, PsInv, TypeOK, StillWaiting, ScanBound, BootOld
  <2>5. CASE PassSlot(c)
    <3>1. CASE loop[c] = OLD
      BY <2>5, <3>1 DEF PassSlot, EndOfSlot, PsInv, TypeOK, StillWaiting, ScanBound,
                        BootOld, OLD, PS
    <3>2. CASE loop[c] # OLD
      BY <2>5, <3>2, PsStart DEF PassSlot, EndOfSlot
    <3> QED
      BY <3>1, <3>2
  <2>6. CASE NextSlot(c)
    BY <2>6 DEF NextSlot, PsInv, TypeOK, StillWaiting, ScanBound, BootOld
  <2>7. CASE Timer(c) \/ Sleep(c) \/ Exit(c)
    <3>1. \A d \in CPU : \A q \in waiting[d] : q # on[c]
      <4>1. on[c] \in Proc
        BY <2>7 DEF Timer, Sleep, Exit, Leave
      <4>2. state[on[c]] = "RUNNING"
        BY <4>1 DEF PsInv, RunningOnOne
      <4> QED
        BY <4>2 DEF PsInv, StillWaiting
    <3>2. \A d \in CPU : \A q \in waiting[d] :
            state'[q] = "RUNNABLE" /\ accumulator'[q] = accumulator[q]
      BY <2>7, <3>1 DEF Timer, Sleep, Exit, Leave, PsInv, TypeOK, StillWaiting
    <3> QED
      BY <2>7, <3>2, PsQuiet DEF Timer, Sleep, Exit
  <2>8. CASE Fork(c)
    <3>1. \A d \in CPU : \A q \in waiting[d] : state'[q] = "RUNNABLE"
      BY <2>8 DEF Fork, PsInv, TypeOK, StillWaiting
    <3> QED
      BY <2>8, <3>1, PsQuiet DEF Fork
  <2>9. CASE IdleTimer(c) \/ sys_set_ps_priority(c) \/ sys_set_cfs_priority(c) \/ sys_set_policy(c)
    BY <2>9, PsQuiet
    DEF IdleTimer, sys_set_ps_priority, set_ps_priority, sys_set_cfs_priority,
        set_cfs_priority, sys_set_policy, set_policy, PsInv, StillWaiting
  <2> QED
    BY <1>2, <2>1, <2>2, <2>3, <2>4, <2>5, <2>6, <2>7, <2>8, <2>9 DEF Schedule, Run
<1>3. ASSUME NEW p \in Proc, Wakeup(p) PROVE (StillWaiting /\ ScanBound /\ BootOld)'
  <2>1. \A d \in CPU : \A q \in waiting[d] : state'[q] = "RUNNABLE"
    BY <1>3 DEF Wakeup, PsInv, TypeOK, StillWaiting
  <2> QED
    BY <1>3, <2>1, PsQuiet DEF Wakeup, cpuVars
<1> QED
    BY <1>1, <1>2, <1>3 DEF Next

\* schedulerPriority() dispatches a process only if its accumulator is at most
\* that of every process RUNNABLE since its find_minimum() began, for any number
\* of CPUs and processes.
THEOREM PriorityIsMinimum == Spec => PsPicksMinimum
<1>1. PsInv /\ [Next]_vars =>
        [\A c \in CPU : Dispatch(c) /\ loop[c] = PS =>
           \A q \in waiting[c] : accumulator[idx[c]] <= accumulator[q]]_vars
  <2> SUFFICES ASSUME PsInv, NEW c \in CPU, Dispatch(c), loop[c] = PS, NEW q \in waiting[c]
               PROVE  accumulator[idx[c]] <= accumulator[q]
    OBVIOUS
  <2>1. accumulator[idx[c]] <= minimum[c]
    BY DEF Dispatch, Chosen, Key, OLD, PS
  <2>2. minimum[c] <= accumulator[q]
    BY PolicyAssumption DEF Dispatch, PsInv, ScanBound, TypeOK, Proc
  <2>3. accumulator[idx[c]] \in Nat /\ accumulator[q] \in Nat /\ minimum[c] \in Int
    BY DEF PsInv, TypeOK
  <2> QED
    BY <2>1, <2>2, <2>3
<1> QED
    BY <1>1, PsInit, PsStep, PTL DEF Spec, PsPicksMinimum
-----------------------------------------------------------------------------
(* The boot stack.                                                         *)

\* Every frame beyond the first is paid for by a set_policy(): a CPU that runs
\* the loop of another policy than the present one has one frame to spare.
FramesPaid ==
  \A c \in CPU :
    /\ frames[c] <= 96 * (switches + 1)
    /\ policy # loop[c] => frames[c] <= 96 * switches
    /\ spc[c] = "boot" => frames[c] = 0

\* A call of a loop takes at most 96 bytes of the CPU's stack and no other's.
LEMMA CallLoopFrames ==
  ASSUME TypeOK, NEW c \in CPU, CallLoop(c, policy)
  PROVE  /\ frames'[c] <= frames[c] + 96
         /\ loop'[c] = policy
         /\ spc'[c] # "boot"
         /\ \A d \in CPU \ {c} :
              frames'[d] = frames[d] /\ loop'[d] = loop[d] /\ spc'[d] = spc[d]
<1>1. FrameBytes(policy) \in Nat /\ FrameBytes(policy) <= 96
    BY DEF FrameBytes
<1> QED
    BY <1>1 DEF CallLoop, StartScan, TypeOK

LEMMA FramesStep == TypeOK /\ FramesPaid /\ [Next]_vars => FramesPaid'
<1> SUFFICES ASSUME TypeOK, FramesPaid, [Next]_vars PROVE FramesPaid'
    OBVIOUS
<1> switches \in Nat /\ \A c \in CPU : frames[c] \in Nat
    BY PolicyAssumption DEF TypeOK
<1>1. ASSUME NEW c \in CPU, Boot(c) \/ SwitchLoop(c) PROVE FramesPaid'
  <2>1. /\ CallLoop(c, policy) /\ policy' = policy /\ switches' = switches
        /\ frames[c] <= 96 * switches
    BY <1>1 DEF Boot, SwitchLoop, FramesPaid
  <2>2. frames'[c] \in Nat
    BY <2>1 DEF CallLoop, FrameBytes, TypeOK
  <2> QED
    BY <2>1, <2>2, CallLoopFrames DEF FramesPaid
<1>2. ASSUME NEW c \in CPU, sys_set_policy(c) PROVE FramesPaid'
    BY <1>2 DEF sys_set_policy, set_policy, FramesPaid, cpuVars
<1>3. CASE /\ UNCHANGED <<policy, switches, loop, frames>>
           /\ \A c \in CPU : spc'[c] = "boot" => spc[c] = "boot"
    BY <1>3 DEF FramesPaid
<1>4. ASSUME NEW c \in CPU,
             \/ ScanSlot(c) \/ ScanDone(c) \/ Dispatch(c) \/ PassSlot(c) \/ NextSlot(c)
             \/ Timer(c) \/ IdleTimer(c) \/ Sleep(c) \/ Exit(c) \/ Fork(c)
             \/ sys_set_ps_priority(c) \/ sys_set_cfs_priority(c)
      PROVE  FramesPaid'
    BY <1>3, <1>4 DEF ScanSlot, ScanDone, Dispatch, PassSlot, EndOfSlot, StartScan, NextSlot,
       Timer, IdleTimer, Sleep, Exit, Fork, sys_set_ps_priority, set_ps_priority,
       sys_set_cfs_priority, set_cfs_priority, cpuVars, TypeOK
<1>5. ASSUME NEW p \in Proc, Wakeup(p) PROVE FramesPaid'
    BY <1>3, <1>5 DEF Wakeup, cpuVars
<1>6. CASE UNCHANGED vars
    BY <1>3, <1>6 DEF vars
<1> QED
    BY <1>1, <1>2, <1>4, <1>5, <1>6 DEF Next, Schedule, Run

\* The scheduler frames of a CPU fit its boot stack as long as set_policy() has
\* been called at most 41 times since boot: nothing but a change of policy makes
\* the stack grow, whatever the CPUs and processes do.  (Beyond that it may
\* overflow: the loops never return.)
THEOREM StackLasts ==
  ASSUME MaxSwitches <= 41
  PROVE  Spec => []StackFits
<1>1. Init => FramesPaid
    BY DEF Init, FramesPaid, OLD
<1>2. TypeOK /\ FramesPaid => StackFits
  <2> SUFFICES ASSUME TypeOK, FramesPaid, NEW c \in CPU
               PROVE  frames[c] <= 4096
    BY DEF StackFits, BootStackBytes
  <2>1. switches \in Nat /\ switches <= 41 /\ frames[c] \in Nat
    BY PolicyAssumption DEF TypeOK
  <2> QED
    BY <2>1 DEF FramesPaid
<1> QED
    BY <1>1, <1>2, TypeCorrect, FramesStep, PTL DEF Spec
=============================================================================
