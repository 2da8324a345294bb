-------------------------------- MODULE Proc --------------------------------
(***************************************************************************)
(* The life cycle of processes (kernel/proc.c): allocproc, freeproc, fork, *)
(* exit, reparent, wait, kill and the checks of p->killed in usertrap.     *)
(*                                                                         *)
(* A thread is named by its process.  A section between acquire(&q->lock)  *)
(* and its release that touches only q is one step; p->lock is in the      *)
(* state where it is held longer: by fork() while it takes a second        *)
(* process lock, and by sleep() and exit() until the scheduler, back on    *)
(* its own stack, releases it.  There are as many harts as processes, so   *)
(* preemption adds no order of steps and is left to module Sched.          *)
(***************************************************************************)
EXTENDS Integers

CONSTANTS
  NPROC,        \* size of the process table
  MaxPid,       \* bound on pids: a fork() past it finds no memory
  KillPids,     \* the arguments programs pass to kill()
  NoProc        \* null process pointer; a free lock

Proc == 0 .. NPROC - 1
InitProc == 0

ASSUME ProcAssumption ==
  /\ NPROC \in Nat \ {0}
  /\ MaxPid \in Nat \ {0}
  /\ KillPids \subseteq Nat
  /\ NoProc \notin Proc

VARIABLES
  state,      \* p->state
  pid,        \* p->pid, 0 when the slot is free
  parent,     \* p->parent, protected by wait_lock
  killed,     \* p->killed
  chan,       \* p->chan
  nextpid,
  plock,      \* p->lock: the thread that holds it
  wait_lock,  \* the thread that holds it
  pc,         \* where the thread of a process is
  slot,       \* p or pp, the loop variable of allocproc, reparent, wait, kill
  wslot,      \* p, the loop variable of wakeup()
  np,         \* np, the child that fork() sets up
  havekids,   \* havekids in wait()
  target      \* the argument of kill()

entryVars == <<state, pid, parent, killed, chan>>
localVars == <<slot, wslot, np, havekids, target>>
vars == <<state, pid, parent, killed, chan, nextpid, plock, wait_lock, pc,
          slot, wslot, np, havekids, target>>

ProcState == {"UNUSED", "USED", "SLEEPING", "RUNNABLE", "RUNNING", "ZOMBIE"}

\* "gone": the thread has left its kernel stack for good (or never had one).
Pc == {"gone", "forkret", "user",
       "alloc", "setparent", "lockchild", "setrunnable",
       "exit", "reparent", "wake_init", "wake_parent", "zombie", "exit_sched",
       "wait", "scan", "waitsleep", "sleep", "sleep_sched", "asleep",
       "kill"}

TypeOK ==
  /\ state \in [Proc -> ProcState]
  /\ pid \in [Proc -> 0 .. MaxPid]
  /\ parent \in [Proc -> Proc \cup {NoProc}]
  /\ killed \in [Proc -> BOOLEAN]
  /\ chan \in [Proc -> Proc \cup {NoProc}]
  /\ nextpid \in 1 .. MaxPid + 1
  /\ plock \in [Proc -> Proc \cup {NoProc}]
  /\ wait_lock \in Proc \cup {NoProc}
  /\ pc \in [Proc -> Pc]
  /\ slot \in [Proc -> 0 .. NPROC]
  /\ wslot \in [Proc -> 0 .. NPROC]
  /\ np \in [Proc -> Proc \cup {NoProc}]
  /\ havekids \in [Proc -> BOOLEAN]
  /\ target \in [Proc -> KillPids \cup {0}]

\* procinit() and userinit(): only the first process, with pid 1, exists.
Init ==
  /\ state = [p \in Proc |-> IF p = InitProc THEN "RUNNABLE" ELSE "UNUSED"]
  /\ pid = [p \in Proc |-> IF p = InitProc THEN 1 ELSE 0]
  /\ parent = [p \in Proc |-> NoProc]
  /\ killed = [p \in Proc |-> FALSE]
  /\ chan = [p \in Proc |-> NoProc]
  /\ nextpid = 2
  /\ plock = [p \in Proc |-> NoProc]
  /\ wait_lock = NoProc
  /\ pc = [p \in Proc |-> IF p = InitProc THEN "forkret" ELSE "gone"]
  /\ slot = [p \in Proc |-> 0]
  /\ wslot = [p \in Proc |-> 0]
  /\ np = [p \in Proc |-> NoProc]
  /\ havekids = [p \in Proc |-> FALSE]
  /\ target = [p \in Proc |-> 0]

At(p, label) == state[p] = "RUNNING" /\ pc[p] = label
Goto(p, label) == pc' = [pc EXCEPT ![p] = label]
\* acquire(&q->lock) by a thread that releases it within the same step.
Free(q) == plock[q] = NoProc
NextSlot(p) == slot' = [slot EXCEPT ![p] = @ + 1]

\* freeproc() that forgets p->killed.
FreeKeepKilled(q) ==
  /\ state' = [state EXCEPT ![q] = "UNUSED"]
  /\ pid' = [pid EXCEPT ![q] = 0]
  /\ parent' = [parent EXCEPT ![q] = NoProc]
  /\ chan' = [chan EXCEPT ![q] = NoProc]
  /\ UNCHANGED killed

\* freeproc(q), with q->lock held.
freeproc(q) ==
  /\ state' = [state EXCEPT ![q] = "UNUSED"]
  /\ pid' = [pid EXCEPT ![q] = 0]
  /\ parent' = [parent EXCEPT ![q] = NoProc]
  /\ killed' = [killed EXCEPT ![q] = FALSE]
  /\ chan' = [chan EXCEPT ![q] = NoProc]

\* The system call returns to user space; its local variables are dead.
Return(p) ==
  /\ Goto(p, "user")
  /\ slot' = [slot EXCEPT ![p] = 0]
  /\ np' = [np EXCEPT ![p] = NoProc]
  /\ havekids' = [havekids EXCEPT ![p] = FALSE]
  /\ target' = [target EXCEPT ![p] = 0]
  /\ UNCHANGED wslot

-----------------------------------------------------------------------------
(* Traps from user space.                                                  *)

\* scheduler() dispatches p: first run (forkret), or the return of sched() in
\* sleep(), which clears p->chan; both then release p->lock.
Dispatch(p) ==
  /\ state[p] = "RUNNABLE" /\ pc[p] \in {"forkret", "asleep"} /\ Free(p)
  /\ state' = [state EXCEPT ![p] = "RUNNING"]
  /\ chan' = [chan EXCEPT ![p] = NoProc]
  /\ Goto(p, IF pc[p] = "asleep" THEN "wait" ELSE "user")
  /\ UNCHANGED <<pid, parent, killed, nextpid, plock, wait_lock, localVars>>

\* usertrap() of a system call: killed(p) is false, and the call begins.
Syscall(p, label) ==
  /\ At(p, "user") /\ Free(p) /\ ~killed[p]
  /\ Goto(p, label)

UserFork(p) ==
  /\ Syscall(p, "alloc")
  /\ UNCHANGED <<entryVars, nextpid, plock, wait_lock, localVars>>

UserWait(p) ==
  /\ Syscall(p, "wait")
  /\ UNCHANGED <<entryVars, nextpid, plock, wait_lock, localVars>>

UserKill(p) ==
  /\ Syscall(p, "kill")
  /\ \E t \in KillPids : target' = [target EXCEPT ![p] = t]
  /\ UNCHANGED <<entryVars, nextpid, plock, wait_lock, slot, wslot, np, havekids>>

\* exit() by the program; init never calls it (its exit is a panic).
UserExit(p) ==
  /\ p # InitProc
  /\ Syscall(p, "exit")
  /\ UNCHANGED <<entryVars, nextpid, plock, wait_lock, localVars>>

\* A user exception: setkilled(p), and the killed(p) after it is true.
UserFault(p) ==
  /\ p # InitProc
  /\ At(p, "user") /\ Free(p)
  /\ killed' = [killed EXCEPT ![p] = TRUE]
  /\ Goto(p, "exit")
  /\ UNCHANGED <<state, pid, parent, chan, nextpid, plock, wait_lock, localVars>>

\* killed(p) is true on a trap: exit(-1, "").
KilledTrap(p) ==
  /\ At(p, "user") /\ Free(p) /\ killed[p]
  /\ Goto(p, "exit")
  /\ UNCHANGED <<entryVars, nextpid, plock, wait_lock, localVars>>

-----------------------------------------------------------------------------
(* fork() and allocproc().                                                 *)

\* The slot under the loop of allocproc() is taken.
AllocSkip(p) ==
  /\ At(p, "alloc") /\ slot[p] < NPROC
  /\ Free(slot[p]) /\ state[slot[p]] # "UNUSED"
  /\ NextSlot(p)
  /\ UNCHANGED <<entryVars, nextpid, plock, wait_lock, pc, wslot, np, havekids, target>>

\* No free slot: allocproc() returns 0 and fork() -1.
AllocFull(p) ==
  /\ At(p, "alloc") /\ slot[p] = NPROC
  /\ Return(p)
  /\ UNCHANGED <<entryVars, nextpid, plock, wait_lock>>

\* allocproc() found a free slot; the memory is copied and np->lock released.
\* p->killed is not among the fields allocproc() sets.
AllocFound(p) ==
  LET q == slot[p] IN
  /\ At(p, "alloc") /\ q < NPROC
  /\ Free(q) /\ state[q] = "UNUSED" /\ nextpid <= MaxPid
  /\ pid' = [pid EXCEPT ![q] = nextpid]
  /\ nextpid' = nextpid + 1
  /\ state' = [state EXCEPT ![q] = "USED"]
  /\ np' = [np EXCEPT ![p] = q]
  /\ pc' = [pc EXCEPT ![p] = "setparent", ![q] = "forkret"]
  /\ UNCHANGED <<parent, killed, chan, plock, wait_lock, slot, wslot, havekids, target>>

\* kalloc(), proc_pagetable() or uvmcopy() fails after allocpid(): freeproc(np).
AllocNoMemory(p) ==
  LET q == slot[p] IN
  /\ At(p, "alloc") /\ q < NPROC
  /\ Free(q) /\ state[q] = "UNUSED"
  /\ nextpid' = IF nextpid <= MaxPid THEN nextpid + 1 ELSE nextpid
  /\ freeproc(q)
  /\ Return(p)
  /\ UNCHANGED <<plock, wait_lock>>

\* acquire(&wait_lock); np->parent = p; release(&wait_lock).
ForkParent(p) ==
  /\ At(p, "setparent") /\ wait_lock = NoProc
  /\ parent' = [parent EXCEPT ![np[p]] = p]
  /\ Goto(p, "lockchild")
  /\ UNCHANGED <<state, pid, killed, chan, nextpid, plock, wait_lock, localVars>>

\* acquire(&np->lock), the first of two process locks.
ForkLockChild(p) ==
  /\ At(p, "lockchild") /\ Free(np[p])
  /\ plock' = [plock EXCEPT ![np[p]] = p]
  /\ Goto(p, "setrunnable")
  /\ UNCHANGED <<entryVars, nextpid, wait_lock, localVars>>

\* Under parent->lock the CFS priority is copied; then np is RUNNABLE.
ForkRunnable(p) ==
  LET q == np[p] IN
  /\ At(p, "setrunnable") /\ Free(parent[q])
  /\ state' = [state EXCEPT ![q] = "RUNNABLE"]
  /\ plock' = [plock EXCEPT ![q] = NoProc]
  /\ Return(p)
  /\ UNCHANGED <<pid, parent, killed, chan, nextpid, wait_lock>>

-----------------------------------------------------------------------------
(* exit(), reparent() and the wakeup() they call.                          *)

\* init may not exit (panic: the machine stops).  Otherwise files are closed,
\* then acquire(&wait_lock).
ExitLock(p) ==
  /\ At(p, "exit") /\ p # InitProc
  /\ wait_lock = NoProc
  /\ wait_lock' = p
  /\ slot' = [slot EXCEPT ![p] = 0]
  /\ Goto(p, "reparent")
  /\ UNCHANGED <<entryVars, nextpid, plock, wslot, np, havekids, target>>

\* reparent() that passes over children that have exited.
ReparentLiving(p) ==
  LET q == slot[p] IN
  /\ At(p, "reparent") /\ q < NPROC
  /\ NextSlot(p)
  /\ IF parent[q] = p /\ state[q] # "ZOMBIE"
     THEN /\ parent' = [parent EXCEPT ![q] = InitProc]
          /\ wslot' = [wslot EXCEPT ![p] = 0]
          /\ Goto(p, "wake_init")
     ELSE UNCHANGED <<parent, wslot, pc>>
  /\ UNCHANGED <<state, pid, killed, chan, nextpid, plock, wait_lock, np, havekids, target>>

\* One slot of reparent(): an own child goes to init, which is woken.
ReparentSlot(p) ==
  LET q == slot[p] IN
  /\ At(p, "reparent") /\ q < NPROC
  /\ NextSlot(p)
  /\ IF parent[q] = p
     THEN /\ parent' = [parent EXCEPT ![q] = InitProc]
          /\ wslot' = [wslot EXCEPT ![p] = 0]
          /\ Goto(p, "wake_init")
     ELSE UNCHANGED <<parent, wslot, pc>>
  /\ UNCHANGED <<state, pid, killed, chan, nextpid, plock, wait_lock, np, havekids, target>>

\* exit() without wakeup(p->parent).
ExitSilently(p) ==
  /\ At(p, "reparent") /\ slot[p] = NPROC
  /\ wslot' = [wslot EXCEPT ![p] = 0]
  /\ Goto(p, "zombie")
  /\ UNCHANGED <<entryVars, nextpid, plock, wait_lock, slot, np, havekids, target>>

\* reparent() is done: wakeup(p->parent).
ReparentDone(p) ==
  /\ At(p, "reparent") /\ slot[p] = NPROC
  /\ wslot' = [wslot EXCEPT ![p] = 0]
  /\ Goto(p, "wake_parent")
  /\ UNCHANGED <<entryVars, nextpid, plock, wait_lock, slot, np, havekids, target>>

\* One slot of wakeup(initproc) or wakeup(p->parent).
WakeupSlot(p) ==
  LET q == wslot[p]
      c == IF pc[p] = "wake_init" THEN InitProc ELSE parent[p] IN
  /\ At(p, "wake_init") \/ At(p, "wake_parent")
  /\ q < NPROC
  /\ q # p => Free(q)
  /\ wslot' = [wslot EXCEPT ![p] = q + 1]
  /\ state' = IF q # p /\ state[q] = "SLEEPING" /\ chan[q] = c
              THEN [state EXCEPT ![q] = "RUNNABLE"] ELSE state
  /\ UNCHANGED <<pid, parent, killed, chan, nextpid, plock, wait_lock, pc,
                 slot, np, havekids, target>>

\* wakeup() returns to reparent() or to exit().
WakeupReturn(p) ==
  /\ At(p, "wake_init") \/ At(p, "wake_parent")
  /\ wslot[p] = NPROC
  /\ Goto(p, IF pc[p] = "wake_init" THEN "reparent" ELSE "zombie")
  /\ UNCHANGED <<entryVars, nextpid, plock, wait_lock, localVars>>

\* acquire(&p->lock); ZOMBIE; release(&wait_lock); sched() keeps p->lock.
ExitZombie(p) ==
  /\ At(p, "zombie") /\ Free(p)
  /\ plock' = [plock EXCEPT ![p] = p]
  /\ state' = [state EXCEPT ![p] = "ZOMBIE"]
  /\ wait_lock' = NoProc
  /\ Goto(p, "exit_sched")
  /\ UNCHANGED <<pid, parent, killed, chan, nextpid, localVars>>

\* The scheduler, back on its own stack, releases the p->lock that sched() was
\* called with: the thread has left its kernel stack.
SchedRelease(p) ==
  /\ pc[p] \in {"exit_sched", "sleep_sched"}
  /\ plock' = [plock EXCEPT ![p] = NoProc]
  /\ Goto(p, IF pc[p] = "exit_sched" THEN "gone" ELSE "asleep")
  /\ UNCHANGED <<entryVars, nextpid, wait_lock, localVars>>

-----------------------------------------------------------------------------
(* wait().                                                                 *)

\* acquire(&wait_lock), on entry or at the end of sleep(): scan from slot 0.
WaitLock(p) ==
  /\ At(p, "wait") /\ wait_lock = NoProc
  /\ wait_lock' = p
  /\ slot' = [slot EXCEPT ![p] = 0]
  /\ havekids' = [havekids EXCEPT ![p] = FALSE]
  /\ Goto(p, "scan")
  /\ UNCHANGED <<entryVars, nextpid, plock, wslot, np, target>>

\* The slot is not a child, or a child that has not exited; a child is looked
\* at under its lock.
WaitSkip(p) ==
  LET q == slot[p] IN
  /\ At(p, "scan") /\ q < NPROC
  /\ parent[q] = p => Free(q) /\ state[q] # "ZOMBIE"
  /\ NextSlot(p)
  /\ havekids' = [havekids EXCEPT ![p] = @ \/ parent[q] = p]
  /\ UNCHANGED <<entryVars, nextpid, plock, wait_lock, pc, wslot, np, target>>

\* wait() that looks at the child's state without its lock.
ReapUnlocked(p) ==
  LET q == slot[p] IN
  /\ At(p, "scan") /\ q < NPROC
  /\ parent[q] = p /\ state[q] = "ZOMBIE"
  /\ freeproc(q)
  /\ wait_lock' = NoProc
  /\ Return(p)
  /\ UNCHANGED <<nextpid, plock>>

\* An exited child: freeproc(pp), release both locks, return its pid.
WaitReap(p) ==
  LET q == slot[p] IN
  /\ At(p, "scan") /\ q < NPROC
  /\ parent[q] = p /\ Free(q) /\ state[q] = "ZOMBIE"
  /\ freeproc(q)
  /\ wait_lock' = NoProc
  /\ Return(p)
  /\ UNCHANGED <<nextpid, plock>>

\* The error path of wait() that forgets release(&wait_lock).
BadAddressKeepsLock(p) ==
  /\ At(p, "scan") /\ slot[p] < NPROC /\ p # InitProc
  /\ parent[slot[p]] = p /\ Free(slot[p])
  /\ Return(p)
  /\ UNCHANGED <<entryVars, nextpid, plock, wait_lock>>

\* copyout() of the exit message of a child, or of the status of an exited one,
\* fails: return -1.  init passes null pointers, which are not copied to.
WaitBadAddress(p) ==
  /\ At(p, "scan") /\ slot[p] < NPROC /\ p # InitProc
  /\ parent[slot[p]] = p /\ Free(slot[p])
  /\ wait_lock' = NoProc
  /\ Return(p)
  /\ UNCHANGED <<entryVars, nextpid, plock>>

\* No child, or killed(p): return -1.
WaitNone(p) ==
  /\ At(p, "scan") /\ slot[p] = NPROC
  /\ ~havekids[p] \/ (Free(p) /\ killed[p])
  /\ wait_lock' = NoProc
  /\ Return(p)
  /\ UNCHANGED <<entryVars, nextpid, plock>>

\* killed(p) was false: call sleep(p, &wait_lock).
WaitSleep(p) ==
  /\ At(p, "scan") /\ slot[p] = NPROC
  /\ havekids[p] /\ Free(p) /\ ~killed[p]
  /\ Goto(p, "waitsleep")
  /\ UNCHANGED <<entryVars, nextpid, plock, wait_lock, localVars>>

\* sleep(): acquire(&p->lock), with wait_lock still held.
SleepLockP(p) ==
  /\ At(p, "waitsleep") /\ Free(p)
  /\ plock' = [plock EXCEPT ![p] = p]
  /\ Goto(p, "sleep")
  /\ UNCHANGED <<entryVars, nextpid, wait_lock, localVars>>

\* release(&wait_lock); p->chan = p; SLEEPING; sched() keeps p->lock.
SleepCommit(p) ==
  /\ At(p, "sleep")
  /\ wait_lock' = NoProc
  /\ chan' = [chan EXCEPT ![p] = p]
  /\ state' = [state EXCEPT ![p] = "SLEEPING"]
  /\ Goto(p, "sleep_sched")
  /\ UNCHANGED <<pid, parent, killed, nextpid, plock, localVars>>

-----------------------------------------------------------------------------
(* kill().                                                                 *)

KillSkip(p) ==
  /\ At(p, "kill") /\ slot[p] < NPROC
  /\ Free(slot[p]) /\ pid[slot[p]] # target[p]
  /\ NextSlot(p)
  /\ UNCHANGED <<entryVars, nextpid, plock, wait_lock, pc, wslot, np, havekids, target>>

\* The slot has the pid: mark it, and wake it from sleep().
KillHit(p) ==
  LET q == slot[p] IN
  /\ At(p, "kill") /\ q < NPROC
  /\ Free(q) /\ pid[q] = target[p]
  /\ killed' = [killed EXCEPT ![q] = TRUE]
  /\ state' = [state EXCEPT ![q] = IF @ = "SLEEPING" THEN "RUNNABLE" ELSE @]
  /\ Return(p)
  /\ UNCHANGED <<pid, parent, chan, nextpid, plock, wait_lock>>

KillMiss(p) ==
  /\ At(p, "kill") /\ slot[p] = NPROC
  /\ Return(p)
  /\ UNCHANGED <<entryVars, nextpid, plock, wait_lock>>

-----------------------------------------------------------------------------
\* What a thread does by itself once a system call or a trap has begun.
Step(p) ==
  \/ Dispatch(p) \/ KilledTrap(p) \/ SchedRelease(p)
  \/ AllocSkip(p) \/ AllocFull(p) \/ AllocFound(p) \/ AllocNoMemory(p)
  \/ ForkParent(p) \/ ForkLockChild(p) \/ ForkRunnable(p)
  \/ ExitLock(p) \/ ReparentSlot(p) \/ ReparentDone(p)
  \/ WakeupSlot(p) \/ WakeupReturn(p) \/ ExitZombie(p)
  \/ WaitLock(p) \/ WaitSkip(p) \/ WaitReap(p) \/ WaitBadAddress(p)
  \/ WaitNone(p) \/ WaitSleep(p) \/ SleepLockP(p) \/ SleepCommit(p)
  \/ KillSkip(p) \/ KillHit(p) \/ KillMiss(p)

\* What the program chooses to do.
Call(p) ==
  UserFork(p) \/ UserWait(p) \/ UserKill(p) \/ UserExit(p) \/ UserFault(p)

Next == \E p \in Proc : Step(p) \/ Call(p)

Spec == Init /\ [][Next]_vars

(***************************************************************************)
(* Fairness.  Every thread is scheduled and no acquire() is starved by     *)
(* others that take the same lock (SF).  init loops in wait(), see         *)
(* user/init.c; no other program need make any system call.                *)
(***************************************************************************)
Fairness ==
  /\ \A p \in Proc : SF_vars(Step(p))
  /\ SF_vars(UserWait(InitProc))

FairSpec == Spec /\ Fairness

-----------------------------------------------------------------------------
(* Properties.                                                             *)

Live(p) == state[p] \notin {"UNUSED", "ZOMBIE"}

\* The parent pointer of a process never names a slot whose process has exited:
\* reparent(), the parent assignment in fork() and wait() agree on wait_lock.
ParentAlive ==
  \A q \in Proc : parent[q] \in Proc => Live(parent[q])

\* wait() frees a child only when the child's thread has left its kernel stack
\* (the acquire "make sure the child isn't still in exit() or swtch()").
FreedOffStack ==
  \A p \in Proc : state[p] = "UNUSED" => pc[p] = "gone" /\ plock[p] = NoProc

\* A process is created alive: nothing that happened to its slot before, and no
\* kill() of another pid, has marked it.
BornAlive ==
  [][\A q \in Proc : state[q] = "UNUSED" /\ state'[q] = "USED" => ~killed'[q]]_vars

\* Every process lock and wait_lock is released again; in particular fork(),
\* which takes a child's and the parent's lock, cannot deadlock with wait(),
\* wakeup() or kill().
LocksReleased ==
  /\ \A p \in Proc : (plock[p] # NoProc) ~> (plock[p] = NoProc)
  /\ (wait_lock # NoProc) ~> (wait_lock = NoProc)

\* A process whose parent has died and that exits is freed by init.
OrphansReaped ==
  \A q \in Proc : (state[q] = "ZOMBIE" /\ parent[q] = InitProc) ~> (state[q] = "UNUSED")
=============================================================================
