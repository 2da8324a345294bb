------------------------------- MODULE Sched -------------------------------
(***************************************************************************)
(* Context switching, sleep/wakeup and sleep locks (kernel/proc.c,         *)
(* kernel/sleeplock.c, kernel/swtch.S).                                    *)
(*                                                                         *)
(* Every CPU runs the round-robin loop of scheduler_old().  A process      *)
(* thread is on a CPU from the swtch() that enters it to the swtch() that  *)
(* leaves it, and p->lock is held across both: it is taken by one thread   *)
(* and released by the other.  The processes use acquiresleep() and        *)
(* releasesleep(), the kernel's main clients of sleep() and wakeup(), and  *)
(* a timer interrupt may make a process yield() wherever it holds no spin  *)
(* lock (acquire() turns interrupts off).                                  *)
(*                                                                         *)
(* A section  acquire(&p->lock) ... release(&p->lock)  that only touches   *)
(* fields of p is one step; a lock held from one step to the next is in    *)
(* the state, as the CPU that holds it (lk->cpu).                          *)
(***************************************************************************)
EXTENDS Integers, FiniteSets

CONSTANTS
  NPROC,        \* size of the process table
  CPU,          \* the harts
  SleepLock,    \* the sleep locks, each its own sleep channel
  NoProc,       \* null process pointer; as on[c]: the scheduler's own stack
  NoCPU,        \* lk->cpu of a spin lock that is free
  NoLock        \* null channel

Proc == 0 .. NPROC - 1

ASSUME SchedAssumption ==
  /\ NPROC \in Nat \ {0}
  /\ NoProc \notin Proc
  /\ NoCPU \notin CPU
  /\ NoLock \notin SleepLock

VARIABLES
  state,    \* p->state
  chan,     \* p->chan
  lock,     \* p->lock: the CPU that holds it
  on,       \* whose kernel stack a CPU runs on
  cproc,    \* c->proc
  idx,      \* p, the loop variable of scheduler_old()
  spc,      \* where the scheduler of a CPU is
  pc,       \* where a process is
  after,    \* where a preempted process continues
  want,     \* the sleep lock a process is acquiring or releasing
  wi,       \* p, the loop variable of wakeup()
  lk,       \* lk->lk: the CPU that holds the spin lock inside a sleep lock
  holder    \* lk->locked and lk->pid: the process that holds a sleep lock

schedVars == <<on, cproc, idx, spc>>
lockVars == <<lk, holder>>
vars == <<state, chan, lock, on, cproc, idx, spc, pc, after, want, wi, lk, holder>>

ProcState == {"SLEEPING", "RUNNABLE", "RUNNING"}

\* Interrupts are on: no spin lock is held.
OpenPc == {"user", "acquire", "release"}
\* Inside sched(), p->lock held, before swtch() saves the context.
LeavingPc == {"yielding", "sleeping"}
\* Where swtch() returns to: forkret(), or sched() called by yield() or sleep().
SavedPc == {"forkret", "yielded", "slept"}
\* Between acquire(&lk->lk) and the release of it.
InLkPc == {"test", "sleep", "wakeup"}
Pc == OpenPc \cup LeavingPc \cup SavedPc \cup InLkPc

TypeOK ==
  /\ state \in [Proc -> ProcState]
  /\ chan \in [Proc -> SleepLock \cup {NoLock}]
  /\ lock \in [Proc -> CPU \cup {NoCPU}]
  /\ on \in [CPU -> Proc \cup {NoProc}]
  /\ cproc \in [CPU -> Proc \cup {NoProc}]
  /\ idx \in [CPU -> Proc]
  /\ spc \in [CPU -> {"scan", "back"}]
  /\ pc \in [Proc -> Pc]
  /\ after \in [Proc -> OpenPc]
  /\ want \in [Proc -> SleepLock \cup {NoLock}]
  /\ wi \in [Proc -> 0 .. NPROC]
  /\ lk \in [SleepLock -> CPU \cup {NoCPU}]
  /\ holder \in [SleepLock -> Proc \cup {NoProc}]

\* Every process has been forked and waits for its first dispatch.
Init ==
  /\ state = [p \in Proc |-> "RUNNABLE"]
  /\ chan = [p \in Proc |-> NoLock]
  /\ lock = [p \in Proc |-> NoCPU]
  /\ on = [c \in CPU |-> NoProc]
  /\ cproc = [c \in CPU |-> NoProc]
  /\ idx = [c \in CPU |-> 0]
  /\ spc = [c \in CPU |-> "scan"]
  /\ pc = [p \in Proc |-> "forkret"]
  /\ after = [p \in Proc |-> "user"]
  /\ want = [p \in Proc |-> NoLock]
  /\ wi = [p \in Proc |-> 0]
  /\ lk = [s \in SleepLock |-> NoCPU]
  /\ holder = [s \in SleepLock |-> NoProc]

At(c, label) == on[c] \in Proc /\ pc[on[c]] = label
Goto(p, label) == pc' = [pc EXCEPT ![p] = label]
NextSlot(i) == (i + 1) % NPROC

-----------------------------------------------------------------------------
(* scheduler_old() on CPU c.                                               *)

\* acquire(&p->lock), p is RUNNABLE: run it.  p->lock stays held.
Dispatch(c) ==
  LET p == idx[c] IN
  /\ on[c] = NoProc /\ spc[c] = "scan"
  /\ lock[p] = NoCPU
  /\ state[p] = "RUNNABLE"
  /\ lock' = [lock EXCEPT ![p] = c]
  /\ state' = [state EXCEPT ![p] = "RUNNING"]
  /\ cproc' = [cproc EXCEPT ![c] = p]
  /\ on' = [on EXCEPT ![c] = p]
  /\ spc' = [spc EXCEPT ![c] = "back"]
  /\ UNCHANGED <<chan, idx, pc, after, want, wi, lockVars>>

\* acquire(&p->lock), p is not RUNNABLE: release it and look at the next slot.
Skip(c) ==
  /\ on[c] = NoProc /\ spc[c] = "scan"
  /\ lock[idx[c]] = NoCPU
  /\ state[idx[c]] # "RUNNABLE"
  /\ idx' = [idx EXCEPT ![c] = NextSlot(@)]
  /\ UNCHANGED <<state, chan, lock, on, cproc, spc, pc, after, want, wi, lockVars>>

\* A scheduler that starts over at the same process.
BackSameSlot(c) ==
  /\ on[c] = NoProc /\ spc[c] = "back"
  /\ cproc' = [cproc EXCEPT ![c] = NoProc]
  /\ lock' = [lock EXCEPT ![idx[c]] = NoCPU]
  /\ spc' = [spc EXCEPT ![c] = "scan"]
  /\ UNCHANGED <<state, chan, on, idx, pc, after, want, wi, lockVars>>

\* The process has switched back: c->proc = 0, release(&p->lock), p++.
Back(c) ==
  /\ on[c] = NoProc /\ spc[c] = "back"
  /\ cproc' = [cproc EXCEPT ![c] = NoProc]
  /\ lock' = [lock EXCEPT ![idx[c]] = NoCPU]
  /\ spc' = [spc EXCEPT ![c] = "scan"]
  /\ idx' = [idx EXCEPT ![c] = NextSlot(@)]
  /\ UNCHANGED <<state, chan, on, pc, after, want, wi, lockVars>>

-----------------------------------------------------------------------------
(* yield(), sched(), forkret().                                            *)

\* The classic mistake: yield() releases p->lock before it has left the stack.
YieldUnlocked(c) ==
  LET p == on[c] IN
  /\ p \in Proc /\ pc[p] \in OpenPc
  /\ lock[p] = NoCPU
  /\ state' = [state EXCEPT ![p] = "RUNNABLE"]
  /\ after' = [after EXCEPT ![p] = pc[p]]
  /\ Goto(p, "yielding")
  /\ UNCHANGED <<chan, lock, schedVars, want, wi, lockVars>>

\* yield(), called on a timer interrupt: acquire(&p->lock); RUNNABLE; sched().
YieldStart(c) ==
  LET p == on[c] IN
  /\ p \in Proc /\ pc[p] \in OpenPc
  /\ lock[p] = NoCPU
  /\ lock' = [lock EXCEPT ![p] = c]
  /\ state' = [state EXCEPT ![p] = "RUNNABLE"]
  /\ after' = [after EXCEPT ![p] = pc[p]]
  /\ Goto(p, "yielding")
  /\ UNCHANGED <<chan, schedVars, want, wi, lockVars>>

\* sched() saves the context of the process and enters the scheduler.
Swtch(c) ==
  LET p == on[c] IN
  /\ p \in Proc /\ pc[p] \in LeavingPc
  /\ on' = [on EXCEPT ![c] = NoProc]
  /\ Goto(p, IF pc[p] = "yielding" THEN "yielded" ELSE "slept")
  /\ UNCHANGED <<state, chan, lock, cproc, idx, spc, after, want, wi, lockVars>>

\* forkret() and the tail of yield(): release(&p->lock) and go on.
Resume(c) ==
  LET p == on[c] IN
  /\ p \in Proc /\ pc[p] \in {"forkret", "yielded"}
  /\ lock' = [lock EXCEPT ![p] = NoCPU]
  /\ Goto(p, after[p])
  /\ UNCHANGED <<state, chan, schedVars, after, want, wi, lockVars>>

-----------------------------------------------------------------------------
(* acquiresleep() and sleep().                                             *)

\* A system call asks for a sleep lock the process does not hold.
AcquireSleep(c) ==
  /\ At(c, "user")
  /\ \E s \in SleepLock :
       /\ holder[s] # on[c]
       /\ want' = [want EXCEPT ![on[c]] = s]
  /\ Goto(on[c], "acquire")
  /\ UNCHANGED <<state, chan, lock, schedVars, after, wi, lockVars>>

\* acquire(&lk->lk), at the start of acquiresleep() or at the end of sleep().
AcquireLk(c) ==
  LET p == on[c] IN
  /\ At(c, "acquire")
  /\ lk[want[p]] = NoCPU
  /\ lk' = [lk EXCEPT ![want[p]] = c]
  /\ Goto(p, "test")
  /\ UNCHANGED <<state, chan, lock, schedVars, after, want, wi, holder>>

\* lk->locked is 0: take it and release(&lk->lk).
TakeSleepLock(c) ==
  LET p == on[c] IN
  /\ At(c, "test")
  /\ holder[want[p]] = NoProc
  /\ holder' = [holder EXCEPT ![want[p]] = p]
  /\ lk' = [lk EXCEPT ![want[p]] = NoCPU]
  /\ Goto(p, "user")
  /\ UNCHANGED <<state, chan, lock, schedVars, after, want, wi>>

\* sleep() that releases the condition lock before it has taken p->lock.
SleepUnlocked(c) ==
  LET p == on[c] IN
  /\ At(c, "test")
  /\ holder[want[p]] # NoProc
  /\ lk' = [lk EXCEPT ![want[p]] = NoCPU]
  /\ Goto(p, "sleep")
  /\ UNCHANGED <<state, chan, lock, schedVars, after, want, wi, holder>>

\* lk->locked is set: sleep(lk, &lk->lk) begins with acquire(&p->lock).
SleepLockP(c) ==
  LET p == on[c] IN
  /\ At(c, "test")
  /\ holder[want[p]] # NoProc
  /\ lock[p] = NoCPU
  /\ lock' = [lock EXCEPT ![p] = c]
  /\ Goto(p, "sleep")
  /\ UNCHANGED <<state, chan, schedVars, after, want, wi, lockVars>>

\* sleep() that goes to the scheduler with the condition lock held.
SleepHoldingLk(c) ==
  LET p == on[c] IN
  /\ At(c, "sleep")
  /\ chan' = [chan EXCEPT ![p] = want[p]]
  /\ state' = [state EXCEPT ![p] = "SLEEPING"]
  /\ Goto(p, "sleeping")
  /\ UNCHANGED <<lock, schedVars, after, want, wi, lockVars>>

\* release(&lk->lk); p->chan = lk; p->state = SLEEPING; sched().
SleepCommit(c) ==
  LET p == on[c] IN
  /\ At(c, "sleep")
  /\ lk' = [lk EXCEPT ![want[p]] = NoCPU]
  /\ chan' = [chan EXCEPT ![p] = want[p]]
  /\ state' = [state EXCEPT ![p] = "SLEEPING"]
  /\ Goto(p, "sleeping")
  /\ UNCHANGED <<lock, schedVars, after, want, wi, holder>>

\* sched() returned in sleep(): p->chan = 0; release(&p->lock).
SleepReturn(c) ==
  LET p == on[c] IN
  /\ At(c, "slept")
  /\ chan' = [chan EXCEPT ![p] = NoLock]
  /\ lock' = [lock EXCEPT ![p] = NoCPU]
  /\ Goto(p, "acquire")
  /\ UNCHANGED <<state, schedVars, after, want, wi, lockVars>>

-----------------------------------------------------------------------------
(* releasesleep() and wakeup().                                            *)

ReleaseSleep(c) ==
  /\ At(c, "user")
  /\ \E s \in SleepLock :
       /\ holder[s] = on[c]
       /\ want' = [want EXCEPT ![on[c]] = s]
  /\ Goto(on[c], "release")
  /\ UNCHANGED <<state, chan, lock, schedVars, after, wi, lockVars>>

\* acquire(&lk->lk); lk->locked = 0; lk->pid = 0; wakeup(lk).
ReleaseLk(c) ==
  LET p == on[c] IN
  /\ At(c, "release")
  /\ lk[want[p]] = NoCPU
  /\ lk' = [lk EXCEPT ![want[p]] = c]
  /\ holder' = [holder EXCEPT ![want[p]] = NoProc]
  /\ wi' = [wi EXCEPT ![p] = 0]
  /\ Goto(p, "wakeup")
  /\ UNCHANGED <<state, chan, lock, schedVars, after, want>>

\* One iteration of wakeup(): a process other than the caller that sleeps on
\* the channel becomes RUNNABLE, under its lock.
WakeupSlot(c) ==
  LET p == on[c]
      q == wi[p] IN
  /\ At(c, "wakeup")
  /\ q < NPROC
  /\ q # p => lock[q] = NoCPU
  /\ state' = IF q # p /\ state[q] = "SLEEPING" /\ chan[q] = want[p]
              THEN [state EXCEPT ![q] = "RUNNABLE"] ELSE state
  /\ wi' = [wi EXCEPT ![p] = q + 1]
  /\ UNCHANGED <<chan, lock, schedVars, pc, after, want, lockVars>>

\* The end of wakeup() and of releasesleep(): release(&lk->lk).
WakeupDone(c) ==
  LET p == on[c] IN
  /\ At(c, "wakeup")
  /\ wi[p] = NPROC
  /\ lk' = [lk EXCEPT ![want[p]] = NoCPU]
  /\ Goto(p, "user")
  /\ UNCHANGED <<state, chan, lock, schedVars, after, want, wi, holder>>

\* kill(): a sleeping victim becomes RUNNABLE although nobody called wakeup().
Kill(c) ==
  /\ At(c, "user")
  /\ \E q \in Proc :
       /\ lock[q] = NoCPU
       /\ state[q] = "SLEEPING"
       /\ state' = [state EXCEPT ![q] = "RUNNABLE"]
  /\ UNCHANGED <<chan, lock, schedVars, pc, after, want, wi, lockVars>>

-----------------------------------------------------------------------------
\* What CPU c does by itself once it is started or interrupted.
Step(c) ==
  \/ Dispatch(c) \/ Skip(c) \/ Back(c)
  \/ Swtch(c) \/ Resume(c)
  \/ AcquireLk(c) \/ TakeSleepLock(c)
  \/ SleepLockP(c) \/ SleepCommit(c) \/ SleepReturn(c)
  \/ ReleaseLk(c) \/ WakeupSlot(c) \/ WakeupDone(c)

\* What the program run by the process decides to do.
Call(c) == AcquireSleep(c) \/ ReleaseSleep(c) \/ Kill(c)

Next == \E c \in CPU : Step(c) \/ Call(c) \/ YieldStart(c)

Spec == Init /\ [][Next]_vars

(***************************************************************************)
(* Fairness.  A CPU executes its instructions, and a CPU that spins on a   *)
(* lock that keeps becoming free gets it (SF on its steps: the amoswap of  *)
(* acquire() is not starved).  A timer interrupt stays pending until       *)
(* interrupts are on again, so a process that keeps opening the window is  *)
(* preempted (SF on yield).  A time slice is long enough for progress, so  *)
(* a process that is preempted and resumed does finish its system call,    *)
(* and the program that holds a sleep lock gives it back (SF on the two    *)
(* steps of releasesleep() that preemption can interrupt); no program need *)
(* ever ask for a sleep lock.                                              *)
(***************************************************************************)
Fairness ==
  \A c \in CPU : /\ SF_vars(Step(c))
                 /\ SF_vars(YieldStart(c))
                 /\ SF_vars(ReleaseSleep(c))
                 /\ SF_vars(ReleaseLk(c))

FairSpec == Spec /\ Fairness

-----------------------------------------------------------------------------
(* Properties.                                                             *)

\* No two CPUs ever run on the kernel stack of the same process: a process
\* that yields or sleeps cannot be dispatched elsewhere before swtch() has
\* saved its context, because p->lock is released only by the scheduler.
ExclusiveStack ==
  \A c, d \in CPU : c # d /\ on[c] \in Proc => on[c] # on[d]

\* Whenever a process calls sched(), the conditions sched() panics on do not
\* hold: this CPU holds p->lock and no other spin lock (noff = 1), and the
\* process is no longer RUNNING; and the CPU's c->proc names that process.
SchedPreconditions ==
  \A c \in CPU : on[c] \in Proc /\ pc[on[c]] \in LeavingPc =>
    /\ lock[on[c]] = c
    /\ \A q \in Proc \ {on[c]} : lock[q] # c
    /\ \A s \in SleepLock : lk[s] # c
    /\ state[on[c]] # "RUNNING"
    /\ cproc[c] = on[c]

\* A process sleeping on a free sleep lock is always ahead of some
\* releasesleep() still in its wakeup() loop: no wakeup is lost between the
\* test of lk->locked and the change to SLEEPING.
NoLostWakeup ==
  \A q \in Proc : state[q] = "SLEEPING" /\ holder[chan[q]] = NoProc =>
    \E p \in Proc : pc[p] = "wakeup" /\ want[p] = chan[q] /\ wi[p] <= q

\* Round robin starves nobody: a RUNNABLE process gets a CPU.
RunnableRuns ==
  \A q \in Proc : (state[q] = "RUNNABLE") ~> (state[q] = "RUNNING")
=============================================================================
