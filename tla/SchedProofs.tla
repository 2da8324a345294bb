---------------------------- MODULE SchedProofs ----------------------------
(***************************************************************************)
(* Proofs about Sched, for any process table, any set of harts and any set *)
(* of sleep locks: type correctness, exclusive kernel stacks, the          *)
(* preconditions of sched() and the absence of lost wakeups.               *)
(***************************************************************************)
EXTENDS Sched, TLAPS

-----------------------------------------------------------------------------
(* The inductive invariant.                                                *)

\* The thread on a process's stack is between an acquire(&p->lock) and the
\* matching release, in a function that holds the lock.
HoldingPc == SavedPc \cup LeavingPc \cup {"sleep"}

\* CPU c is inside a p->lock section: as the process itself, or as the
\* scheduler the process has just switched back to.
InLockSection(c, p) ==
  \/ on[c] = p /\ pc[p] \in HoldingPc
  \/ on[c] = NoProc /\ spc[c] = "back" /\ idx[c] = p

LockOwner == \A p \in Proc, c \in CPU : (lock[p] = c) <=> InLockSection(c, p)

Dispatched ==
  \A c \in CPU : on[c] \in Proc => /\ spc[c] = "back"
                                   /\ idx[c] = on[c]
                                   /\ cproc[c] = on[c]

\* What the state of a process on a CPU, and of a process on none, can be.
OnState ==
  \A c \in CPU : on[c] \in Proc =>
    IF pc[on[c]] \in LeavingPc THEN state[on[c]] # "RUNNING"
                               ELSE state[on[c]] = "RUNNING"

OffState ==
  \A p \in Proc : (\A c \in CPU : on[c] # p) =>
    pc[p] \in SavedPc /\ state[p] # "RUNNING"

LkOwner ==
  \A s \in SleepLock, c \in CPU : (lk[s] = c) <=>
    on[c] \in Proc /\ pc[on[c]] \in InLkPc /\ want[on[c]] = s

\* A system call in progress knows which sleep lock it is about, a sleeping
\* process included, and a preempted one too.
Wanting(p) ==
  \/ pc[p] \in InLkPc \cup {"acquire", "release", "sleeping", "slept"}
  \/ pc[p] \in {"yielding", "yielded"} /\ after[p] # "user"

WantValid == \A p \in Proc : Wanting(p) => want[p] \in SleepLock

ForkretValid == \A p \in Proc : pc[p] = "forkret" => after[p] = "user"

SleepChan ==
  \A p \in Proc : state[p] = "SLEEPING" =>
    pc[p] \in {"sleeping", "slept"} /\ chan[p] = want[p]

\* Between the test of lk->locked and the release of lk->lk in sleep(), the
\* sleep lock stays taken.
SleepTested == \A p \in Proc : pc[p] = "sleep" => holder[want[p]] # NoProc

LockInv ==
  /\ TypeOK /\ ExclusiveStack /\ LockOwner /\ Dispatched /\ OnState /\ OffState

WaitInv ==
  LkOwner /\ WantValid /\ ForkretValid /\ SleepChan /\ SleepTested /\ NoLostWakeup

IInv == LockInv /\ WaitInv

-----------------------------------------------------------------------------
(* Type correctness.                                                       *)

\* The round-robin loop's p++ stays inside the process table.
LEMMA NextSlotType == \A i \in Proc : NextSlot(i) \in Proc
BY SchedAssumption DEF Proc, NextSlot

\* Updating a function keeps its type, also at an argument outside its domain.
LEMMA ExceptType ==
  ASSUME NEW S, NEW T, NEW f \in [S -> T], NEW i, NEW v \in T
  PROVE  [f EXCEPT ![i] = v] \in [S -> T]
<1>1. CASE i \in S
    BY <1>1
<1>2. CASE i \notin S
    BY <1>2, Zenon
<1> QED
    BY <1>1, <1>2

LEMMA TypeInit == Init => TypeOK
BY SchedAssumption DEF Init, TypeOK, Proc, ProcState, Pc, OpenPc, SavedPc

LEMMA TypeStep == TypeOK /\ [Next]_vars => TypeOK'
<1> SUFFICES ASSUME TypeOK, [Next]_vars PROVE TypeOK'
    OBVIOUS
<1>1. CASE UNCHANGED vars
    BY <1>1 DEF vars, TypeOK
<1>2. ASSUME NEW c \in CPU, Step(c) \/ Call(c) \/ YieldStart(c) PROVE TypeOK'
  <2> USE SchedAssumption DEF TypeOK, Goto, At, schedVars, lockVars, Pc, ProcState
  <2>1. CASE Dispatch(c)
    BY <2>1, SMT DEF Dispatch
  <2>2. CASE Skip(c)
    BY <2>2, NextSlotType, SMT DEF Skip
  <2>3. CASE Back(c)
    BY <2>3, NextSlotType, SMT DEF Back
  <2>4. CASE YieldStart(c)
    BY <2>4, SMT DEF YieldStart, OpenPc, LeavingPc
  <2>5. CASE Swtch(c)
    BY <2>5, SMT DEF Swtch, LeavingPc, SavedPc
  <2>6. CASE Resume(c)
    BY <2>6, SMT DEF Resume, OpenPc
  <2>7. CASE AcquireSleep(c)
    BY <2>7, SMT DEF AcquireSleep, OpenPc
  <2>8. CASE AcquireLk(c)
    <3>1. lk' \in [SleepLock -> CPU \cup {NoCPU}]
      BY <2>8, ExceptType, Zenon DEF AcquireLk
    <3> QED
      BY <2>8, <3>1, SMT DEF AcquireLk, InLkPc
  <2>9. CASE TakeSleepLock(c)
    <3>1. lk' \in [SleepLock -> CPU \cup {NoCPU}]
      BY <2>9, ExceptType, Zenon DEF TakeSleepLock
    <3>2. holder' \in [SleepLock -> Proc \cup {NoProc}]
      BY <2>9, ExceptType, Zenon DEF TakeSleepLock
    <3> QED
      BY <2>9, <3>1, <3>2, SMT DEF TakeSleepLock, OpenPc
  <2>10. CASE SleepLockP(c)
    BY <2>10, SMT DEF SleepLockP, InLkPc
  <2>11. CASE SleepCommit(c)
    <3>1. lk' \in [SleepLock -> CPU \cup {NoCPU}]
      BY <2>11, ExceptType, Zenon DEF SleepCommit
    <3> QED
      BY <2>11, <3>1, SMT DEF SleepCommit, LeavingPc
  <2>12. CASE SleepReturn(c)
    BY <2>12, SMT DEF SleepReturn, OpenPc
  <2>13. CASE ReleaseSleep(c)
    BY <2>13, SMT DEF ReleaseSleep, OpenPc
  <2>14. CASE ReleaseLk(c)
    <3>1. lk' \in [SleepLock -> CPU \cup {NoCPU}]
      BY <2>14, ExceptType, Zenon DEF ReleaseLk
    <3>2. holder' \in [SleepLock -> Proc \cup {NoProc}]
      BY <2>14, ExceptType, Zenon DEF ReleaseLk
    <3> QED
      BY <2>14, <3>1, <3>2, SMT DEF ReleaseLk, Proc, InLkPc
  <2>15. CASE WakeupSlot(c)
    BY <2>15, SMTT(20) DEF WakeupSlot, Proc
  <2>16. CASE WakeupDone(c)
    <3>1. lk' \in [SleepLock -> CPU \cup {NoCPU}]
      BY <2>16, ExceptType, Zenon DEF WakeupDone
    <3> QED
      BY <2>16, <3>1, SMT DEF WakeupDone, OpenPc
  <2>17. CASE Kill(c)
    BY <2>17, SMT DEF Kill
  <2> QED
    BY <1>2, <2>1, <2>2, <2>3, <2>4, <2>5, <2>6, <2>7, <2>8, <2>9, <2>10, <2>11,
       <2>12, <2>13, <2>14, <2>15, <2>16, <2>17 DEF Step, Call
<1> QED
    BY <1>1, <1>2 DEF Next

\* Every variable of the kernel model keeps its type, whatever the number of
\* processes, harts and sleep locks.
THEOREM TypeCorrect == Spec => []TypeOK
<1>1. Init => TypeOK
    BY TypeInit
<1>2. TypeOK /\ [Next]_vars => TypeOK'
    BY TypeStep
<1> QED
    BY <1>1, <1>2, PTL DEF Spec

-----------------------------------------------------------------------------
(* The process locks.                                                      *)

LEMMA LockInit == Init => LockInv
BY TypeInit, SchedAssumption
  DEF Init, LockInv, ExclusiveStack, LockOwner, InLockSection, Dispatched,
      OnState, OffState, HoldingPc, SavedPc

\* The process a scheduler picks is on no CPU: it is RUNNABLE, so if a CPU
\* still ran on its stack it would be in sched(), holding p->lock.
LEMMA DispatchOff ==
  ASSUME LockInv, NEW c \in CPU, Dispatch(c)
  PROVE  \A d \in CPU : on[d] # idx[c]
<1> SUFFICES ASSUME NEW d \in CPU, on[d] = idx[c] PROVE FALSE
    OBVIOUS
<1>1. pc[idx[c]] \in LeavingPc
    BY SMT DEF Dispatch, LockInv, TypeOK, OnState
<1>2. lock[idx[c]] = d
    BY <1>1, SMT DEF LockInv, TypeOK, LockOwner, InLockSection, HoldingPc
<1> QED
    BY <1>2, SchedAssumption, SMT DEF Dispatch

LEMMA LockStep == LockInv /\ [Next]_vars => LockInv'
<1> SUFFICES ASSUME LockInv, [Next]_vars PROVE LockInv'
    OBVIOUS
<1>0. TypeOK'
    BY TypeStep DEF LockInv
<1>1. CASE UNCHANGED vars
    BY <1>0, <1>1 DEF vars, LockInv, ExclusiveStack, LockOwner, InLockSection,
       Dispatched, OnState, OffState
<1>2. ASSUME NEW c \in CPU, Step(c) \/ Call(c) \/ YieldStart(c) PROVE LockInv'
  <2> USE SchedAssumption, <1>0
      DEF LockInv, TypeOK, Goto, At, schedVars, lockVars, HoldingPc, OpenPc,
          LeavingPc, SavedPc, InLkPc
  <2>1. CASE Dispatch(c)
    <3>0. \A d \in CPU : on[d] # idx[c]
      BY <2>1, DispatchOff
    <3>1. ExclusiveStack'
      BY <2>1, <3>0, SMT DEF Dispatch, ExclusiveStack
    <3>2. LockOwner'
      BY <2>1, <3>0, SMT DEF Dispatch, LockOwner, InLockSection, Dispatched, OffState
    <3>3. Dispatched'
      BY <2>1, SMT DEF Dispatch, Dispatched, ExclusiveStack
    <3>4. OnState'
      BY <2>1, SMT DEF Dispatch, OnState, ExclusiveStack, LockOwner, InLockSection, OffState
    <3>5. OffState'
      BY <2>1, SMT DEF Dispatch, OffState, OnState, ExclusiveStack, Dispatched, LockOwner, InLockSection
    <3> QED
      BY <3>1, <3>2, <3>3, <3>4, <3>5
  <2>2. CASE Skip(c)
    BY <2>2, SMT DEF Skip, ExclusiveStack, LockOwner, InLockSection,
       Dispatched, OnState, OffState
  <2>3. CASE Back(c)
    <3>1. ExclusiveStack'
      BY <2>3, SMT DEF Back, ExclusiveStack, LockOwner, InLockSection, OffState, Dispatched
    <3>2. LockOwner'
      BY <2>3, SMT DEF Back, LockOwner, InLockSection, ExclusiveStack, Dispatched, OffState
    <3>3. Dispatched'
      BY <2>3, SMT DEF Back, Dispatched, ExclusiveStack
    <3>4. OnState'
      BY <2>3, SMT DEF Back, OnState, ExclusiveStack, LockOwner, InLockSection, OffState
    <3>5. OffState'
      BY <2>3, SMT DEF Back, OffState, OnState, ExclusiveStack, Dispatched, LockOwner, InLockSection
    <3> QED
      BY <3>1, <3>2, <3>3, <3>4, <3>5
  <2>4. CASE YieldStart(c)
    <3>1. ExclusiveStack'
      BY <2>4, SMT DEF YieldStart, ExclusiveStack, LockOwner, InLockSection, OffState, Dispatched
    <3>2. LockOwner'
      BY <2>4, SMT DEF YieldStart, LockOwner, InLockSection, ExclusiveStack, Dispatched, OffState
    <3>3. Dispatched'
      BY <2>4, SMT DEF YieldStart, Dispatched, ExclusiveStack
    <3>4. OnState'
      BY <2>4, SMT DEF YieldStart, OnState, ExclusiveStack, LockOwner, InLockSection, OffState
    <3>5. OffState'
      BY <2>4, SMT DEF YieldStart, OffState, OnState, ExclusiveStack, Dispatched, LockOwner, InLockSection
    <3> QED
      BY <3>1, <3>2, <3>3, <3>4, <3>5
  <2>5. CASE Swtch(c)
    <3>1. ExclusiveStack'
      BY <2>5, SMT DEF Swtch, ExclusiveStack, LockOwner, InLockSection, OffState, Dispatched
    <3>2. LockOwner'
      BY <2>5, SMT DEF Swtch, LockOwner, InLockSection, ExclusiveStack, Dispatched, OffState
    <3>3. Dispatched'
      BY <2>5, SMT DEF Swtch, Dispatched, ExclusiveStack
    <3>4. OnState'
      BY <2>5, SMT DEF Swtch, OnState, ExclusiveStack, LockOwner, InLockSection, OffState
    <3>5. OffState'
      BY <2>5, SMT DEF Swtch, OffState, OnState, ExclusiveStack, Dispatched, LockOwner, InLockSection
    <3> QED
      BY <3>1, <3>2, <3>3, <3>4, <3>5
  <2>6. CASE Resume(c)
    BY <2>6, SMT DEF Resume, ExclusiveStack, LockOwner, InLockSection,
       Dispatched, OnState, OffState
  <2>7. CASE AcquireSleep(c)
    BY <2>7, SMT DEF AcquireSleep, ExclusiveStack, LockOwner, InLockSection,
       Dispatched, OnState, OffState
  <2>8. CASE AcquireLk(c)
    BY <2>8, SMT DEF AcquireLk, ExclusiveStack, LockOwner, InLockSection,
       Dispatched, OnState, OffState
  <2>9. CASE TakeSleepLock(c)
    BY <2>9, SMT DEF TakeSleepLock, ExclusiveStack, LockOwner, InLockSection,
       Dispatched, OnState, OffState
  <2>10. CASE SleepLockP(c)
    BY <2>10, SMT DEF SleepLockP, ExclusiveStack, LockOwner, InLockSection,
       Dispatched, OnState, OffState
  <2>11. CASE SleepCommit(c)
    BY <2>11, SMT DEF SleepCommit, ExclusiveStack, LockOwner, InLockSection,
       Dispatched, OnState, OffState
  <2>12. CASE SleepReturn(c)
    BY <2>12, SMT DEF SleepReturn, ExclusiveStack, LockOwner, InLockSection,
       Dispatched, OnState, OffState
  <2>13. CASE ReleaseSleep(c)
    BY <2>13, SMT DEF ReleaseSleep, ExclusiveStack, LockOwner, InLockSection,
       Dispatched, OnState, OffState
  <2>14. CASE ReleaseLk(c)
    BY <2>14, SMT DEF ReleaseLk, ExclusiveStack, LockOwner, InLockSection,
       Dispatched, OnState, OffState
  <2>15. CASE WakeupSlot(c)
    BY <2>15, SMT DEF WakeupSlot, ExclusiveStack, LockOwner, InLockSection,
       Dispatched, OnState, OffState
  <2>16. CASE WakeupDone(c)
    BY <2>16, SMT DEF WakeupDone, ExclusiveStack, LockOwner, InLockSection,
       Dispatched, OnState, OffState
  <2>17. CASE Kill(c)
    BY <2>17, SMT DEF Kill, ExclusiveStack, LockOwner, InLockSection,
       Dispatched, OnState, OffState
  <2> QED
    BY <1>2, <2>1, <2>2, <2>3, <2>4, <2>5, <2>6, <2>7, <2>8, <2>9, <2>10, <2>11,
       <2>12, <2>13, <2>14, <2>15, <2>16, <2>17 DEF Step, Call
<1> QED
    BY <1>1, <1>2 DEF Next

-----------------------------------------------------------------------------
(* Sleep and wakeup.                                                       *)

LEMMA WaitInit == Init => WaitInv
BY SchedAssumption
  DEF Init, WaitInv, LkOwner, WantValid, Wanting, ForkretValid, SleepChan, SleepTested,
      NoLostWakeup, InLkPc

LEMMA WaitStep == IInv /\ [Next]_vars => WaitInv'
<1> SUFFICES ASSUME IInv, [Next]_vars PROVE WaitInv'
    OBVIOUS
<1>0. TypeOK'
    BY TypeStep DEF IInv, LockInv
<1>1. CASE UNCHANGED vars
    BY <1>0, <1>1 DEF vars, IInv, WaitInv, LkOwner, WantValid, Wanting, ForkretValid,
       SleepChan, SleepTested, NoLostWakeup
<1>2. ASSUME NEW c \in CPU, Step(c) \/ Call(c) \/ YieldStart(c) PROVE WaitInv'
  <2> USE SchedAssumption, <1>0
      DEF IInv, WaitInv, LockInv, TypeOK, Goto, At, schedVars, lockVars, OpenPc,
          LeavingPc, SavedPc, InLkPc, LkOwner, WantValid, Wanting, ForkretValid,
          SleepChan, SleepTested, NoLostWakeup, ExclusiveStack, OnState, OffState
  <2>1. CASE Dispatch(c)
    <3>1. LkOwner'
      <4>1. pc[idx[c]] \in SavedPc
          BY <2>1, DispatchOff
      <4> QED
          BY <2>1, <4>1, SMT DEF Dispatch
    <3>2. WantValid'
      BY <2>1, SMT DEF Dispatch
    <3>3. ForkretValid'
      BY <2>1, SMT DEF Dispatch
    <3>4. SleepChan'
      BY <2>1, SMT DEF Dispatch
    <3>5. SleepTested'
      BY <2>1, SMT DEF Dispatch
    <3>6. NoLostWakeup'
      BY <2>1, SMT DEF Dispatch
    <3> QED
      BY <3>1, <3>2, <3>3, <3>4, <3>5, <3>6
  <2>2. CASE Skip(c)
    BY <2>2, SMT DEF Skip
  <2>3. CASE Back(c)
    BY <2>3, SMT DEF Back
  <2>4. CASE YieldStart(c)
    BY <2>4, SMT DEF YieldStart
  <2>5. CASE Swtch(c)
    <3>1. LkOwner'
      BY <2>5, SMT DEF Swtch
    <3>2. WantValid'
      BY <2>5, SMT DEF Swtch
    <3>3. ForkretValid'
      BY <2>5, SMT DEF Swtch
    <3>4. SleepChan'
      BY <2>5, SMT DEF Swtch
    <3>5. SleepTested'
      BY <2>5, SMT DEF Swtch
    <3>6. NoLostWakeup'
      BY <2>5, SMT DEF Swtch
    <3> QED
      BY <3>1, <3>2, <3>3, <3>4, <3>5, <3>6
  <2>6. CASE Resume(c)
    BY <2>6, SMT DEF Resume
  <2>7. CASE AcquireSleep(c)
    BY <2>7, SMT DEF AcquireSleep
  <2>8. CASE AcquireLk(c)
    BY <2>8, SMT DEF AcquireLk
  <2>9. CASE TakeSleepLock(c)
    <3>1. LkOwner'
      BY <2>9, SMT DEF TakeSleepLock
    <3>2. WantValid'
      BY <2>9, SMT DEF TakeSleepLock
    <3>3. ForkretValid'
      BY <2>9, SMT DEF TakeSleepLock
    <3>4. SleepChan'
      BY <2>9, SMT DEF TakeSleepLock
    <3>5. SleepTested'
      BY <2>9, SMT DEF TakeSleepLock
    <3>6. NoLostWakeup'
      BY <2>9, SMT DEF TakeSleepLock
    <3> QED
      BY <3>1, <3>2, <3>3, <3>4, <3>5, <3>6
  <2>10. CASE SleepLockP(c)
    <3>1. LkOwner'
      BY <2>10, SMT DEF SleepLockP
    <3>2. WantValid'
      BY <2>10, SMT DEF SleepLockP
    <3>3. ForkretValid'
      BY <2>10, SMT DEF SleepLockP
    <3>4. SleepChan'
      BY <2>10, SMT DEF SleepLockP
    <3>5. SleepTested'
      BY <2>10, SMT DEF SleepLockP
    <3>6. NoLostWakeup'
      BY <2>10, SMT DEF SleepLockP
    <3> QED
      BY <3>1, <3>2, <3>3, <3>4, <3>5, <3>6
  <2>11. CASE SleepCommit(c)
    <3>1. LkOwner'
      BY <2>11, SMT DEF SleepCommit
    <3>2. WantValid'
      BY <2>11, SMT DEF SleepCommit
    <3>3. ForkretValid'
      BY <2>11, SMT DEF SleepCommit
    <3>4. SleepChan'
      BY <2>11, SMT DEF SleepCommit
    <3>5. SleepTested'
      BY <2>11, SMT DEF SleepCommit
    <3>6. NoLostWakeup'
      BY <2>11, SMT DEF SleepCommit
    <3> QED
      BY <3>1, <3>2, <3>3, <3>4, <3>5, <3>6
  <2>12. CASE SleepReturn(c)
    <3>1. LkOwner'
      BY <2>12, SMT DEF SleepReturn
    <3>2. WantValid'
      BY <2>12, SMT DEF SleepReturn
    <3>3. ForkretValid'
      BY <2>12, SMT DEF SleepReturn
    <3>4. SleepChan'
      BY <2>12, SMT DEF SleepReturn
    <3>5. SleepTested'
      BY <2>12, SMT DEF SleepReturn
    <3>6. NoLostWakeup'
      BY <2>12, SMT DEF SleepReturn
    <3> QED
      BY <3>1, <3>2, <3>3, <3>4, <3>5, <3>6
  <2>13. CASE ReleaseSleep(c)
    BY <2>13, SMT DEF ReleaseSleep
  <2>14. CASE ReleaseLk(c)
    <3>1. LkOwner'
      BY <2>14, SMT DEF ReleaseLk
    <3>2. WantValid'
      BY <2>14, SMT DEF ReleaseLk
    <3>3. ForkretValid'
      BY <2>14, SMT DEF ReleaseLk
    <3>4. SleepChan'
      BY <2>14, SMT DEF ReleaseLk
    <3>5. SleepTested'
      BY <2>14, SMT DEF ReleaseLk
    <3>6. NoLostWakeup'
      BY <2>14, SMTT(20) DEF ReleaseLk, Proc
    <3> QED
      BY <3>1, <3>2, <3>3, <3>4, <3>5, <3>6
  <2>15. CASE WakeupSlot(c)
    <3>1. LkOwner'
      BY <2>15, SMT DEF WakeupSlot
    <3>2. WantValid'
      BY <2>15, SMT DEF WakeupSlot
    <3>3. ForkretValid'
      BY <2>15, SMT DEF WakeupSlot
    <3>4. SleepChan'
      BY <2>15, SMT DEF WakeupSlot
    <3>5. SleepTested'
      BY <2>15, SMT DEF WakeupSlot
    <3>6. NoLostWakeup'
      BY <2>15, SMTT(20) DEF WakeupSlot, Proc
    <3> QED
      BY <3>1, <3>2, <3>3, <3>4, <3>5, <3>6
  <2>16. CASE WakeupDone(c)
    BY <2>16, SMT DEF WakeupDone, Proc
  <2>17. CASE Kill(c)
    <3>1. LkOwner'
      BY <2>17, SMT DEF Kill
    <3>2. WantValid'
      BY <2>17, SMT DEF Kill
    <3>3. ForkretValid'
      BY <2>17, SMT DEF Kill
    <3>4. SleepChan'
      BY <2>17, SMT DEF Kill
    <3>5. SleepTested'
      BY <2>17, SMT DEF Kill
    <3>6. NoLostWakeup'
      BY <2>17, SMT DEF Kill
    <3> QED
      BY <3>1, <3>2, <3>3, <3>4, <3>5, <3>6
  <2> QED
    BY <1>2, <2>1, <2>2, <2>3, <2>4, <2>5, <2>6, <2>7, <2>8, <2>9, <2>10, <2>11,
       <2>12, <2>13, <2>14, <2>15, <2>16, <2>17 DEF Step, Call
<1> QED
    BY <1>1, <1>2 DEF Next

-----------------------------------------------------------------------------
(* The theorems.                                                           *)

\* The invariant of the kernel's lock and sleep protocol is inductive.
LEMMA Invariance == Spec => []IInv
<1>1. Init => IInv
    BY LockInit, WaitInit DEF IInv
<1>2. IInv /\ [Next]_vars => IInv'
    BY LockStep, WaitStep DEF IInv
<1> QED
    BY <1>1, <1>2, PTL DEF Spec

\* No kernel stack is ever in use on two CPUs: scheduler_old() cannot pick a
\* process that yield() or sleep() marked before swtch() has left its stack.
THEOREM StackExclusion == Spec => []ExclusiveStack
<1>1. IInv => ExclusiveStack
    BY DEF IInv, LockInv
<1> QED
    BY <1>1, Invariance, PTL

\* None of the panics of sched() on the lock state can happen, and c->proc is
\* the process that calls it.
THEOREM SchedNeverPanics == Spec => []SchedPreconditions
<1>1. IInv => SchedPreconditions
  <2> SUFFICES ASSUME IInv, NEW c \in CPU, on[c] \in Proc, pc[on[c]] \in LeavingPc
               PROVE  /\ lock[on[c]] = c
                      /\ \A q \in Proc \ {on[c]} : lock[q] # c
                      /\ \A s \in SleepLock : lk[s] # c
                      /\ state[on[c]] # "RUNNING"
                      /\ cproc[c] = on[c]
      BY DEF SchedPreconditions
  <2>1. lock[on[c]] = c /\ \A q \in Proc \ {on[c]} : lock[q] # c
      BY SchedAssumption DEF IInv, LockInv, LockOwner, InLockSection, HoldingPc
  <2>2. \A s \in SleepLock : lk[s] # c
      BY DEF IInv, WaitInv, LkOwner, LeavingPc, InLkPc
  <2>3. state[on[c]] # "RUNNING" /\ cproc[c] = on[c]
      BY DEF IInv, LockInv, OnState, Dispatched
  <2> QED
      BY <2>1, <2>2, <2>3
<1> QED
    BY <1>1, Invariance, PTL

\* A process that sleeps for a sleep lock nobody holds is always still ahead
\* of a wakeup() in progress, for any number of processes and CPUs.
THEOREM WakeupsAreNotLost == Spec => []NoLostWakeup
<1>1. IInv => NoLostWakeup
    BY DEF IInv, WaitInv
<1> QED
    BY <1>1, Invariance, PTL
=============================================================================
