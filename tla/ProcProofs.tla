----------------------------- MODULE ProcProofs -----------------------------
(***************************************************************************)
(* Proofs about Proc, for a process table of any size: parent pointers     *)
(* name living processes, a slot is freed only when its thread has left    *)
(* its kernel stack, and a process is created alive.                       *)
(***************************************************************************)
EXTENDS Proc, TLAPS

-----------------------------------------------------------------------------
(* Threads and locks.                                                      *)

\* A thread that holds its own p->lock across steps, in sleep() and exit().
SelfLocked == {"sleep", "sleep_sched", "exit_sched"}
\* A thread that holds wait_lock.
WaitHolding == {"reparent", "wake_init", "wake_parent", "zombie", "scan", "waitsleep", "sleep"}
\* fork() between allocproc() and its return.
Forking == {"setparent", "lockchild", "setrunnable"}
OffStack == {"gone", "forkret", "asleep", "sleep_sched", "exit_sched"}

\* p->state agrees with what the thread does.
StateOf ==
  \A p \in Proc :
    /\ pc[p] = "gone" => state[p] \in {"UNUSED", "ZOMBIE"}
    /\ pc[p] = "forkret" => state[p] \in {"USED", "RUNNABLE"}
    /\ pc[p] \in {"asleep", "sleep_sched"} => state[p] \in {"SLEEPING", "RUNNABLE"}
    /\ pc[p] = "exit_sched" => state[p] = "ZOMBIE"
    /\ pc[p] \notin OffStack => state[p] = "RUNNING"

\* A process lock that is held is held by its own thread or by the parent that
\* forks it.
LockHeld ==
  /\ \A p \in Proc : pc[p] \in SelfLocked => plock[p] = p
  /\ \A q \in Proc : plock[q] # NoProc =>
       \/ pc[q] \in SelfLocked
       \/ \E p \in Proc : pc[p] = "setrunnable" /\ np[p] = q

WaitHeld == \A p \in Proc : (wait_lock = p) <=> pc[p] \in WaitHolding

\* The child that fork() sets up is in the state USED, and has one parent.
ChildSetUp ==
  /\ \A p \in Proc : pc[p] \in Forking => np[p] \in Proc /\ state[np[p]] = "USED"
  /\ \A p, q \in Proc : pc[p] \in Forking /\ pc[q] \in Forking /\ np[p] = np[q] => p = q

ControlInv == StateOf /\ LockHeld /\ WaitHeld /\ ChildSetUp
ThreadInv == TypeOK /\ ControlInv

-----------------------------------------------------------------------------
(* The tree of processes.                                                  *)

\* init does not get past the check at the head of exit().
InitLives ==
  pc[InitProc] \notin {"gone", "reparent", "wake_init", "wake_parent", "zombie", "exit_sched"}

\* What reparent() has passed has another parent.
Reparented ==
  \A p \in Proc :
    /\ pc[p] \in {"reparent", "wake_init"} => \A q \in Proc : q < slot[p] => parent[q] # p
    /\ pc[p] \in {"wake_parent", "zombie"} => \A q \in Proc : parent[q] # p

TreeInv == InitLives /\ Reparented /\ ParentAlive

\* A free slot carries nothing over to its next process.
FreeClean ==
  /\ \A q \in Proc : state[q] = "UNUSED" => pid[q] = 0 /\ ~killed[q]
  /\ \A p \in Proc : pc[p] = "kill" => target[p] \in KillPids
  /\ nextpid > 0

LEMMA ThreadInit == Init => ThreadInv
<1> SUFFICES ASSUME Init PROVE ThreadInv
    OBVIOUS
<1>1. TypeOK
    BY ProcAssumption DEF Init, TypeOK, Proc, InitProc, ProcState, Pc
<1>2. StateOf /\ LockHeld /\ ChildSetUp
    BY DEF Init, StateOf, LockHeld, ChildSetUp, SelfLocked, Forking, OffStack
<1>3. WaitHeld
    BY ProcAssumption DEF Init, WaitHeld, WaitHolding
<1> QED
    BY <1>1, <1>2, <1>3 DEF ThreadInv, ControlInv

\* The slots of the table as loop variables.
LEMMA SlotFacts ==
  /\ InitProc \in Proc /\ 0 \in 0 .. NPROC
  /\ \A s \in 0 .. NPROC : s < NPROC => s \in Proc /\ s + 1 \in 0 .. NPROC
  /\ \A s \in 0 .. NPROC : s = NPROC => \A q \in Proc : q < s
  /\ \A q \in Proc : q \in Nat /\ q < NPROC
BY ProcAssumption DEF Proc, InitProc

LEMMA TypeStep == TypeOK /\ [Next]_vars => TypeOK'
<1> SUFFICES ASSUME TypeOK, [Next]_vars PROVE TypeOK'
    OBVIOUS
<1> USE SlotFacts DEF TypeOK, ProcState, Pc, At, Goto, Free, NextSlot, freeproc, Return,
        Syscall, entryVars, localVars
<1>1. CASE UNCHANGED vars
    BY <1>1 DEF vars
<1>2. ASSUME NEW p \in Proc, Dispatch(p) PROVE TypeOK'
    BY <1>2 DEF Dispatch
<1>3. ASSUME NEW p \in Proc, KilledTrap(p) PROVE TypeOK'
    BY <1>3 DEF KilledTrap
<1>4. ASSUME NEW p \in Proc, SchedRelease(p) PROVE TypeOK'
    BY <1>4 DEF SchedRelease
<1>5. ASSUME NEW p \in Proc, AllocSkip(p) PROVE TypeOK'
    BY <1>5 DEF AllocSkip
<1>6. ASSUME NEW p \in Proc, AllocFull(p) PROVE TypeOK'
    BY <1>6 DEF AllocFull
<1>7. ASSUME NEW p \in Proc, AllocFound(p) PROVE TypeOK'
  <2>1. slot[p] \in Proc
      BY <1>7 DEF AllocFound
  <2>2. nextpid \in 0 .. MaxPid /\ nextpid + 1 \in 1 .. MaxPid + 1
      BY <1>7, ProcAssumption DEF AllocFound
  <2> QED
      BY <1>7, <2>1, <2>2 DEF AllocFound
<1>8. ASSUME NEW p \in Proc, AllocNoMemory(p) PROVE TypeOK'
  <2>1. slot[p] \in Proc
      BY <1>8 DEF AllocNoMemory
  <2>2. 0 \in 0 .. MaxPid /\ nextpid' \in 1 .. MaxPid + 1
      BY <1>8, ProcAssumption DEF AllocNoMemory
  <2> QED
      BY <1>8, <2>1, <2>2 DEF AllocNoMemory
<1>9. ASSUME NEW p \in Proc, ForkParent(p) PROVE TypeOK'
    BY <1>9 DEF ForkParent
<1>10. ASSUME NEW p \in Proc, ForkLockChild(p) PROVE TypeOK'
    BY <1>10 DEF ForkLockChild
<1>11. ASSUME NEW p \in Proc, ForkRunnable(p) PROVE TypeOK'
    BY <1>11 DEF ForkRunnable
<1>12. ASSUME NEW p \in Proc, ExitLock(p) PROVE TypeOK'
    BY <1>12 DEF ExitLock
<1>13. ASSUME NEW p \in Proc, ReparentSlot(p) PROVE TypeOK'
    BY <1>13 DEF ReparentSlot
<1>14. ASSUME NEW p \in Proc, ReparentDone(p) PROVE TypeOK'
    BY <1>14 DEF ReparentDone
<1>15. ASSUME NEW p \in Proc, WakeupSlot(p) PROVE TypeOK'
    BY <1>15 DEF WakeupSlot
<1>16. ASSUME NEW p \in Proc, WakeupReturn(p) PROVE TypeOK'
    BY <1>16 DEF WakeupReturn
<1>17. ASSUME NEW p \in Proc, ExitZombie(p) PROVE TypeOK'
    BY <1>17 DEF ExitZombie
<1>18. ASSUME NEW p \in Proc, WaitLock(p) PROVE TypeOK'
    BY <1>18 DEF WaitLock
<1>19. ASSUME NEW p \in Proc, WaitSkip(p) PROVE TypeOK'
    BY <1>19 DEF WaitSkip
<1>20. ASSUME NEW p \in Proc, WaitReap(p) PROVE TypeOK'
  <2>1. slot[p] \in Proc /\ 0 \in 0 .. MaxPid
      BY <1>20, ProcAssumption DEF WaitReap
  <2> QED
      BY <1>20, <2>1 DEF WaitReap
<1>21. ASSUME NEW p \in Proc, WaitBadAddress(p) PROVE TypeOK'
    BY <1>21 DEF WaitBadAddress
<1>22. ASSUME NEW p \in Proc, WaitNone(p) PROVE TypeOK'
    BY <1>22 DEF WaitNone
<1>23. ASSUME NEW p \in Proc, WaitSleep(p) PROVE TypeOK'
    BY <1>23 DEF WaitSleep
<1>24. ASSUME NEW p \in Proc, SleepLockP(p) PROVE TypeOK'
    BY <1>24 DEF SleepLockP
<1>25. ASSUME NEW p \in Proc, SleepCommit(p) PROVE TypeOK'
    BY <1>25 DEF SleepCommit
<1>26. ASSUME NEW p \in Proc, KillSkip(p) PROVE TypeOK'
    BY <1>26 DEF KillSkip
<1>27. ASSUME NEW p \in Proc, KillHit(p) PROVE TypeOK'
    BY <1>27 DEF KillHit
<1>28. ASSUME NEW p \in Proc, KillMiss(p) PROVE TypeOK'
    BY <1>28 DEF KillMiss
<1>29. ASSUME NEW p \in Proc, UserFork(p) PROVE TypeOK'
    BY <1>29 DEF UserFork
<1>30. ASSUME NEW p \in Proc, UserWait(p) PROVE TypeOK'
    BY <1>30 DEF UserWait
<1>31. ASSUME NEW p \in Proc, UserKill(p) PROVE TypeOK'
    BY <1>31 DEF UserKill
<1>32. ASSUME NEW p \in Proc, UserExit(p) PROVE TypeOK'
    BY <1>32 DEF UserExit
<1>33. ASSUME NEW p \in Proc, UserFault(p) PROVE TypeOK'
    BY <1>33 DEF UserFault
<1> QED
    BY <1>1, <1>2, <1>3, <1>4, <1>5, <1>6, <1>7, <1>8, <1>9, <1>10, <1>11, <1>12, <1>13, <1>14, <1>15, <1>16, <1>17, <1>18, <1>19, <1>20, <1>21, <1>22, <1>23, <1>24, <1>25, <1>26, <1>27, <1>28, <1>29, <1>30, <1>31, <1>32, <1>33
       DEF Next, Step, Call

LEMMA ControlStep == ThreadInv /\ [Next]_vars => ControlInv'
<1> SUFFICES ASSUME ThreadInv, [Next]_vars PROVE ControlInv'
    OBVIOUS
<1> USE SlotFacts, ProcAssumption DEF ThreadInv, TypeOK, ControlInv, StateOf, LockHeld, WaitHeld, ChildSetUp,
        OffStack, SelfLocked, WaitHolding, Forking, Pc, At, Goto, Free, NextSlot, freeproc, Return,
        Syscall, entryVars, localVars
<1>1. CASE UNCHANGED vars
    BY <1>1 DEF vars
<1>2. ASSUME NEW p \in Proc, Dispatch(p) PROVE ControlInv'
    BY <1>2 DEF Dispatch
<1>3. ASSUME NEW p \in Proc, KilledTrap(p) PROVE ControlInv'
    BY <1>3 DEF KilledTrap
<1>4. ASSUME NEW p \in Proc, SchedRelease(p) PROVE ControlInv'
    BY <1>4 DEF SchedRelease
<1>5. ASSUME NEW p \in Proc, AllocSkip(p) PROVE ControlInv'
    BY <1>5 DEF AllocSkip
<1>6. ASSUME NEW p \in Proc, AllocFull(p) PROVE ControlInv'
    BY <1>6 DEF AllocFull
<1>7. ASSUME NEW p \in Proc, AllocFound(p) PROVE ControlInv'
  <2>1. /\ slot[p] \in Proc /\ slot[p] # p /\ pc[slot[p]] = "gone" /\ plock[slot[p]] = NoProc
        /\ \A q \in Proc : pc[q] \in Forking => np[q] # slot[p]
      BY <1>7, SMTT(20) DEF AllocFound
  <2>2. StateOf' /\ WaitHeld'
      BY <1>7, <2>1 DEF AllocFound
  <2>3. ChildSetUp'
      BY <1>7, <2>1 DEF AllocFound
  <2>4. \A q \in Proc : pc[q] \in SelfLocked \cup {"setrunnable"} =>
          pc'[q] = pc[q] /\ np'[q] = np[q]
      BY <1>7, <2>1 DEF AllocFound
  <2>5. \A q \in Proc : pc'[q] \in SelfLocked => pc[q] \in SelfLocked
      BY <1>7, <2>1 DEF AllocFound
  <2>6. LockHeld'
      BY <1>7, <2>4, <2>5 DEF AllocFound
  <2> QED
      BY <2>2, <2>3, <2>6
<1>8. ASSUME NEW p \in Proc, AllocNoMemory(p) PROVE ControlInv'
    BY <1>8 DEF AllocNoMemory
<1>9. ASSUME NEW p \in Proc, ForkParent(p) PROVE ControlInv'
    BY <1>9 DEF ForkParent
<1>10. ASSUME NEW p \in Proc, ForkLockChild(p) PROVE ControlInv'
    BY <1>10 DEF ForkLockChild
<1>11. ASSUME NEW p \in Proc, ForkRunnable(p) PROVE ControlInv'
  <2>1. np[p] \in Proc /\ state[np[p]] = "USED" /\ np[p] # p /\ pc[np[p]] = "forkret"
      BY <1>11 DEF ForkRunnable
  <2>2. StateOf' /\ WaitHeld'
      BY <1>11, <2>1 DEF ForkRunnable
  <2>3. ChildSetUp'
      BY <1>11, <2>1 DEF ForkRunnable
  <2>4. LockHeld'
      BY <1>11, <2>1 DEF ForkRunnable
  <2> QED
      BY <2>2, <2>3, <2>4
<1>12. ASSUME NEW p \in Proc, ExitLock(p) PROVE ControlInv'
    BY <1>12 DEF ExitLock
<1>13. ASSUME NEW p \in Proc, ReparentSlot(p) PROVE ControlInv'
    BY <1>13 DEF ReparentSlot
<1>14. ASSUME NEW p \in Proc, ReparentDone(p) PROVE ControlInv'
    BY <1>14 DEF ReparentDone
<1>15. ASSUME NEW p \in Proc, WakeupSlot(p) PROVE ControlInv'
    BY <1>15 DEF WakeupSlot
<1>16. ASSUME NEW p \in Proc, WakeupReturn(p) PROVE ControlInv'
    BY <1>16 DEF WakeupReturn
<1>17. ASSUME NEW p \in Proc, ExitZombie(p) PROVE ControlInv'
    BY <1>17 DEF ExitZombie
<1>18. ASSUME NEW p \in Proc, WaitLock(p) PROVE ControlInv'
    BY <1>18 DEF WaitLock
<1>19. ASSUME NEW p \in Proc, WaitSkip(p) PROVE ControlInv'
    BY <1>19 DEF WaitSkip
<1>20. ASSUME NEW p \in Proc, WaitReap(p) PROVE ControlInv'
    BY <1>20 DEF WaitReap
<1>21. ASSUME NEW p \in Proc, WaitBadAddress(p) PROVE ControlInv'
    BY <1>21 DEF WaitBadAddress
<1>22. ASSUME NEW p \in Proc, WaitNone(p) PROVE ControlInv'
    BY <1>22 DEF WaitNone
<1>23. ASSUME NEW p \in Proc, WaitSleep(p) PROVE ControlInv'
    BY <1>23 DEF WaitSleep
<1>24. ASSUME NEW p \in Proc, SleepLockP(p) PROVE ControlInv'
    BY <1>24 DEF SleepLockP
<1>25. ASSUME NEW p \in Proc, SleepCommit(p) PROVE ControlInv'
    BY <1>25 DEF SleepCommit
<1>26. ASSUME NEW p \in Proc, KillSkip(p) PROVE ControlInv'
    BY <1>26 DEF KillSkip
<1>27. ASSUME NEW p \in Proc, KillHit(p) PROVE ControlInv'
    BY <1>27 DEF KillHit
<1>28. ASSUME NEW p \in Proc, KillMiss(p) PROVE ControlInv'
    BY <1>28 DEF KillMiss
<1>29. ASSUME NEW p \in Proc, UserFork(p) PROVE ControlInv'
    BY <1>29 DEF UserFork
<1>30. ASSUME NEW p \in Proc, UserWait(p) PROVE ControlInv'
    BY <1>30 DEF UserWait
<1>31. ASSUME NEW p \in Proc, UserKill(p) PROVE ControlInv'
    BY <1>31 DEF UserKill
<1>32. ASSUME NEW p \in Proc, UserExit(p) PROVE ControlInv'
    BY <1>32 DEF UserExit
<1>33. ASSUME NEW p \in Proc, UserFault(p) PROVE ControlInv'
    BY <1>33 DEF UserFault
<1> QED
    BY <1>1, <1>2, <1>3, <1>4, <1>5, <1>6, <1>7, <1>8, <1>9, <1>10, <1>11, <1>12, <1>13, <1>14, <1>15, <1>16, <1>17, <1>18, <1>19, <1>20, <1>21, <1>22, <1>23, <1>24, <1>25, <1>26, <1>27, <1>28, <1>29, <1>30, <1>31, <1>32, <1>33
       DEF Next, Step, Call

LEMMA TreeStep == ThreadInv /\ TreeInv /\ [Next]_vars => TreeInv'
<1> SUFFICES ASSUME ThreadInv, TreeInv, [Next]_vars PROVE TreeInv'
    OBVIOUS
<1> USE SlotFacts, ProcAssumption DEF ThreadInv, TypeOK, ControlInv, StateOf, WaitHeld, ChildSetUp,
        OffStack, WaitHolding, Forking, TreeInv, InitLives, Reparented, ParentAlive, Live, At, Goto, Free, NextSlot, freeproc, Return,
        Syscall, entryVars, localVars
<1>1. CASE UNCHANGED vars
    BY <1>1 DEF vars
<1>2. ASSUME NEW p \in Proc, Dispatch(p) PROVE TreeInv'
    BY <1>2 DEF Dispatch
<1>3. ASSUME NEW p \in Proc, KilledTrap(p) PROVE TreeInv'
    BY <1>3 DEF KilledTrap
<1>4. ASSUME NEW p \in Proc, SchedRelease(p) PROVE TreeInv'
    BY <1>4 DEF SchedRelease
<1>5. ASSUME NEW p \in Proc, AllocSkip(p) PROVE TreeInv'
    BY <1>5 DEF AllocSkip
<1>6. ASSUME NEW p \in Proc, AllocFull(p) PROVE TreeInv'
    BY <1>6 DEF AllocFull
<1>7. ASSUME NEW p \in Proc, AllocFound(p) PROVE TreeInv'
    BY <1>7, SMTT(20) DEF AllocFound
<1>8. ASSUME NEW p \in Proc, AllocNoMemory(p) PROVE TreeInv'
    BY <1>8 DEF AllocNoMemory
<1>9. ASSUME NEW p \in Proc, ForkParent(p) PROVE TreeInv'
    BY <1>9 DEF ForkParent
<1>10. ASSUME NEW p \in Proc, ForkLockChild(p) PROVE TreeInv'
    BY <1>10 DEF ForkLockChild
<1>11. ASSUME NEW p \in Proc, ForkRunnable(p) PROVE TreeInv'
    BY <1>11 DEF ForkRunnable
<1>12. ASSUME NEW p \in Proc, ExitLock(p) PROVE TreeInv'
    BY <1>12 DEF ExitLock
<1>13. ASSUME NEW p \in Proc, ReparentSlot(p) PROVE TreeInv'
  <2>1. slot[p] \in Proc /\ p # InitProc /\ slot' = [slot EXCEPT ![p] = @ + 1]
      BY <1>13 DEF ReparentSlot
  <2>2. \A q \in Proc : parent'[q] = IF q = slot[p] /\ parent[q] = p THEN InitProc ELSE parent[q]
      BY <1>13, <2>1 DEF ReparentSlot
  <2>3. pc'[p] \in {"reparent", "wake_init"} /\ \A q \in Proc : q # p => pc'[q] = pc[q]
      BY <1>13 DEF ReparentSlot
  <2>4. \A q \in Proc : q < slot[p] + 1 => parent'[q] # p
    <3>1. ASSUME NEW q \in Proc, q < slot[p] + 1 PROVE q < slot[p] \/ q = slot[p]
      <4>1. q \in Nat /\ slot[p] \in Nat
          BY <2>1
      <4> QED
          BY <3>1, <4>1
    <3>2. \A q \in Proc : q < slot[p] => parent[q] # p
        BY <1>13 DEF ReparentSlot
    <3> QED
        BY <2>1, <2>2, <3>1, <3>2
  <2>5. \A r \in Proc : pc'[r] \in WaitHolding => r = p
      BY <1>13, <2>3 DEF ReparentSlot
  <2>6. Reparented'
      BY <2>1, <2>3, <2>4, <2>5
  <2>7. ParentAlive' /\ InitLives'
      BY <1>13, <2>1, <2>2, <2>3 DEF ReparentSlot
  <2> QED
      BY <2>6, <2>7
<1>14. ASSUME NEW p \in Proc, ReparentDone(p) PROVE TreeInv'
    BY <1>14 DEF ReparentDone
<1>15. ASSUME NEW p \in Proc, WakeupSlot(p) PROVE TreeInv'
    BY <1>15 DEF WakeupSlot
<1>16. ASSUME NEW p \in Proc, WakeupReturn(p) PROVE TreeInv'
    BY <1>16 DEF WakeupReturn
<1>17. ASSUME NEW p \in Proc, ExitZombie(p) PROVE TreeInv'
    BY <1>17 DEF ExitZombie
<1>18. ASSUME NEW p \in Proc, WaitLock(p) PROVE TreeInv'
    BY <1>18 DEF WaitLock
<1>19. ASSUME NEW p \in Proc, WaitSkip(p) PROVE TreeInv'
    BY <1>19 DEF WaitSkip
<1>20. ASSUME NEW p \in Proc, WaitReap(p) PROVE TreeInv'
    BY <1>20 DEF WaitReap
<1>21. ASSUME NEW p \in Proc, WaitBadAddress(p) PROVE TreeInv'
    BY <1>21 DEF WaitBadAddress
<1>22. ASSUME NEW p \in Proc, WaitNone(p) PROVE TreeInv'
    BY <1>22 DEF WaitNone
<1>23. ASSUME NEW p \in Proc, WaitSleep(p) PROVE TreeInv'
    BY <1>23 DEF WaitSleep
<1>24. ASSUME NEW p \in Proc, SleepLockP(p) PROVE TreeInv'
    BY <1>24 DEF SleepLockP
<1>25. ASSUME NEW p \in Proc, SleepCommit(p) PROVE TreeInv'
    BY <1>25 DEF SleepCommit
<1>26. ASSUME NEW p \in Proc, KillSkip(p) PROVE TreeInv'
    BY <1>26 DEF KillSkip
<1>27. ASSUME NEW p \in Proc, KillHit(p) PROVE TreeInv'
    BY <1>27 DEF KillHit
<1>28. ASSUME NEW p \in Proc, KillMiss(p) PROVE TreeInv'
    BY <1>28 DEF KillMiss
<1>29. ASSUME NEW p \in Proc, UserFork(p) PROVE TreeInv'
    BY <1>29 DEF UserFork
<1>30. ASSUME NEW p \in Proc, UserWait(p) PROVE TreeInv'
    BY <1>30 DEF UserWait
<1>31. ASSUME NEW p \in Proc, UserKill(p) PROVE TreeInv'
    BY <1>31 DEF UserKill
<1>32. ASSUME NEW p \in Proc, UserExit(p) PROVE TreeInv'
    BY <1>32 DEF UserExit
<1>33. ASSUME NEW p \in Proc, UserFault(p) PROVE TreeInv'
    BY <1>33 DEF UserFault
<1> QED
    BY <1>1, <1>2, <1>3, <1>4, <1>5, <1>6, <1>7, <1>8, <1>9, <1>10, <1>11, <1>12, <1>13, <1>14, <1>15, <1>16, <1>17, <1>18, <1>19, <1>20, <1>21, <1>22, <1>23, <1>24, <1>25, <1>26, <1>27, <1>28, <1>29, <1>30, <1>31, <1>32, <1>33
       DEF Next, Step, Call

LEMMA TreeInit == Init => TreeInv
BY SlotFacts, ProcAssumption DEF Init, TreeInv, InitLives, Reparented, ParentAlive

LEMMA CleanStep == 0 \notin KillPids /\ ThreadInv /\ FreeClean /\ [Next]_vars => FreeClean'
<1> SUFFICES ASSUME 0 \notin KillPids, ThreadInv, FreeClean, [Next]_vars PROVE FreeClean'
    OBVIOUS
<1> USE SlotFacts, ProcAssumption DEF ThreadInv, TypeOK, ControlInv, StateOf,
        OffStack, FreeClean, At, Goto, Free, NextSlot, freeproc, Return,
        Syscall, entryVars, localVars
<1>1. CASE UNCHANGED vars
    BY <1>1 DEF vars
<1>2. ASSUME NEW p \in Proc, Dispatch(p) PROVE FreeClean'
    BY <1>2 DEF Dispatch
<1>3. ASSUME NEW p \in Proc, KilledTrap(p) PROVE FreeClean'
    BY <1>3 DEF KilledTrap
<1>4. ASSUME NEW p \in Proc, SchedRelease(p) PROVE FreeClean'
    BY <1>4 DEF SchedRelease
<1>5. ASSUME NEW p \in Proc, AllocSkip(p) PROVE FreeClean'
    BY <1>5 DEF AllocSkip
<1>6. ASSUME NEW p \in Proc, AllocFull(p) PROVE FreeClean'
    BY <1>6 DEF AllocFull
<1>7. ASSUME NEW p \in Proc, AllocFound(p) PROVE FreeClean'
    BY <1>7 DEF AllocFound
<1>8. ASSUME NEW p \in Proc, AllocNoMemory(p) PROVE FreeClean'
    BY <1>8 DEF AllocNoMemory
<1>9. ASSUME NEW p \in Proc, ForkParent(p) PROVE FreeClean'
    BY <1>9 DEF ForkParent
<1>10. ASSUME NEW p \in Proc, ForkLockChild(p) PROVE FreeClean'
    BY <1>10 DEF ForkLockChild
<1>11. ASSUME NEW p \in Proc, ForkRunnable(p) PROVE FreeClean'
    BY <1>11 DEF ForkRunnable
<1>12. ASSUME NEW p \in Proc, ExitLock(p) PROVE FreeClean'
    BY <1>12 DEF ExitLock
<1>13. ASSUME NEW p \in Proc, ReparentSlot(p) PROVE FreeClean'
    BY <1>13 DEF ReparentSlot
<1>14. ASSUME NEW p \in Proc, ReparentDone(p) PROVE FreeClean'
    BY <1>14 DEF ReparentDone
<1>15. ASSUME NEW p \in Proc, WakeupSlot(p) PROVE FreeClean'
    BY <1>15 DEF WakeupSlot
<1>16. ASSUME NEW p \in Proc, WakeupReturn(p) PROVE FreeClean'
    BY <1>16 DEF WakeupReturn
<1>17. ASSUME NEW p \in Proc, ExitZombie(p) PROVE FreeClean'
    BY <1>17 DEF ExitZombie
<1>18. ASSUME NEW p \in Proc, WaitLock(p) PROVE FreeClean'
    BY <1>18 DEF WaitLock
<1>19. ASSUME NEW p \in Proc, WaitSkip(p) PROVE FreeClean'
    BY <1>19 DEF WaitSkip
<1>20. ASSUME NEW p \in Proc, WaitReap(p) PROVE FreeClean'
    BY <1>20 DEF WaitReap
<1>21. ASSUME NEW p \in Proc, WaitBadAddress(p) PROVE FreeClean'
    BY <1>21 DEF WaitBadAddress
<1>22. ASSUME NEW p \in Proc, WaitNone(p) PROVE FreeClean'
    BY <1>22 DEF WaitNone
<1>23. ASSUME NEW p \in Proc, WaitSleep(p) PROVE FreeClean'
    BY <1>23 DEF WaitSleep
<1>24. ASSUME NEW p \in Proc, SleepLockP(p) PROVE FreeClean'
    BY <1>24 DEF SleepLockP
<1>25. ASSUME NEW p \in Proc, SleepCommit(p) PROVE FreeClean'
    BY <1>25 DEF SleepCommit
<1>26. ASSUME NEW p \in Proc, KillSkip(p) PROVE FreeClean'
    BY <1>26 DEF KillSkip
<1>27. ASSUME NEW p \in Proc, KillHit(p) PROVE FreeClean'
    BY <1>27 DEF KillHit
<1>28. ASSUME NEW p \in Proc, KillMiss(p) PROVE FreeClean'
    BY <1>28 DEF KillMiss
<1>29. ASSUME NEW p \in Proc, UserFork(p) PROVE FreeClean'
    BY <1>29 DEF UserFork
<1>30. ASSUME NEW p \in Proc, UserWait(p) PROVE FreeClean'
    BY <1>30 DEF UserWait
<1>31. ASSUME NEW p \in Proc, UserKill(p) PROVE FreeClean'
    BY <1>31 DEF UserKill
<1>32. ASSUME NEW p \in Proc, UserExit(p) PROVE FreeClean'
    BY <1>32 DEF UserExit
<1>33. ASSUME NEW p \in Proc, UserFault(p) PROVE FreeClean'
    BY <1>33 DEF UserFault
<1> QED
    BY <1>1, <1>2, <1>3, <1>4, <1>5, <1>6, <1>7, <1>8, <1>9, <1>10, <1>11, <1>12, <1>13, <1>14, <1>15, <1>16, <1>17, <1>18, <1>19, <1>20, <1>21, <1>22, <1>23, <1>24, <1>25, <1>26, <1>27, <1>28, <1>29, <1>30, <1>31, <1>32, <1>33
       DEF Next, Step, Call

LEMMA ProcInductive == Spec => [](ThreadInv /\ TreeInv)
<1>1. ThreadInv /\ [Next]_vars => ThreadInv'
    BY TypeStep, ControlStep DEF ThreadInv
<1> QED
    BY <1>1, ThreadInit, TreeInit, TreeStep, PTL DEF Spec

\* For every size of the process table: p->parent never names a slot whose
\* process has exited, however fork(), exit(), wait() and kill() interleave.
THEOREM ProcParentAlive == Spec => []ParentAlive
<1>1. TreeInv => ParentAlive
    BY DEF TreeInv
<1> QED
    BY <1>1, ProcInductive, PTL

\* wait() frees a child's slot only when nobody runs on its kernel stack and
\* nobody holds its lock.
THEOREM ProcFreedOffStack == Spec => []FreedOffStack
<1>1. ThreadInv => FreedOffStack
    BY DEF ThreadInv, TypeOK, ControlInv, StateOf, LockHeld, ChildSetUp, OffStack, SelfLocked,
       Forking, Pc, FreedOffStack
<1> QED
    BY <1>1, ProcInductive, PTL

\* A process is created alive, though allocproc() does not clear p->killed:
\* freeproc() and kill(), unless called with pid 0, leave no mark on a free slot.
THEOREM ProcBornAlive == ASSUME 0 \notin KillPids PROVE Spec => BornAlive
<1>1. Init => FreeClean
    BY SlotFacts DEF Init, FreeClean
<1>2. ThreadInv /\ FreeClean /\ [Next]_vars =>
        [\A q \in Proc : state[q] = "UNUSED" /\ state'[q] = "USED" => ~killed'[q]]_vars
  <2> SUFFICES ASSUME ThreadInv, FreeClean, Next, NEW q \in Proc, state[q] = "UNUSED",
                      state'[q] = "USED"
               PROVE  ~killed'[q]
      OBVIOUS
  <2>1. PICK p \in Proc : Step(p) \/ Call(p)
      BY DEF Next
  <2> USE SlotFacts DEF ThreadInv, TypeOK
  <2>2. CASE AllocNoMemory(p) \/ WaitReap(p) \/ UserFault(p) \/ KillHit(p)
      BY <2>2 DEF AllocNoMemory, WaitReap, freeproc, UserFault, KillHit
  <2>3. CASE ~(AllocNoMemory(p) \/ WaitReap(p) \/ UserFault(p) \/ KillHit(p))
    <3>1. UNCHANGED killed
        BY <2>1, <2>3 DEF Step, Call, Dispatch, KilledTrap, SchedRelease, AllocSkip, AllocFull,
           AllocFound, ForkParent, ForkLockChild, ForkRunnable, ExitLock, ReparentSlot,
           ReparentDone, WakeupSlot, WakeupReturn, ExitZombie, WaitLock, WaitSkip,
           WaitBadAddress, WaitNone, WaitSleep, SleepLockP, SleepCommit, KillSkip, KillMiss,
           UserFork, UserWait, UserKill, UserExit, entryVars
    <3> QED
        BY <3>1 DEF FreeClean
  <2> QED
      BY <2>2, <2>3
<1> QED
    BY <1>1, <1>2, CleanStep, ProcInductive, PTL DEF Spec, BornAlive
=============================================================================
