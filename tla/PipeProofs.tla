----------------------------- MODULE PipeProofs -----------------------------
(***************************************************************************)
(* Proofs about Pipe, for any number of processes, any pipe size and any   *)
(* width of the counters: pi->lock is exclusive, no wakeup() is missed but *)
(* the one a killed writer leaves out, the pipe is freed once and unused,  *)
(* and the ring is a bounded stream of bytes.                              *)
(*                                                                         *)
(* And proofs about Shell, the programs that make the pipes, for any       *)
(* number of slots and pipes and any lines: a program gets the files its   *)
(* place in the line asks for, who calls wait() has a child, the prompt    *)
(* comes back after the line, and nobody waits in a circle.                *)
(***************************************************************************)
EXTENDS Pipe, Shell, FiniteSetTheorems, SequenceTheorems, NaturalsInduction,
        WellFoundedInduction, TLAPS

\* Where a process holds pi->lock.
Holding == {"write", "wsleep", "rtest", "rsleep", "copy", "rdone"}

LockType ==
  /\ lock \in Proc \cup {NoProc}
  /\ pc \in [Proc -> Pc]

LockOwner == \A p \in Proc : (lock = p) <=> pc[p] \in Holding

\* The test that precedes sleep() still holds when sleep() gives up the lock.
SleepTested ==
  \A p \in Proc :
    /\ pc[p] = "wsleep" => Full /\ "r" \in open
    /\ pc[p] = "rsleep" => Empty /\ "w" \in open

\* What a sleeper waits for is still so, or a process in the middle of a copying
\* loop is about to wake it.
AsleepJustified ==
  \A p \in Proc :
    /\ pc[p] = "wasleep" =>
         "r" \in open /\ (Full \/ \E q \in Proc : pc[q] \in {"copy", "rdone"})
    /\ pc[p] = "rasleep" =>
         "w" \in open /\ (Empty \/ cut \/ \E q \in Proc : pc[q] = "write")

IInv == LockType /\ LockOwner /\ SleepTested /\ AsleepJustified

LEMMA InvInit == Init => IInv
BY PipeAssumption
DEF Init, IInv, LockType, LockOwner, SleepTested, AsleepJustified, Holding, Pc, InRead, InWrite

\* The lock is exclusive, so a holder finds no other process inside.
LEMMA OneHolder ==
  ASSUME IInv, NEW p \in Proc, pc[p] \in Holding
  PROVE  lock = p /\ \A q \in Proc \ {p} : pc[q] \notin Holding
BY DEF IInv, LockOwner

LEMMA InvStep == IInv /\ [Next]_vars => IInv'
<1> SUFFICES ASSUME IInv, [Next]_vars PROVE IInv'
    OBVIOUS
<1> USE PipeAssumption DEF IInv, pipeVars, fileVars, Goto, Holding
<1>1. CASE UNCHANGED vars
    BY <1>1 DEF vars, LockType, LockOwner, SleepTested, AsleepJustified, Full, Empty
<1>2. ASSUME NEW p \in Proc, Step(p) \/ Call(p) PROVE IInv'
  <2> USE DEF LockType, LockOwner, SleepTested, AsleepJustified, Pc, InRead, InWrite, Full, Empty
  <2>1. CASE Acquire(p)
    BY <2>1, SMTT(20) DEF Acquire
  <2>2. CASE WriteFail(p)
    BY <2>2, OneHolder DEF WriteFail
  <2>3. CASE WriteFull(p)
    BY <2>3, OneHolder DEF WriteFull, Writing, WakeReaders
  <2>4. CASE WriteByte(p)
    BY <2>4, OneHolder DEF WriteByte, Writing
  <2>5. CASE WriteEnd(p)
    BY <2>5, OneHolder DEF WriteEnd, Writing, WakeReaders
  <2>6. CASE Sleep(p)
    BY <2>6, OneHolder DEF Sleep
  <2>7. CASE ReadWait(p)
    BY <2>7, OneHolder DEF ReadWait
  <2>8. CASE ReadReady(p)
    BY <2>8, OneHolder DEF ReadReady
  <2>9. CASE ReadByte(p)
    BY <2>9, OneHolder DEF ReadByte
  <2>10. CASE ReadEnd(p)
    BY <2>10, OneHolder DEF ReadEnd, WakeWriters
  <2>11. CASE pipeclose(p)
    BY <2>11 DEF pipeclose, WakeReaders, WakeWriters
  <2>12. CASE kfree(p)
    BY <2>12 DEF kfree
  <2>13. CASE write(p) \/ read(p)
    BY <2>13 DEF write, read
  <2>14. CASE fileclose(p)
    BY <2>14 DEF fileclose
  <2>15. CASE kill(p)
    BY <2>15 DEF kill
  <2>16. CASE \E q \in Proc : fork(p, q)
    BY <2>16 DEF fork
  <2> QED
    BY <1>2, <2>1, <2>2, <2>3, <2>4, <2>5, <2>6, <2>7, <2>8, <2>9, <2>10, <2>11, <2>12,
       <2>13, <2>14, <2>15, <2>16 DEF Step, Call
<1> QED
    BY <1>1, <1>2 DEF Next

\* Whoever sleeps in a pipe while its lock is free waits for something that has
\* not happened, except for what a killed writer left, for every instance.
THEOREM WakeupsHappen == Spec => []NoMissedWakeup
<1>1. IInv => NoMissedWakeup
    BY PipeAssumption
    DEF IInv, LockOwner, AsleepJustified, NoMissedWakeup, Holding
<1> QED
    BY <1>1, InvInit, InvStep, PTL DEF Spec

-----------------------------------------------------------------------------
(* Reference counts, open ends and the end of the pipe's life.             *)

\* The processes that have an end open.
FdHolders(e) == {p \in Proc : e \in fds[p]}
\* A process that closes end e for all: its fileclose() found f->ref = 1.
Closing(p, e) == pc[p] = "close" /\ end[p] = e

FdType ==
  /\ open \in SUBSET End
  /\ freed \in BOOLEAN
  /\ ref \in [End -> Nat]
  /\ fds \in [Proc -> SUBSET End]
  /\ end \in [Proc -> End]

\* f->ref counts the descriptors.
RefCounted == \A e \in End : IsFiniteSet(FdHolders(e)) /\ ref[e] = Cardinality(FdHolders(e))

\* An end is open as long as somebody has it or is about to close it, and the
\* one who closes it is the last to have had it.
OpenOwned ==
  /\ \A p \in Proc, e \in End : e \in fds[p] \/ Closing(p, e) => e \in open
  /\ \A p \in Proc, e \in End : Closing(p, e) => \A q \in Proc : e \notin fds[q]
  /\ \A p, q \in Proc, e \in End : Closing(p, e) /\ Closing(q, e) => p = q

\* Whoever reads or writes has the end open.
InCallOpen ==
  \A p \in Proc :
    /\ pc[p] \in InWrite => "w" \in fds[p]
    /\ pc[p] \in InRead => "r" \in fds[p]

\* The page is freed after both ends are closed, by one process.
FreedOnce ==
  /\ freed => open = {} /\ \A p \in Proc : pc[p] # "kfree"
  /\ \A p \in Proc : pc[p] = "kfree" => open = {} /\ \A q \in Proc : pc[q] = "kfree" => q = p

FdInv == FdType /\ RefCounted /\ OpenOwned /\ InCallOpen /\ FreedOnce

LEMMA FdInit == Init => FdInv
<1> SUFFICES ASSUME Init PROVE FdInv
    OBVIOUS
<1>1. FdType /\ InCallOpen /\ FreedOnce /\ OpenOwned
    BY PipeAssumption
    DEF Init, FdType, InCallOpen, FreedOnce, OpenOwned, Closing, InWrite, InRead, End
<1>2. ASSUME NEW e \in End PROVE IsFiniteSet(FdHolders(e)) /\ ref[e] = Cardinality(FdHolders(e))
  <2>1. FdHolders(e) = {First}
      BY PipeAssumption DEF Init, FdHolders
  <2> QED
      BY <2>1, FS_Singleton DEF Init
<1> QED
    BY <1>1, <1>2 DEF FdInv, RefCounted

\* Steps that leave descriptors and ends alone and begin no close.
LEMMA FdQuiet ==
  ASSUME FdInv, UNCHANGED <<open, freed, fds, ref, end>>,
         \A q \in Proc :
           /\ (pc'[q] = "close" <=> pc[q] = "close") /\ (pc'[q] = "kfree" <=> pc[q] = "kfree")
           /\ pc'[q] \in InWrite => "w" \in fds[q]
           /\ pc'[q] \in InRead => "r" \in fds[q]
  PROVE  FdInv'
<1>1. RefCounted'
    BY DEF FdInv, RefCounted, FdHolders
<1>2. FdType' /\ OpenOwned'
    BY DEF FdInv, FdType, OpenOwned, Closing
<1>3. InCallOpen' /\ FreedOnce'
    BY DEF FdInv, InCallOpen, FreedOnce
<1> QED
    BY <1>1, <1>2, <1>3 DEF FdInv

LEMMA FdFork ==
  ASSUME FdInv, NEW p \in Proc, NEW q \in Proc, fork(p, q)
  PROVE  FdInv'
<1>1. /\ fds' = [fds EXCEPT ![q] = fds[p]] /\ fds[q] = {} /\ fds[p] \in SUBSET End
      /\ ref' = [e \in End |-> IF e \in fds[p] THEN ref[e] + 1 ELSE ref[e]]
      /\ UNCHANGED <<open, freed, pc, end>> /\ pc[q] = "user"
    BY DEF fork, pipeVars, FdInv, FdType
<1>2. ASSUME NEW e \in End PROVE (IsFiniteSet(FdHolders(e)) /\ ref[e] = Cardinality(FdHolders(e)))'
  <2>1. CASE e \in fds[p]
    <3>1. FdHolders(e)' = FdHolders(e) \cup {q} /\ q \notin FdHolders(e)
        BY <1>1, <2>1 DEF FdHolders, FdInv, FdType
    <3>2. IsFiniteSet(FdHolders(e)) /\ ref[e] = Cardinality(FdHolders(e))
        BY DEF FdInv, RefCounted
    <3>3. IsFiniteSet(FdHolders(e) \cup {q}) /\ Cardinality(FdHolders(e) \cup {q}) = Cardinality(FdHolders(e)) + 1
        BY <3>1, <3>2, FS_AddElement
    <3> QED
        BY <1>1, <2>1, <3>1, <3>2, <3>3
  <2>2. CASE e \notin fds[p]
    <3>1. FdHolders(e)' = FdHolders(e)
        BY <1>1, <2>2 DEF FdHolders, FdInv, FdType
    <3> QED
        BY <1>1, <2>2, <3>1 DEF FdInv, RefCounted
  <2> QED
      BY <2>1, <2>2
<1>3. FdType'
    BY <1>1 DEF FdInv, FdType
<1>4. OpenOwned' /\ InCallOpen' /\ FreedOnce'
    BY <1>1 DEF FdInv, FdType, OpenOwned, Closing, InCallOpen, FreedOnce, InWrite, InRead
<1> QED
    BY <1>2, <1>3, <1>4 DEF FdInv, RefCounted

LEMMA FdFileclose ==
  ASSUME FdInv, pc \in [Proc -> Pc], NEW p \in Proc, fileclose(p)
  PROVE  FdInv'
<1>1. PICK e \in fds[p] :
        /\ pc[p] = "user"
        /\ fds' = [fds EXCEPT ![p] = @ \ {e}]
        /\ ref' = [ref EXCEPT ![e] = @ - 1]
        /\ IF ref[e] > 1 THEN UNCHANGED <<pc, end>>
           ELSE pc' = [pc EXCEPT ![p] = "close"] /\ end' = [end EXCEPT ![p] = e]
        /\ UNCHANGED <<open, freed>>
    BY DEF fileclose, Goto, pipeVars
<1>2. e \in End /\ e \in open /\ ref[e] \in Nat
    BY <1>1 DEF FdInv, FdType, OpenOwned
<1>3. IsFiniteSet(FdHolders(e)) /\ ref[e] = Cardinality(FdHolders(e)) /\ p \in FdHolders(e)
    BY <1>1, <1>2 DEF FdInv, RefCounted, FdHolders
<1>4. FdHolders(e)' = FdHolders(e) \ {p} /\ \A f \in End : f # e => FdHolders(f)' = FdHolders(f)
    BY <1>1, <1>2 DEF FdHolders, FdInv, FdType
<1>5. ref[e] # 0
    BY <1>3, FS_EmptySet
<1>6. IsFiniteSet(FdHolders(e) \ {p}) /\ Cardinality(FdHolders(e) \ {p}) = Cardinality(FdHolders(e)) - 1
    BY <1>3, FS_RemoveElement
<1>7. FdType'
    BY <1>1, <1>2, <1>5 DEF FdInv, FdType
<1>8. RefCounted'
    BY <1>1, <1>2, <1>3, <1>4, <1>6 DEF FdInv, FdType, RefCounted
<1>9. ref[e] = 1 => \A q \in Proc : e \notin fds'[q]
  <2> SUFFICES ASSUME ref[e] = 1 PROVE \A q \in Proc : e \notin fds'[q]
      OBVIOUS
  <2>1. FdHolders(e)' = {}
      BY <1>3, <1>4, <1>6, FS_EmptySet
  <2> QED
      BY <2>1 DEF FdHolders
<1>10. InCallOpen' /\ FreedOnce'
    BY <1>1, <1>2 DEF FdInv, FdType, InCallOpen, FreedOnce, InWrite, InRead
<1>11. \A q \in Proc : fds'[q] \subseteq fds[q]
    BY <1>1 DEF FdInv, FdType
<1>12. \A q \in Proc, f \in End :
         Closing(q, f)' => Closing(q, f) \/ (q = p /\ f = e /\ ref[e] = 1)
    BY <1>1, <1>2, <1>5 DEF Closing, FdInv, FdType
<1>13. \A q \in Proc : ~Closing(q, e)
    BY <1>1, <1>2 DEF FdInv, OpenOwned
<1>14. OpenOwned'
    BY <1>1, <1>2, <1>9, <1>11, <1>12, <1>13 DEF FdInv, OpenOwned
<1> QED
    BY <1>7, <1>8, <1>10, <1>14 DEF FdInv

LEMMA FdPipeclose ==
  ASSUME FdInv, pc \in [Proc -> Pc], NEW p \in Proc, pipeclose(p)
  PROVE  FdInv'
<1>1. Closing(p, end[p]) /\ end[p] \in End /\ end[p] \in open
    BY DEF pipeclose, Closing, FdInv, FdType, OpenOwned
<1>2. open' = open \ {end[p]} /\ UNCHANGED <<freed, fds, ref>> /\ end' = [end EXCEPT ![p] = "r"]
    BY DEF pipeclose, fileVars
<1>3. /\ pc'[p] = IF open = {end[p]} THEN "kfree" ELSE "user"
      /\ \A q \in Proc : q # p =>
           \/ pc'[q] = pc[q] \/ (pc[q] = "rasleep" /\ pc'[q] = "rlock")
           \/ (pc[q] = "wasleep" /\ pc'[q] = "wlock")
    BY DEF pipeclose, WakeReaders, WakeWriters
<1>4. RefCounted' /\ FdType'
    BY <1>2 DEF FdInv, RefCounted, FdType, FdHolders, End
<1>5. InCallOpen'
    BY <1>2, <1>3 DEF FdInv, InCallOpen, InWrite, InRead
<1>6. FreedOnce'
    BY <1>1, <1>2, <1>3 DEF FdInv, FreedOnce
<1>7. \A q \in Proc, f \in End : Closing(q, f)' => q # p /\ Closing(q, f) /\ f # end[p]
    BY <1>1, <1>2, <1>3 DEF Closing, FdInv, FdType, OpenOwned
<1>8. \A q \in Proc : end[p] \notin fds[q]
    BY <1>1 DEF FdInv, OpenOwned
<1>9. OpenOwned'
    BY <1>2, <1>7, <1>8 DEF FdInv, FdType, OpenOwned
<1> QED
    BY <1>4, <1>5, <1>6, <1>9 DEF FdInv

LEMMA FdStep == IInv /\ FdInv /\ [Next]_vars => FdInv'
<1> SUFFICES ASSUME IInv, pc \in [Proc -> Pc], FdInv, [Next]_vars PROVE FdInv'
    BY DEF IInv, LockType
<1>1. CASE UNCHANGED vars
    BY <1>1, FdQuiet DEF vars, FdInv, InCallOpen
<1>2. ASSUME NEW p \in Proc,
             \/ Acquire(p) \/ WriteFail(p) \/ WriteFull(p) \/ WriteByte(p) \/ WriteEnd(p)
             \/ Sleep(p) \/ ReadWait(p) \/ ReadReady(p) \/ ReadByte(p) \/ ReadEnd(p)
             \/ write(p) \/ read(p) \/ kill(p)
      PROVE  FdInv'
  <2>1. UNCHANGED <<open, freed, fds, ref, end>>
      BY <1>2 DEF Acquire, WriteFail, WriteFull, WriteByte, WriteEnd, Sleep, ReadWait, ReadReady,
         ReadByte, ReadEnd, write, read, kill, pipeVars, fileVars
  <2> USE DEF Goto, WakeReaders, WakeWriters, Writing, Pc, InWrite, InRead, FdInv, InCallOpen
  <2>2. ASSUME NEW q \in Proc
        PROVE  /\ (pc'[q] = "close" <=> pc[q] = "close") /\ (pc'[q] = "kfree" <=> pc[q] = "kfree")
               /\ pc'[q] \in InWrite => "w" \in fds[q]
               /\ pc'[q] \in InRead => "r" \in fds[q]
    <3>1. CASE Acquire(p) \/ Sleep(p) \/ ReadWait(p) \/ ReadReady(p)
        BY <3>1 DEF Acquire, Sleep, ReadWait, ReadReady
    <3>2. CASE WriteFail(p) \/ WriteFull(p) \/ WriteByte(p) \/ WriteEnd(p)
        BY <3>2 DEF WriteFail, WriteFull, WriteByte, WriteEnd
    <3>3. CASE ReadByte(p) \/ ReadEnd(p)
        BY <3>3 DEF ReadByte, ReadEnd
    <3>4. CASE write(p) \/ read(p)
        BY <3>4 DEF write, read
    <3>5. CASE kill(p)
        BY <3>5 DEF kill
    <3> QED
        BY <1>2, <3>1, <3>2, <3>3, <3>4, <3>5
  <2> QED
      BY <2>1, <2>2, FdQuiet
<1>3. ASSUME NEW p \in Proc, kfree(p) PROVE FdInv'
  <2>1. /\ UNCHANGED <<open, fds, ref, end>> /\ freed' = TRUE /\ pc[p] = "kfree"
        /\ pc' = [pc EXCEPT ![p] = "user"]
      BY <1>3 DEF kfree, Goto, fileVars
  <2>2. RefCounted' /\ FdType'
      BY <2>1 DEF FdInv, RefCounted, FdType, FdHolders
  <2>3. OpenOwned' /\ InCallOpen' /\ FreedOnce'
      BY <2>1 DEF FdInv, OpenOwned, InCallOpen, FreedOnce, Closing, InWrite, InRead
  <2> QED
      BY <2>2, <2>3 DEF FdInv
<1> QED
    BY <1>1, <1>2, <1>3, FdFork, FdFileclose, FdPipeclose DEF Next, Step, Call

\* For every instance: the page of the pipe is freed once, when no process is in
\* pipe.c and none has a descriptor that leads there (pipeclose(), fileclose()).
THEOREM PipeFreedUnused == Spec => []FreedUnused
<1>1. IInv /\ FdInv => FreedUnused
  <2> SUFFICES ASSUME IInv, FdInv PROVE FreedUnused
      OBVIOUS
  <2>1. pc \in [Proc -> Pc]
      BY DEF IInv, LockType
  <2>2. ASSUME open = {}, NEW p \in Proc PROVE fds[p] = {} /\ pc[p] \in {"user", "kfree"}
    <3>1. fds[p] = {} /\ \A e \in End : ~Closing(p, e)
        BY <2>2 DEF FdInv, FdType, OpenOwned
    <3> QED
        BY <2>1, <3>1 DEF FdInv, FdType, Closing, InCallOpen, Pc
  <2> QED
      BY <2>2 DEF FdInv, FreedOnce, FreedUnused
<1> QED
    BY <1>1, InvInit, InvStep, FdInit, FdStep, PTL DEF Spec

-----------------------------------------------------------------------------
(* The ring of bytes.                                                      *)

Count(r, w) == (w + UINT - r) % UINT

RingInv ==
  /\ data \in [0 .. PIPESIZE - 1 -> Byte \cup {NoByte}]
  /\ nread \in 0 .. UINT - 1 /\ nwrite \in 0 .. UINT - 1
  /\ Count(nread, nwrite) <= PIPESIZE
  /\ ended \in BOOLEAN

\* Arithmetic of %.
LEMMA DivMod ==
  ASSUME NEW n \in Nat, n > 0, NEW a \in Nat
  PROVE  \E q, r \in Nat : a = n * q + r /\ r < n /\ a % n = r
<1>1. a \div n \in Nat /\ a % n \in Nat /\ a % n < n
    BY SMT
<1>2. a = n * (a \div n) + (a % n)
    BY SMT
<1> QED
    BY <1>1, <1>2

LEMMA ModOf ==
  ASSUME NEW n \in Nat, n > 0, NEW q \in Nat, NEW r \in Nat, r < n
  PROVE  (n * q + r) % n = r
BY SMT

LEMMA ModSmall ==
  ASSUME NEW n \in Nat, n > 0, NEW a \in Nat, a < n + n
  PROVE  a % n = IF a < n THEN a ELSE a - n
BY SMT

\* Fewer than n consecutive numbers are different modulo n.
LEMMA ModDistinct ==
  ASSUME NEW n \in Nat, n > 0, NEW a \in Nat, NEW b \in Nat, a < b, b < a + n
  PROVE  a % n # b % n
<1>1. PICK q, r \in Nat : a = n * q + r /\ r < n /\ a % n = r
    BY DivMod
<1>2. PICK s, t \in Nat : b = n * s + t /\ t < n /\ b % n = t
    BY DivMod
<1> SUFFICES ASSUME r = t PROVE FALSE
    BY <1>1, <1>2
<1>3. n * q < n * s /\ n * s < n * q + n
    BY <1>1, <1>2
<1>4. CASE s <= q
    BY <1>3, <1>4, n * s <= n * q
<1>5. CASE s >= q + 1
    BY <1>3, <1>5, n * s >= n * (q + 1), n * (q + 1) = n * q + n
<1> QED
    BY <1>4, <1>5

\* A multiple of n does not matter modulo n.
LEMMA ModMultiple ==
  ASSUME NEW n \in Nat, n > 0, NEW u \in Nat, u % n = 0, NEW a \in Nat
  PROVE  (a + u) % n = a % n
<1>1. PICK q, r \in Nat : a = n * q + r /\ r < n /\ a % n = r
    BY DivMod
<1>2. PICK s, t \in Nat : u = n * s + t /\ t < n /\ u % n = t
    BY DivMod
<1>3. a + u = n * (q + s) + r
    BY <1>1, <1>2
<1>4. (n * (q + s) + r) % n = r
    BY <1>1, ModOf
<1> QED
    BY <1>1, <1>3, <1>4

Counter == 0 .. UINT - 1

\* The number of bytes, the next counter and the test for a full pipe.
LEMMA CountIs ==
  ASSUME NEW r \in Counter, NEW w \in Counter
  PROVE  /\ Count(r, w) = IF w < r THEN w + UINT - r ELSE w - r
         /\ Count(r, w) \in Nat
<1>1. UINT \in Nat /\ UINT > 0 /\ r \in Nat /\ w \in Nat /\ r < UINT /\ w < UINT
    BY PipeAssumption DEF Counter
<1>2. PICK a \in Nat : a = w + UINT - r /\ a < UINT + UINT
    BY <1>1, w + UINT - r \in Nat
<1>3. a % UINT = IF a < UINT THEN a ELSE a - UINT
    BY <1>1, <1>2, ModSmall
<1> QED
    BY <1>1, <1>2, <1>3 DEF Count

LEMMA IncIs ==
  ASSUME NEW n \in Counter
  PROVE  Inc(n) = (IF n = UINT - 1 THEN 0 ELSE n + 1) /\ Inc(n) \in Counter
<1>1. UINT \in Nat /\ UINT > 0 /\ n \in Nat /\ n < UINT
    BY PipeAssumption DEF Counter
<1>2. (n + 1) % UINT = IF n + 1 < UINT THEN n + 1 ELSE n + 1 - UINT
    BY <1>1, ModSmall
<1> QED
    BY <1>1, <1>2 DEF Inc, Counter

LEMMA FullIs ==
  ASSUME NEW r \in Counter, NEW w \in Counter
  PROVE  (w = (r + PIPESIZE) % UINT) <=> (Count(r, w) = PIPESIZE)
<1>1. UINT \in Nat /\ UINT > 0 /\ r \in Nat /\ w \in Nat /\ r < UINT /\ w < UINT
    BY PipeAssumption DEF Counter
<1>2. PIPESIZE \in Nat /\ PIPESIZE > 0 /\ PIPESIZE < UINT
    BY PipeAssumption
<1>3. (r + PIPESIZE) % UINT = IF r + PIPESIZE < UINT THEN r + PIPESIZE ELSE r + PIPESIZE - UINT
    BY <1>1, <1>2, ModSmall
<1> QED
    BY <1>1, <1>2, <1>3, CountIs

\* What a write and a read do to the number of bytes.
LEMMA CountInc ==
  ASSUME NEW r \in Counter, NEW w \in Counter
  PROVE  /\ Count(r, w) < PIPESIZE => Count(r, Inc(w)) = Count(r, w) + 1
         /\ r # w => Count(Inc(r), w) = Count(r, w) - 1
         /\ (r = w) <=> (Count(r, w) = 0)
<1>1. UINT \in Nat /\ UINT > 0 /\ r \in Nat /\ w \in Nat /\ r < UINT /\ w < UINT
    BY PipeAssumption DEF Counter
<1>2. PIPESIZE \in Nat /\ PIPESIZE < UINT
    BY PipeAssumption
<1>3. Inc(w) \in Counter /\ Inc(r) \in Counter
    BY IncIs
<1> QED
    BY <1>1, <1>2, <1>3, CountIs, IncIs

\* The slot that the i-th byte is in; nwrite names the slot after the last byte,
\* and the slots of the bytes do not depend on where nread wraps around.
RingSlot(r, i) == (r + i - 1) % PIPESIZE

LEMMA SlotOfWrite ==
  ASSUME NEW r \in Counter, NEW w \in Counter
  PROVE  w % PIPESIZE = RingSlot(r, Count(r, w) + 1)
<1>1. UINT \in Nat /\ UINT > 0 /\ r \in Nat /\ w \in Nat /\ r < UINT /\ w < UINT
    BY PipeAssumption DEF Counter
<1>2. PIPESIZE \in Nat /\ PIPESIZE > 0 /\ UINT % PIPESIZE = 0
    BY PipeAssumption
<1>3. CASE w < r
  <2>1. r + (Count(r, w) + 1) - 1 = w + UINT
      BY <1>1, <1>3, CountIs
  <2>2. (w + UINT) % PIPESIZE = w % PIPESIZE
      BY <1>1, <1>2, ModMultiple
  <2> QED
      BY <2>1, <2>2 DEF RingSlot
<1>4. CASE ~(w < r)
  <2>1. r + (Count(r, w) + 1) - 1 = w
      BY <1>1, <1>4, CountIs
  <2> QED
      BY <2>1 DEF RingSlot
<1> QED
    BY <1>3, <1>4

LEMMA SlotInc ==
  ASSUME NEW r \in Counter, NEW i \in Nat, i > 0
  PROVE  RingSlot(Inc(r), i) = RingSlot(r, i + 1)
<1>1. UINT \in Nat /\ UINT > 0 /\ r \in Nat /\ r < UINT
    BY PipeAssumption DEF Counter
<1>2. PIPESIZE \in Nat /\ PIPESIZE > 0 /\ UINT % PIPESIZE = 0
    BY PipeAssumption
<1>3. CASE r = UINT - 1
  <2>1. i - 1 \in Nat /\ Inc(r) + i - 1 = i - 1 /\ r + (i + 1) - 1 = (i - 1) + UINT
      BY <1>1, <1>3, IncIs
  <2>2. ((i - 1) + UINT) % PIPESIZE = (i - 1) % PIPESIZE
      BY <1>1, <1>2, <2>1, ModMultiple
  <2> QED
      BY <2>1, <2>2 DEF RingSlot
<1>4. CASE r # UINT - 1
  <2>1. Inc(r) + i - 1 = r + (i + 1) - 1
      BY <1>1, <1>4, IncIs
  <2> QED
      BY <2>1 DEF RingSlot
<1> QED
    BY <1>3, <1>4

LEMMA SlotType ==
  ASSUME NEW r \in Counter, NEW i \in Nat, i > 0
  PROVE  RingSlot(r, i) \in 0 .. PIPESIZE - 1
<1>1. PIPESIZE \in Nat /\ PIPESIZE > 0 /\ r + i - 1 \in Nat
    BY PipeAssumption DEF Counter
<1>2. (r + i - 1) % PIPESIZE \in Nat /\ (r + i - 1) % PIPESIZE < PIPESIZE
    BY <1>1, DivMod
<1> QED
    BY <1>1, <1>2 DEF RingSlot

LEMMA SlotsDistinct ==
  ASSUME NEW r \in Counter, NEW n \in Nat, n < PIPESIZE, NEW i \in 1 .. n
  PROVE  RingSlot(r, i) # RingSlot(r, n + 1)
<1>1. PIPESIZE \in Nat /\ PIPESIZE > 0 /\ r \in Nat
    BY PipeAssumption DEF Counter
<1>2. r + i - 1 \in Nat /\ r + (n + 1) - 1 \in Nat
      /\ r + i - 1 < r + (n + 1) - 1 /\ r + (n + 1) - 1 < (r + i - 1) + PIPESIZE
    BY <1>1
<1> QED
    BY <1>1, <1>2, ModDistinct DEF RingSlot

\* Contents, of any counters and data.
Ring(r, w, d) == [i \in 1 .. Count(r, w) |-> d[RingSlot(r, i)]]
Data == [0 .. PIPESIZE - 1 -> Byte \cup {NoByte}]

LEMMA ContentsIs ==
  /\ Contents = Ring(nread, nwrite, data)
  /\ Contents' = Ring(nread', nwrite', data')
BY DEF Contents, Ring, Count, RingSlot

LEMMA RingSeq ==
  ASSUME NEW r \in Counter, NEW w \in Counter, NEW d \in Data
  PROVE  /\ Ring(r, w, d) \in Seq(Byte \cup {NoByte})
         /\ Len(Ring(r, w, d)) = Count(r, w)
         /\ \A i \in 1 .. Count(r, w) : Ring(r, w, d)[i] = d[RingSlot(r, i)]
<1>1. Count(r, w) \in Nat
    BY CountIs
<1>2. \A i \in 1 .. Count(r, w) : d[RingSlot(r, i)] \in Byte \cup {NoByte}
  <2> SUFFICES ASSUME NEW i \in 1 .. Count(r, w) PROVE d[RingSlot(r, i)] \in Byte \cup {NoByte}
      OBVIOUS
  <2>1. i \in Nat /\ i > 0
      BY <1>1
  <2> QED
      BY <2>1, SlotType DEF Data
<1> QED
    BY <1>1, <1>2 DEF Ring

\* WriteByte appends to the ring.
LEMMA RingWrite ==
  ASSUME NEW r \in Counter, NEW w \in Counter, NEW d \in Data, NEW b \in Byte,
         Count(r, w) < PIPESIZE
  PROVE  Ring(r, Inc(w), [d EXCEPT ![w % PIPESIZE] = b]) = Append(Ring(r, w, d), b)
<1> DEFINE n == Count(r, w)
           e == [d EXCEPT ![w % PIPESIZE] = b]
           s == Ring(r, Inc(w), e)
           t == Append(Ring(r, w, d), b)
<1>1. n \in Nat /\ Inc(w) \in Counter /\ Count(r, Inc(w)) = n + 1
    BY CountIs, CountInc, IncIs
<1>2. w % PIPESIZE = RingSlot(r, n + 1) /\ RingSlot(r, n + 1) \in 0 .. PIPESIZE - 1
    BY <1>1, SlotOfWrite, SlotType
<1>3. e \in Data
    BY <1>2 DEF Data
<1> HIDE DEF n, e
<1>4. s \in Seq(Byte \cup {NoByte}) /\ Len(s) = n + 1 /\ \A i \in 1 .. n + 1 : s[i] = e[RingSlot(r, i)]
  <2>1. /\ s \in Seq(Byte \cup {NoByte}) /\ Len(s) = Count(r, Inc(w))
        /\ \A i \in 1 .. Count(r, Inc(w)) : s[i] = e[RingSlot(r, i)]
      BY <1>1, <1>3, RingSeq
  <2> QED
      BY <1>1, <2>1
<1>5. /\ Ring(r, w, d) \in Seq(Byte \cup {NoByte}) /\ Len(Ring(r, w, d)) = n
      /\ \A i \in 1 .. n : Ring(r, w, d)[i] = d[RingSlot(r, i)]
    BY RingSeq DEF n
<1> HIDE DEF s
<1>6. /\ t \in Seq(Byte \cup {NoByte}) /\ Len(t) = n + 1 /\ t[n + 1] = b
      /\ \A i \in 1 .. n : t[i] = d[RingSlot(r, i)]
    BY <1>5, AppendProperties
<1>7. e[RingSlot(r, n + 1)] = b
    BY <1>2 DEF e, Data
<1>8. ASSUME NEW i \in 1 .. n PROVE e[RingSlot(r, i)] = d[RingSlot(r, i)]
  <2>1. i \in Nat /\ i > 0 /\ RingSlot(r, i) # RingSlot(r, n + 1)
      BY <1>1, SlotsDistinct DEF n
  <2>2. RingSlot(r, i) \in 0 .. PIPESIZE - 1
      BY <2>1, SlotType
  <2> QED
      BY <1>2, <2>1, <2>2 DEF e, Data
<1>9. \A i \in 1 .. n + 1 : s[i] = t[i]
  <2> SUFFICES ASSUME NEW i \in 1 .. n + 1 PROVE s[i] = t[i]
      OBVIOUS
  <2>1. CASE i = n + 1
      BY <2>1, <1>4, <1>6, <1>7
  <2>2. CASE i # n + 1
    <3>1. i \in 1 .. n
        BY <1>1, <2>2
    <3> QED
        BY <3>1, <1>4, <1>6, <1>8
  <2> QED
      BY <2>1, <2>2
<1> HIDE DEF t
<1>10. s = t
    BY <1>4, <1>6, <1>9, SeqEqual
<1> QED
    BY <1>10 DEF s, t, e, n

\* ReadByte takes the first byte of the ring.
LEMMA RingRead ==
  ASSUME NEW r \in Counter, NEW w \in Counter, NEW d \in Data, r # w
  PROVE  /\ Ring(r, w, d) # <<>>
         /\ d[r % PIPESIZE] = Head(Ring(r, w, d))
         /\ Ring(Inc(r), w, d) = Tail(Ring(r, w, d))
<1> DEFINE n == Count(r, w)
           q == Ring(r, w, d)
           s == Ring(Inc(r), w, d)
<1>1. n \in Nat /\ n > 0 /\ Inc(r) \in Counter /\ Count(Inc(r), w) = n - 1
    BY CountIs, CountInc, IncIs
<1>2. q \in Seq(Byte \cup {NoByte}) /\ Len(q) = n /\ \A i \in 1 .. n : q[i] = d[RingSlot(r, i)]
    BY RingSeq
<1>3. /\ s \in Seq(Byte \cup {NoByte}) /\ Len(s) = n - 1
      /\ \A i \in 1 .. n - 1 : s[i] = d[RingSlot(Inc(r), i)]
    BY <1>1, RingSeq, SMTT(20)
<1> HIDE DEF n, q, s
<1>4. q # <<>>
    BY <1>1, <1>2, EmptySeq
<1>5. Head(q) = d[r % PIPESIZE]
  <2>1. RingSlot(r, 1) = r % PIPESIZE
    <3>1. r + 1 - 1 = r
        BY DEF Counter
    <3> QED
        BY <3>1 DEF RingSlot
  <2> QED
      BY <1>1, <1>2, <2>1
<1>6. ASSUME NEW i \in 1 .. n - 1 PROVE s[i] = Tail(q)[i]
  <2>1. i \in Nat /\ i > 0 /\ i + 1 \in 1 .. n
      BY <1>1
  <2>2. RingSlot(Inc(r), i) = RingSlot(r, i + 1)
      BY <2>1, SlotInc
  <2>3. Tail(q)[i] = q[i + 1]
      BY <1>1, <1>2, <1>4, HeadTailProperties
  <2> QED
      BY <1>2, <1>3, <2>1, <2>2, <2>3
<1>7. Tail(q) \in Seq(Byte \cup {NoByte}) /\ Len(Tail(q)) = n - 1
    BY <1>2, <1>4, HeadTailProperties
<1>8. s = Tail(q)
    BY <1>3, <1>6, <1>7, SeqEqual
<1> QED
    BY <1>4, <1>5, <1>8 DEF q, s

LEMMA RingInit == Init => RingInv
<1> SUFFICES ASSUME Init PROVE RingInv
    OBVIOUS
<1>1. 0 \in Counter
    BY PipeAssumption DEF Counter
<1>2. Count(0, 0) = 0
    BY <1>1, CountIs
<1>3. data \in Data /\ ended \in BOOLEAN
    BY DEF Init, Data
<1>4. Count(nread, nwrite) <= PIPESIZE
    BY <1>2, PipeAssumption DEF Init
<1> QED
    BY <1>1, <1>3, <1>4 DEF Init, RingInv, Counter, Data

\* Only WriteByte and ReadByte touch the ring.
LEMMA RingStep == RingInv /\ [Next]_vars => RingInv'
<1> SUFFICES ASSUME RingInv, [Next]_vars PROVE RingInv'
    OBVIOUS
<1>1. data \in Data /\ nread \in Counter /\ nwrite \in Counter /\ Count(nread, nwrite) <= PIPESIZE
    BY DEF RingInv, Data, Counter
<1>2. ASSUME UNCHANGED <<data, nread, nwrite>>, ended' \in BOOLEAN PROVE RingInv'
    BY <1>2 DEF RingInv
<1>3. ASSUME NEW p \in Proc, WriteByte(p) PROVE RingInv'
  <2>1. PICK b \in Byte : data' = [data EXCEPT ![nwrite % PIPESIZE] = b]
      BY <1>3 DEF WriteByte
  <2>2. nread' = nread /\ nwrite' = Inc(nwrite) /\ ended' = ended
      BY <1>3 DEF WriteByte
  <2>3. Count(nread, nwrite) < PIPESIZE
    <3>1. Count(nread, nwrite) # PIPESIZE
        BY <1>1, <1>3, FullIs DEF WriteByte, Full
    <3> QED
        BY <1>1, <3>1, CountIs, PipeAssumption
  <2>4. Count(nread, Inc(nwrite)) = Count(nread, nwrite) + 1 /\ Inc(nwrite) \in Counter
      BY <1>1, <2>3, CountInc, IncIs
  <2>5. Count(nread, Inc(nwrite)) <= PIPESIZE
      BY <1>1, <2>3, <2>4, CountIs, PipeAssumption
  <2>6. data' \in Data
      BY <1>1, <2>1 DEF Data
  <2> QED
      BY <1>1, <2>2, <2>4, <2>5, <2>6 DEF RingInv, Data, Counter
<1>4. ASSUME NEW p \in Proc, ReadByte(p) PROVE RingInv'
  <2>1. nread' = Inc(nread) /\ UNCHANGED <<data, nwrite, ended>> /\ nread # nwrite
      BY <1>4 DEF ReadByte, Empty
  <2>2. Count(Inc(nread), nwrite) = Count(nread, nwrite) - 1 /\ Inc(nread) \in Counter
      BY <1>1, <2>1, CountInc, IncIs
  <2>3. Count(Inc(nread), nwrite) <= PIPESIZE
      BY <1>1, <2>2, CountIs, PipeAssumption
  <2> QED
      BY <1>1, <2>1, <2>2, <2>3 DEF RingInv, Data, Counter
<1>5. ASSUME NEW p \in Proc, ReadReady(p) PROVE RingInv'
  <2>1. UNCHANGED <<data, nread, nwrite>> /\ ended' \in BOOLEAN
      BY <1>5 DEF ReadReady, pipeVars
  <2> QED
      BY <1>2, <2>1
<1>6. ASSUME NEW p \in Proc, Step(p) \/ Call(p), ~WriteByte(p), ~ReadByte(p), ~ReadReady(p)
      PROVE  UNCHANGED <<data, nread, nwrite, ended>>
    BY <1>6 DEF Step, Call, Acquire, WriteFail, WriteFull, WriteEnd, Sleep, ReadWait,
       ReadEnd, pipeclose, kfree, write, read, fileclose, kill, fork, pipeVars
<1> QED
    BY <1>2, <1>3, <1>4, <1>5, <1>6, ended \in BOOLEAN DEF Next, vars, RingInv

-----------------------------------------------------------------------------
(* The pipe implements the byte stream.                                    *)

LEMMA StreamInit == Init => Stream!Init
<1> SUFFICES ASSUME Init PROVE Stream!Init
    OBVIOUS
<1>1. 0 \in Counter
    BY PipeAssumption DEF Counter
<1>2. Count(0, 0) = 0
    BY <1>1, CountIs
<1>3. Contents = <<>>
    BY <1>2, ContentsIs DEF Init, Ring
<1> QED
    BY <1>3 DEF Init, Stream!Init, End

LEMMA StreamStep == IInv /\ FdInv /\ RingInv /\ [Next]_vars => [Stream!Next]_(Stream!vars)
<1> SUFFICES ASSUME IInv, FdInv, RingInv, [Next]_vars PROVE [Stream!Next]_(Stream!vars)
    OBVIOUS
<1>1. data \in Data /\ nread \in Counter /\ nwrite \in Counter /\ Count(nread, nwrite) <= PIPESIZE
    BY DEF RingInv, Data, Counter
<1>2. ASSUME UNCHANGED <<data, nread, nwrite>> PROVE Contents' = Contents
    BY <1>2 DEF Contents
<1>3. /\ Contents \in Seq(Byte \cup {NoByte}) /\ Len(Contents) = Count(nread, nwrite)
      /\ Contents = <<>> <=> Empty
  <2>1. Contents \in Seq(Byte \cup {NoByte}) /\ Len(Contents) = Count(nread, nwrite)
      BY <1>1, ContentsIs, RingSeq
  <2>2. Empty <=> Len(Contents) = 0
      BY <1>1, <2>1, CountInc DEF Empty
  <2> QED
      BY <2>1, <2>2, EmptySeq
<1>4. ASSUME NEW p \in Proc, WriteByte(p) PROVE Stream!Put
  <2>1. PICK b \in Byte : data' = [data EXCEPT ![nwrite % PIPESIZE] = b]
      BY <1>4 DEF WriteByte
  <2>2. nread' = nread /\ nwrite' = Inc(nwrite) /\ UNCHANGED <<open, taken, ended>>
      BY <1>4 DEF WriteByte
  <2>3. Count(nread, nwrite) < PIPESIZE
    <3>1. Count(nread, nwrite) # PIPESIZE
        BY <1>1, <1>4, FullIs DEF WriteByte, Full
    <3> QED
        BY <1>1, <3>1, CountIs, PipeAssumption
  <2>4. Contents' = Append(Contents, b)
      BY <1>1, <2>1, <2>2, <2>3, ContentsIs, RingWrite
  <2>5. open = {"r", "w"}
    <3>1. "w" \in fds[p] /\ "r" \in open
        BY <1>4 DEF WriteByte, Writing, FdInv, InCallOpen, InWrite
    <3>2. "w" \in open
        BY <3>1 DEF FdInv, OpenOwned, End
    <3> QED
        BY <3>1, <3>2 DEF FdInv, FdType, End
  <2> QED
      BY <1>3, <2>2, <2>3, <2>4, <2>5 DEF Stream!Put
<1>5. ASSUME NEW p \in Proc, ReadByte(p) PROVE Stream!Get
  <2>1. nread' = Inc(nread) /\ UNCHANGED <<data, nwrite, open, ended>> /\ nread # nwrite
      BY <1>5 DEF ReadByte, Empty
  <2>2. Contents # <<>> /\ taken' = Head(Contents) /\ Contents' = Tail(Contents)
      BY <1>1, <1>5, <2>1, ContentsIs, RingRead DEF ReadByte
  <2>3. "r" \in open
      BY <1>5 DEF ReadByte, FdInv, InCallOpen, InRead, OpenOwned, End
  <2> QED
      BY <2>1, <2>2, <2>3 DEF Stream!Get
<1>6. ASSUME NEW p \in Proc, ReadReady(p) PROVE [Stream!Next]_(Stream!vars)
  <2>1. UNCHANGED <<data, nread, nwrite, open, taken>> /\ ended' = (ended \/ Empty)
      BY <1>6 DEF ReadReady, pipeVars
  <2>2. CASE Empty
    <3>1. "w" \notin open
        BY <1>6, <2>2 DEF ReadReady
    <3>2. Stream!End
        BY <1>2, <1>3, <2>1, <2>2, <3>1 DEF Stream!End
    <3> QED
        BY <3>2 DEF Stream!Next
  <2>3. CASE ~Empty
    <3>1. ended' = ended
        BY <2>1, <2>3 DEF RingInv
    <3> QED
        BY <1>2, <2>1, <3>1 DEF Stream!vars
  <2> QED
      BY <2>2, <2>3
<1>7. ASSUME NEW p \in Proc, pipeclose(p) PROVE [Stream!Next]_(Stream!vars)
  <2>1. end[p] \in End /\ end[p] \in open
      BY <1>7 DEF pipeclose, FdInv, FdType, OpenOwned, Closing
  <2>2. UNCHANGED <<data, nread, nwrite, taken, ended>> /\ open' = open \ {end[p]}
      BY <1>7 DEF pipeclose
  <2>3. Stream!Close(end[p])
      BY <1>2, <2>1, <2>2 DEF Stream!Close
  <2> QED
      BY <2>1, <2>3 DEF Stream!Next, End
<1>8. ASSUME NEW p \in Proc, Step(p) \/ Call(p), ~WriteByte(p), ~ReadByte(p), ~ReadReady(p),
             ~pipeclose(p)
      PROVE  UNCHANGED <<data, nread, nwrite, open, taken, ended>>
    BY <1>8 DEF Step, Call, Acquire, WriteFail, WriteFull, WriteEnd, Sleep, ReadWait,
       ReadEnd, kfree, write, read, fileclose, kill, fork, pipeVars
<1>9. ASSUME UNCHANGED <<data, nread, nwrite, open, taken, ended>>
      PROVE  UNCHANGED Stream!vars
    BY <1>2, <1>9 DEF Stream!vars
<1>10. CASE UNCHANGED vars
    BY <1>9, <1>10 DEF vars
<1> QED
    BY <1>4, <1>5, <1>6, <1>7, <1>8, <1>9, <1>10 DEF Next, Stream!Next

\* For every pipe size, counter width and number of processes: pipewrite() and
\* piperead() implement a bounded byte stream.  No byte is lost, duplicated or
\* reordered when nread and nwrite wrap around, nothing is written to a pipe
\* without a reader, and a reader is told of the end only after the last byte.
THEOREM PipeImplementsByteStream == Spec => ImplementsByteStream
BY InvInit, InvStep, FdInit, FdStep, RingInit, RingStep, StreamInit, StreamStep, PTL
DEF Spec, Stream!Spec, ImplementsByteStream

-----------------------------------------------------------------------------
(* The shell.  Its invariant has a part about each process alone, which    *)
(* says that its tree and its descriptors are parts of what the line asks  *)
(* for, and a part about families, which counts the children at each point *)
(* of the code.                                                            *)

\* The fields of struct proc that the model has.
IsProc(p) ==
  /\ p = [st |-> p.st, parent |-> p.parent, pc |-> p.pc, line |-> p.line,
          cmd |-> p.cmd, fd |-> p.fd, child |-> p.child]
  /\ p.fd = [d \in Fd |-> p.fd[d]]
  /\ p.st = "live" <=> p.pc # "none"

Piping == {"pipeleft", "left", "pipe2", "right"}

\* Before a command runs, the descriptors are the console's.
PlannedMain(p) ==
  /\ p.pc \in {"init", "initwait", "initchild", "shstart", "prompt", "shfork", "shwait", "parse"}
       => p.fd = Standard
  /\ p.pc \in {"shfork", "parse"} => p.line \in Line

\* The programs of the tree that is left to run, started with the present
\* descriptors, are programs of the line.
PlannedTree(p) ==
  p.pc \in {"run", "listwait", "prog"} \cup Piping =>
    /\ p.cmd \in Command
    /\ Anonymous(p.fd[0]) \in File /\ Anonymous(p.fd[1]) \in File
    /\ Wiring(p.cmd, Anonymous(p.fd[0]), Anonymous(p.fd[1]))
         \subseteq Wiring(parse(p.line), Console, Console)

PlannedKind(p) ==
  /\ p.pc = "prog" => p.cmd.type = "EXEC"
  /\ p.pc = "listwait" => p.cmd.type = "LIST"
  /\ p.pc \in Piping => p.cmd.type = "PIPE"

PlannedFd(p) ==
  /\ p.pc \in {"run", "listwait", "prog"} \cup Piping =>
       p.fd[0] # None /\ p.fd[1] # None /\ p.fd[2] = Console
  /\ p.pc \in {"run", "listwait", "prog"} => p.fd[3] = None /\ p.fd[4] = None
  /\ p.pc \in Piping =>
       \E k : p.fd[3] = Open("r", k, p.cmd.at) /\ p.fd[4] = Open("w", k, p.cmd.at)

Planned(p) == IsProc(p) /\ PlannedMain(p) /\ PlannedTree(p) /\ PlannedKind(p) /\ PlannedFd(p)

PlanInv ==
  /\ proc = [q \in Slot |-> proc[q]]
  /\ \A q \in Slot : Planned(proc[q])
  /\ session \in Seq(Line)

\* Where a process has no children.
Childless == {"initchild", "shstart", "prompt", "shfork", "parse", "run", "pipeleft", "left",
              "right", "prog"}

\* The children of a process other than init.
Family(q) ==
  LET p == proc[q] IN
  /\ p.parent # q
  /\ p.pc \in Childless \cup {"none"} => Children(q) = {}
  /\ p.pc \in {"shwait", "listwait", "pipe2", "wait2"} => \E c : Children(q) = {c}
  /\ p.pc = "wait1" => \E c, d : c # d /\ Children(q) = {c, d}
  /\ p.pc = "end" => Children(q) = {} \/ p.cmd.type = "BACK"
  /\ p.pc \notin {"init", "initwait"}

InitFamily ==
  /\ proc[init].parent = 0
  /\ proc[init].pc \in {"none", "init", "initwait"}
  /\ proc[init].pc = "initwait" => proc[init].child \in Children(init)

FamilyInv == InitFamily /\ \A q \in Slot \ {init} : Family(q)

ShellInv == PlanInv /\ FamilyInv

-----------------------------------------------------------------------------
(* Who can wait for whom.  Every process that ever ran is a node of a      *)
(* tree; the nodes are numbers below B, in the order in which they came,   *)
(* and A[t] is the set of the nodes from the root 0 to t.  The two sides   *)
(* of pipe k are the nodes l[k] and l[k] + 1, which have the same parent.  *)

Forest(A, B) ==
  /\ B \in Nat /\ A \in [Nat -> SUBSET Nat]
  /\ \A t \in Nat : t < B =>
       /\ 0 \in A[t] /\ t \in A[t]
       /\ \A s \in A[t] : s <= t /\ \A u \in Nat : u <= s => (u \in A[s] <=> u \in A[t])

Sides(A, B, l) ==
  /\ l \in [1 .. NPipe -> Nat]
  /\ \A k \in 1 .. NPipe :
       /\ 0 < l[k] /\ l[k] + 1 < B /\ l[k] \notin A[l[k] + 1]
       /\ \A u \in Nat : u < l[k] => (u \in A[l[k]] <=> u \in A[l[k] + 1])
  /\ \A j, k \in 1 .. NPipe : j # k => l[j] # l[k] /\ l[j] # l[k] + 1

Below(A, s, t) == s \in A[t] /\ s # t

\* A node t holds an end of a pipe only on the side the end is for; at[k] is the
\* "|" that pipe k was made for.
Held(o, A, t, l, at) ==
  o.kind \in {"r", "w"} =>
    /\ o.id \in 1 .. NPipe /\ o = Open(o.kind, o.id, at[o.id])
    /\ IF o.kind = "r" THEN l[o.id] + 1 \in A[t] ELSE l[o.id] \in A[t]

\* The maker of a pipe is the parent of both sides, and each side is one of them.
Beside(place, A, t, s) ==
  /\ place \in {"pipeleft", "pipe2"} =>
       /\ A[s] = A[t] \cup {s} /\ A[s + 1] = A[t] \cup {s + 1}
       /\ s \notin A[t] /\ s + 1 \notin A[t]
  /\ place = "left" => s \in A[t]
  /\ place = "right" => s + 1 \in A[t]

Settled(p, A, t, l, at) ==
  /\ \A d \in Fd : d < 3 \/ p.pc \notin Piping => Held(p.fd[d], A, t, l, at)
  /\ p.pc \in Piping =>
       \E k \in 1 .. NPipe :
         /\ p.fd[3] = Open("r", k, at[k]) /\ p.fd[4] = Open("w", k, at[k])
         /\ Beside(p.pc, A, t, l[k])

\* Every live process has a node, below that of its parent.
Placed(A, B, l, at, node) ==
  /\ Forest(A, B) /\ Sides(A, B, l)
  /\ node \in [Slot -> Nat] /\ node[init] = 0
  /\ \A q \in Live :
       /\ node[q] < B /\ (q # init => node[q] # 0)
       /\ Settled(proc[q], A, node[q], l, at)
       /\ \A c \in Live : proc[c].parent = q => Below(A, node[q], node[c])

HangInv == \E A, B, l, at, node : Placed(A, B, l, at, node)

\* What a step does to the tree.  Nobody comes, and who stays keeps its place or
\* becomes a child of init, and gets no end of a pipe that it had not; or a
\* process forks; or a process makes a pipe.
Narrows(p, r) == \A A, t, l, at : Settled(p, A, t, l, at) => Settled(r, A, t, l, at)

Quiet ==
  \A x \in Slot : proc'[x].st = "live" =>
    /\ proc[x].st = "live" /\ proc'[x].parent \in {proc[x].parent, init}
    /\ Narrows(proc[x], proc'[x])

ForkFds(p, a, b) ==
  /\ b.fd = p.fd
  /\ \/ p.pc \notin Piping /\ a.pc \notin Piping /\ b.pc \notin Piping /\ a.fd = p.fd
     \/ p.pc = "pipeleft" /\ a.pc = "pipe2" /\ b.pc = "left" /\ a.fd = p.fd
     \/ p.pc = "pipe2" /\ a.pc = "wait1" /\ b.pc = "right"
        /\ a.fd = [e \in Fd |-> IF e \in {3, 4} THEN None ELSE p.fd[e]]

Forks(q, n) ==
  /\ n # q /\ n # init /\ proc[q].st = "live" /\ proc[n].st = "free"
  /\ proc'[q].st = "live" /\ proc'[q].parent = proc[q].parent
  /\ proc'[n].st = "live" /\ proc'[n].parent = q
  /\ \A x \in Slot \ {q, n} : proc'[x] = proc[x]
  /\ ForkFds(proc[q], proc'[q], proc'[n])

Pipes(q, k) ==
  /\ k \in PipeIds /\ q # init /\ proc[q].st = "live" /\ proc[q].pc \notin Piping
  /\ proc'[q].st = "live" /\ proc'[q].parent = proc[q].parent /\ proc'[q].pc = "pipeleft"
  /\ \E x : proc'[q].fd = [e \in Fd |-> IF e = 3 THEN Open("r", k, x)
                                        ELSE IF e = 4 THEN Open("w", k, x) ELSE proc[q].fd[e]]
  /\ \A x \in Slot \ {q} : proc'[x] = proc[x]

TreeStep == Quiet \/ \E q \in Slot : (\E n \in Slot : Forks(q, n)) \/ (\E k : Pipes(q, k))

LEMMA InitInSlot == init \in Slot
BY ShellAssumption DEF init, Slot

\* Whose child a process is, and what its last fork() returned, is not part of
\* the plan.
LEMMA PlannedApart ==
  ASSUME NEW p, Planned(p), NEW r, IsProc(r), r.pc = p.pc, r.line = p.line, r.cmd = p.cmd, r.fd = p.fd
  PROVE  Planned(r)
BY DEF Planned, PlannedMain, PlannedTree, PlannedKind, PlannedFd

\* The same place in the code and the same descriptors, or descriptors of which
\* none is a new end of a pipe.
LEMMA SameNarrows ==
  ASSUME NEW p, NEW r, r.pc = p.pc, r.fd = p.fd
  PROVE  Narrows(p, r)
BY DEF Narrows, Settled

LEMMA FewerNarrows ==
  ASSUME NEW p, NEW r, p.pc \notin Piping, r.pc \notin Piping,
         \A d \in Fd : r.fd[d] = p.fd[d] \/ r.fd[d].kind \notin {"r", "w"}
  PROVE  Narrows(p, r)
BY DEF Narrows, Settled, Held

LEMMA IdlePlanned ==
  ASSUME NEW p, IsProc(p), p.pc \in {"none", "end", "wait1", "wait2"}
  PROVE  Planned(p)
BY DEF Planned, PlannedMain, PlannedTree, PlannedKind, PlannedFd, Piping

\* The record p with another parent, and with another child.
OfParent(p, q) == [p EXCEPT !.parent = q]
WithChild(p, q) == [p EXCEPT !.child = q]

LEMMA OfParentPlanned ==
  ASSUME NEW p, Planned(p), NEW q
  PROVE  LET r == OfParent(p, q) IN
         /\ Planned(r) /\ r.st = p.st /\ r.parent = q /\ r.pc = p.pc /\ r.line = p.line
         /\ r.cmd = p.cmd /\ r.fd = p.fd /\ r.child = p.child
<1> DEFINE r == OfParent(p, q)
<1>1. r = [st |-> p.st, parent |-> q, pc |-> p.pc, line |-> p.line,
           cmd |-> p.cmd, fd |-> p.fd, child |-> p.child]
    BY DEF Planned, IsProc, OfParent
<1>2. IsProc(r)
    BY <1>1 DEF Planned, IsProc
<1> QED
    BY <1>1, <1>2, PlannedApart

LEMMA WithChildPlanned ==
  ASSUME NEW p, Planned(p), NEW q
  PROVE  LET r == WithChild(p, q) IN
         /\ Planned(r) /\ r.st = p.st /\ r.parent = p.parent /\ r.pc = p.pc /\ r.line = p.line
         /\ r.cmd = p.cmd /\ r.fd = p.fd /\ r.child = q
<1> DEFINE r == WithChild(p, q)
<1>1. r = [st |-> p.st, parent |-> p.parent, pc |-> p.pc, line |-> p.line,
           cmd |-> p.cmd, fd |-> p.fd, child |-> q]
    BY DEF Planned, IsProc, WithChild
<1>2. IsProc(r)
    BY <1>1 DEF Planned, IsProc
<1> QED
    BY <1>1, <1>2, PlannedApart

LEMMA UnusedIsProc == IsProc(Unused)
<1> DEFINE f == [d \in Fd |-> None]
<1>1. f = [d \in Fd |-> f[d]]
    OBVIOUS
<1>2. Unused.fd = f /\ Unused.st = "free" /\ Unused.pc = "none"
    BY DEF Unused
<1>3. Unused = [st |-> Unused.st, parent |-> Unused.parent, pc |-> Unused.pc, line |-> Unused.line,
                cmd |-> Unused.cmd, fd |-> Unused.fd, child |-> Unused.child]
    BY DEF Unused
<1> QED
    BY <1>1, <1>2, <1>3 DEF IsProc

\* A process that has called exit().
Zombie(q) == [Unused EXCEPT !.st = "zombie", !.parent = q]

LEMMA UnusedPlanned ==
  ASSUME NEW q
  PROVE  /\ Planned(Unused) /\ Planned(Zombie(q))
         /\ Zombie(q).st = "zombie" /\ Zombie(q).parent = q /\ Zombie(q).pc = "none"
<1> DEFINE u == Unused
           z == Zombie(q)
<1>1. IsProc(u) /\ u.pc = "none"
    BY UnusedIsProc DEF Unused
<1>2. z = [u EXCEPT !.st = "zombie", !.parent = q]
    BY DEF Zombie
<1> HIDE DEF u, z
<1>3. z = [st |-> "zombie", parent |-> q, pc |-> u.pc, line |-> u.line,
           cmd |-> u.cmd, fd |-> u.fd, child |-> u.child]
    BY <1>1, <1>2 DEF IsProc
<1>4. IsProc(z) /\ z.pc = "none"
    BY <1>1, <1>3 DEF IsProc
<1>5. Planned(u) /\ Planned(z)
    BY <1>1, <1>4, IdlePlanned
<1> QED
    BY <1>3, <1>4, <1>5 DEF u, z

LEMMA ShellInvInit == ShellInit => ShellInv
<1> SUFFICES ASSUME ShellInit PROVE ShellInv
    OBVIOUS
<1> DEFINE r == [Unused EXCEPT !.st = "live", !.pc = "init", !.fd = Standard]
<1>1. r = [st |-> "live", parent |-> 0, pc |-> "init", line |-> Unused.line,
           cmd |-> Unused.cmd, fd |-> Standard, child |-> 0]
  <2> DEFINE u == Unused
  <2>1. IsProc(u) /\ u.parent = 0 /\ u.child = 0
      BY UnusedIsProc DEF Unused
  <2>2. r = [u EXCEPT !.st = "live", !.pc = "init", !.fd = Standard]
      OBVIOUS
  <2> HIDE DEF u, r
  <2>3. r = [st |-> "live", parent |-> 0, pc |-> "init", line |-> u.line,
             cmd |-> u.cmd, fd |-> Standard, child |-> 0]
      BY <2>1, <2>2 DEF IsProc
  <2> QED
      BY <2>3 DEF u
<1>2. Planned(r)
    BY <1>1 DEF Planned, IsProc, PlannedMain, PlannedTree, PlannedKind, PlannedFd, Piping, Standard
<1>3. proc = [q \in Slot |-> IF q = init THEN r ELSE Unused]
    BY DEF ShellInit
<1>5. proc[init] = r /\ \A q \in Slot : q # init => proc[q] = Unused
    BY <1>3, InitInSlot
<1>4. PlanInv
  <2>1. \A q \in Slot : Planned(proc[q])
      BY <1>2, <1>5, UnusedPlanned
  <2>2. session \in Seq(Line)
      BY CommandAssumption DEF ShellInit
  <2> QED
      BY <2>1, <2>2, <1>3 DEF PlanInv
<1>6. \A q \in Slot : Children(q) = {}
  <2>1. \A c \in Slot : proc[c].st = "free" \/ proc[c].parent = 0
      BY <1>1, <1>5 DEF Unused
  <2> QED
      BY <2>1 DEF Children, Slot
<1>7. InitFamily
    BY <1>1, <1>3, InitInSlot DEF InitFamily
<1>8. \A q \in Slot \ {init} : Family(q)
    BY <1>5, <1>6 DEF Family, Unused, Slot, Childless
<1> QED
    BY <1>4, <1>7, <1>8 DEF ShellInv, FamilyInv

-----------------------------------------------------------------------------
(* What a step does to the families                                        *)

\* A process that runs a step of the shell is not init.
LEMMA NotInit ==
  ASSUME ShellInv, NEW q \in Slot, NEW place, At(q, place), place \notin {"none", "init", "initwait"}
  PROVE  q # init
BY DEF At, ShellInv, FamilyInv, InitFamily

\* The process q changes to r.
Changes(q, r) == proc' = [proc EXCEPT ![q] = r]

\* One process changes, and its parent stays.
LEMMA ChangeFamilies ==
  ASSUME ShellInv, NEW q \in Slot, NEW r, Planned(r),
         proc[q].st = "live", r.st = "live", r.parent = proc[q].parent,
         Changes(q, r), session' \in Seq(Line)
  PROVE  /\ PlanInv'
         /\ \A x : Children(x)' = Children(x)
         /\ \A x \in Slot : proc'[x] = IF x = q THEN r ELSE proc[x]
<1>1. \A x \in Slot : proc'[x] = IF x = q THEN r ELSE proc[x]
    BY DEF Changes, ShellInv, PlanInv
<1>2. proc' = [x \in Slot |-> proc'[x]]
    BY DEF Changes, ShellInv, PlanInv
<1>3. PlanInv'
    BY <1>1, <1>2 DEF ShellInv, PlanInv
<1>4. \A x : Children(x)' = Children(x)
    BY <1>1 DEF Children
<1> QED
    BY <1>1, <1>3, <1>4

LEMMA ChangeQuiet ==
  ASSUME ShellInv, NEW q \in Slot, NEW r, proc[q].st = "live", r.parent = proc[q].parent,
         Changes(q, r), Narrows(proc[q], r)
  PROVE  TreeStep
<1>1. \A x \in Slot : proc'[x] = IF x = q THEN r ELSE proc[x]
    BY DEF Changes, ShellInv, PlanInv
<1>2. ASSUME NEW x \in Slot, proc'[x].st = "live"
      PROVE  /\ proc[x].st = "live" /\ proc'[x].parent \in {proc[x].parent, init}
             /\ Narrows(proc[x], proc'[x])
  <2>1. CASE x = q
      BY <1>1, <2>1
  <2>2. CASE x # q
      BY <1>1, <1>2, <2>2, SameNarrows
  <2> QED
      BY <2>1, <2>2
<1> QED
    BY <1>2 DEF TreeStep, Quiet

\* A process other than init goes on without children.
LEMMA ChangeInv ==
  ASSUME ShellInv, NEW q \in Slot, q # init, NEW r, Planned(r),
         proc[q].st = "live", r.st = "live", r.parent = proc[q].parent,
         proc[q].pc \in Childless, r.pc \in Childless,
         Changes(q, r), Narrows(proc[q], r) \/ (\E k : Pipes(q, k)), session' \in Seq(Line)
  PROVE  ShellInv' /\ TreeStep
<1>1. /\ PlanInv'
      /\ \A x : Children(x)' = Children(x)
      /\ \A x \in Slot : proc'[x] = IF x = q THEN r ELSE proc[x]
    BY ChangeFamilies
<1>2. InitFamily'
    BY <1>1, InitInSlot DEF InitFamily, ShellInv, FamilyInv
<1>3. ASSUME NEW x \in Slot \ {init}, x # q PROVE Family(x)'
    BY <1>1, <1>3 DEF Family, ShellInv, FamilyInv
<1>4. Family(q)'
  <2>1. Family(q)
      BY DEF ShellInv, FamilyInv
  <2>2. Children(q)' = {} /\ proc'[q] = r
      BY <1>1, <2>1 DEF Family
  <2> QED
      BY <2>1, <2>2 DEF Family, Childless
<1>5. TreeStep
    BY ChangeQuiet DEF TreeStep
<1> QED
    BY <1>1, <1>2, <1>3, <1>4, <1>5 DEF ShellInv, FamilyInv

LEMMA ExitInv ==
  ASSUME ShellInv, NEW q \in Slot, proc[q].st = "live", proc[init].st = "live", exit(q),
         session' \in Seq(Line)
  PROVE  ShellInv' /\ TreeStep
<1> DEFINE z == Zombie(proc[q].parent)
<1>1. /\ Planned(z) /\ z.st = "zombie" /\ z.parent = proc[q].parent /\ z.pc = "none"
    BY UnusedPlanned
<1>2. ASSUME NEW c \in Slot, c # q, proc[c].st # "free" /\ proc[c].parent = q
      PROVE  /\ Planned(proc'[c])
             /\ proc'[c].st = proc[c].st /\ proc'[c].parent = init /\ proc'[c].pc = proc[c].pc
             /\ proc'[c].cmd = proc[c].cmd /\ proc'[c].child = proc[c].child
             /\ proc'[c].fd = proc[c].fd
  <2>1. proc'[c] = OfParent(proc[c], init)
      BY <1>2 DEF exit, OfParent
  <2>2. Planned(proc[c])
      BY DEF ShellInv, PlanInv
  <2> QED
      BY <2>1, <2>2, OfParentPlanned
<1>3. ASSUME NEW c \in Slot, c # q, ~ (proc[c].st # "free" /\ proc[c].parent = q)
      PROVE  proc'[c] = proc[c]
    BY <1>3 DEF exit
<1>4. proc'[q] = z
    BY DEF exit, Zombie
<1>5. proc' = [c \in Slot |-> proc'[c]]
    BY DEF exit
<1>6. PlanInv'
  <2>1. \A c \in Slot : Planned(proc'[c])
      BY <1>1, <1>2, <1>3, <1>4 DEF ShellInv, PlanInv
  <2> QED
      BY <2>1, <1>5 DEF PlanInv
<1>12. \A c \in Slot :
         /\ proc'[c].st # "free" <=> proc[c].st # "free"
         /\ proc'[c].parent = IF c # q /\ proc[c].st # "free" /\ proc[c].parent = q THEN init
                              ELSE proc[c].parent
    BY <1>1, <1>2, <1>3, <1>4
<1>7. ASSUME NEW x \in Slot, x # q, x # init PROVE Children(x)' = Children(x)
    BY <1>12, <1>7 DEF Children
<1>8. q # init => Children(q)' = {}
    BY <1>12 DEF Children, ShellInv, FamilyInv, Family
<1>9. Children(init) \subseteq Children(init)'
    BY <1>12 DEF Children
<1>10. InitFamily'
  <2>1. CASE q = init
    BY <2>1, <1>1, <1>4 DEF InitFamily, ShellInv, FamilyInv
  <2>2. CASE q # init
    <3>1. proc[init].parent = 0 /\ q # 0
        BY DEF InitFamily, ShellInv, FamilyInv, Slot
    <3> QED
        BY <2>2, <1>3, <1>9, <3>1, InitInSlot DEF InitFamily, ShellInv, FamilyInv
  <2> QED
    BY <2>1, <2>2
<1>11. ASSUME NEW x \in Slot \ {init} PROVE Family(x)'
  <2>1. CASE x = q
    BY <2>1, <1>1, <1>4, <1>8 DEF Family, Childless, ShellInv, FamilyInv
  <2>2. CASE x # q
    <3>1. /\ proc'[x].pc = proc[x].pc /\ proc'[x].cmd = proc[x].cmd
          /\ proc'[x].parent # x
        BY <2>2, <1>2, <1>3 DEF ShellInv, FamilyInv, Family
    <3>2. Children(x)' = Children(x)
        BY <2>2, <1>7
    <3> QED
        BY <3>1, <3>2 DEF Family, ShellInv, FamilyInv
  <2> QED
    BY <2>1, <2>2
<1>13. ASSUME NEW x \in Slot, proc'[x].st = "live"
       PROVE  /\ proc[x].st = "live" /\ proc'[x].parent \in {proc[x].parent, init}
              /\ Narrows(proc[x], proc'[x])
  <2>1. x # q
      BY <1>1, <1>4, <1>13
  <2>2. proc'[x].st = proc[x].st /\ proc'[x].pc = proc[x].pc /\ proc'[x].fd = proc[x].fd
      BY <1>2, <1>3, <2>1
  <2> QED
      BY <1>12, <1>13, <2>2, SameNarrows
<1>14. TreeStep
    BY <1>13 DEF TreeStep, Quiet
<1> QED
    BY <1>6, <1>10, <1>11, <1>14 DEF ShellInv, FamilyInv

LEMMA NatWellFounded == IsWellFoundedOn({x \in Nat \X Nat : x[1] < x[2]}, Nat)
BY NatLessThanWellFounded, Zenon DEF OpToRel

LEMMA Least ==
  ASSUME NEW S, S \subseteq Nat, S # {}
  PROVE  \E x \in S : \A y \in S : x <= y
<1> DEFINE R == {x \in Nat \X Nat : x[1] < x[2]}
<1>1. IsWellFoundedOn(R, Nat)
    BY NatWellFounded
<1>2. \E x \in S : \A y \in S : ~ (<<y, x>> \in R)
  <2> HIDE DEF R
  <2> QED
    BY <1>1, WFMin
<1>3. PICK x \in S : \A y \in S : <<y, x>> \notin R
    BY <1>2
<1>4. \A y \in S : ~ (y < x)
    BY <1>3
<1> QED
    BY <1>4

\* fork() finds a slot if there is one.
LEMMA NewslotFree ==
  ASSUME FreeSlots # {}
  PROVE  newslot \in FreeSlots
<1>1. FreeSlots \subseteq Nat
    BY DEF FreeSlots, Slot
<1> QED
    BY <1>1, Least DEF newslot

\* Nothing changes in the family of a process that stays as it is.
LEMMA FamilyStays ==
  ASSUME NEW x, Family(x), proc'[x] = proc[x], Children(x)' = Children(x)
  PROVE  Family(x)'
BY DEF Family

\* fork() made n the child of q.
Forked(q, parent, child, n) ==
  /\ proc[n].st = "free" /\ n \notin Children(q)
  /\ proc'[q] = WithChild(parent, n) /\ proc'[n] = OfParent(child, q)
  /\ \A x \in Slot \ {q, n} : proc'[x] = proc[x]
  /\ Children(q)' = Children(q) \cup {n} /\ Children(n)' = {}
  /\ \A x \in Slot \ {q, n} : Children(x)' = Children(x)

LEMMA ForkFamilies ==
  ASSUME ShellInv, NEW q \in Slot, proc[q].st = "live", proc[init].st = "live",
         NEW parent, Planned(parent), parent.st = "live", parent.parent = proc[q].parent,
         NEW child, Planned(child), child.st = "live",
         Fork(q, parent, child), session' \in Seq(Line)
  PROVE  PlanInv' /\ \E n \in Slot \ {q, init} : Forked(q, parent, child, n)
<1>1. PICK n \in Slot : n = newslot /\ proc[n].st = "free"
    BY NewslotFree DEF Fork, FreeSlots
<1>2. n # q /\ n # init
    BY <1>1
<1>3. /\ proc'[q] = WithChild(parent, n) /\ proc'[n] = OfParent(child, q)
      /\ \A x \in Slot \ {q, n} : proc'[x] = proc[x]
      /\ proc' = [x \in Slot |-> proc'[x]]
    BY <1>1, <1>2 DEF Fork, WithChild, OfParent, ShellInv, PlanInv
<1>4. /\ Planned(proc'[q]) /\ proc'[q].st = "live" /\ proc'[q].parent = proc[q].parent
      /\ Planned(proc'[n]) /\ proc'[n].st = "live" /\ proc'[n].parent = q
    BY <1>3, WithChildPlanned, OfParentPlanned
<1>5. PlanInv'
    BY <1>3, <1>4 DEF ShellInv, PlanInv
<1>6. n \notin Children(q)
    BY <1>1 DEF Children
<1>11. \A x \in Slot :
         /\ proc'[x].st # "free" <=> proc[x].st # "free" \/ x = n
         /\ proc'[x].parent = IF x = n THEN q ELSE proc[x].parent
    BY <1>3, <1>4
<1>7. Children(q)' = Children(q) \cup {n}
    BY <1>1, <1>11 DEF Children
<1>8. Children(n) = {}
  <2>1. Planned(proc[n]) /\ Family(n)
      BY <1>1, <1>2 DEF ShellInv, PlanInv, FamilyInv
  <2>2. proc[n].pc = "none"
      BY <1>1, <2>1 DEF Planned, IsProc
  <2> QED
      BY <2>1, <2>2 DEF Family, Childless
<1>9. Children(n)' = {}
    BY <1>2, <1>8, <1>11 DEF Children
<1>10. ASSUME NEW x \in Slot \ {q, n} PROVE Children(x)' = Children(x)
    BY <1>1, <1>11 DEF Children
<1>12. n \in Slot \ {q, init}
    BY <1>1, <1>2
<1>13. Forked(q, parent, child, n)
    BY <1>1, <1>3, <1>6, <1>7, <1>9, <1>10 DEF Forked
<1> QED
    BY <1>5, <1>12, <1>13

LEMMA ForkTree ==
  ASSUME ShellInv, NEW q \in Slot, proc[q].st = "live", proc[init].st = "live",
         NEW parent, Planned(parent), parent.st = "live", parent.parent = proc[q].parent,
         NEW child, Planned(child), child.st = "live", ForkFds(proc[q], parent, child),
         Fork(q, parent, child), session' \in Seq(Line)
  PROVE  TreeStep
<1>0. PICK n \in Slot \ {q, init} : Forked(q, parent, child, n)
    BY ForkFamilies
<1>1. /\ proc[n].st = "free" /\ n \notin Children(q)
      /\ proc'[q] = WithChild(parent, n) /\ proc'[n] = OfParent(child, q)
      /\ \A x \in Slot \ {q, n} : proc'[x] = proc[x]
      /\ Children(q)' = Children(q) \cup {n} /\ Children(n)' = {}
      /\ \A x \in Slot \ {q, n} : Children(x)' = Children(x)
    BY <1>0 DEF Forked
<1>2. /\ proc'[q].st = "live" /\ proc'[q].parent = proc[q].parent
      /\ proc'[q].pc = parent.pc /\ proc'[q].fd = parent.fd
      /\ proc'[n].st = "live" /\ proc'[n].parent = q
      /\ proc'[n].pc = child.pc /\ proc'[n].fd = child.fd
    BY <1>1, WithChildPlanned, OfParentPlanned
<1>3. ForkFds(proc[q], proc'[q], proc'[n])
    BY <1>2 DEF ForkFds
<1>4. Forks(q, n)
    BY <1>1, <1>2, <1>3 DEF Forks
<1> QED
    BY <1>4 DEF TreeStep

\* fork() by a process other than init: the child is where it has no children,
\* and the parent where it has the one more.
LEMMA ForkInv ==
  ASSUME ShellInv, NEW q \in Slot, q # init, proc[q].st = "live", proc[init].st = "live",
         NEW parent, Planned(parent), parent.st = "live", parent.parent = proc[q].parent,
         NEW child, Planned(child), child.st = "live",
         child.pc \in {"parse", "run", "left", "right"},
         \/ Children(q) = {} /\ parent.pc \in {"shwait", "listwait", "pipe2"}
         \/ (\E c : Children(q) = {c}) /\ parent.pc = "wait1"
         \/ parent.pc = "end" /\ parent.cmd.type = "BACK",
         ForkFds(proc[q], parent, child), Fork(q, parent, child), session' \in Seq(Line)
  PROVE  ShellInv' /\ TreeStep
<1>0. PICK n \in Slot \ {q, init} : Forked(q, parent, child, n)
    BY ForkFamilies
<1>1. /\ proc[n].st = "free" /\ n \notin Children(q)
      /\ proc'[q] = WithChild(parent, n) /\ proc'[n] = OfParent(child, q)
      /\ \A x \in Slot \ {q, n} : proc'[x] = proc[x]
      /\ Children(q)' = Children(q) \cup {n} /\ Children(n)' = {}
      /\ \A x \in Slot \ {q, n} : Children(x)' = Children(x)
    BY <1>0 DEF Forked
<1>2. PlanInv'
    BY ForkFamilies
<1>3. /\ proc'[q].pc = parent.pc /\ proc'[q].cmd = parent.cmd /\ proc'[q].parent = proc[q].parent
      /\ proc'[n].pc = child.pc /\ proc'[n].parent = q
    BY <1>1, WithChildPlanned, OfParentPlanned
<1>4. InitFamily'
    BY <1>1, InitInSlot DEF InitFamily, ShellInv, FamilyInv
<1>5. Family(n)'
    BY <1>1, <1>3 DEF Family, Childless
<1>6. Family(q)'
  <2>1. q \in Slot \ {init} /\ proc[q].parent # q
      BY DEF ShellInv, FamilyInv, Family
  <2>2. CASE Children(q) = {} /\ parent.pc \in {"shwait", "listwait", "pipe2"}
    <3>1. Children(q)' = {n}
        BY <1>1, <2>2
    <3> QED
        BY <3>1, <2>1, <2>2, <1>3 DEF Family, Childless
  <2>3. CASE (\E c : Children(q) = {c}) /\ parent.pc = "wait1"
    <3>1. PICK c : Children(q) = {c}
        BY <2>3
    <3>2. Children(q)' = {c, n} /\ c # n
        BY <1>1, <3>1
    <3> QED
        BY <3>2, <2>1, <2>3, <1>3 DEF Family, Childless
  <2>4. CASE parent.pc = "end" /\ parent.cmd.type = "BACK"
    BY <2>1, <2>4, <1>3 DEF Family, Childless
  <2> QED
    BY <2>2, <2>3, <2>4
<1>7. ASSUME NEW x \in Slot \ {init}, x # q, x # n PROVE Family(x)'
  <2>1. proc'[x] = proc[x] /\ Children(x)' = Children(x) /\ Family(x)
      BY <1>1, <1>7 DEF ShellInv, FamilyInv
  <2> QED
      BY <2>1, FamilyStays
<1>8. TreeStep
    BY ForkTree
<1> QED
    BY <1>2, <1>4, <1>5, <1>6, <1>7, <1>8 DEF ShellInv, FamilyInv

\* The process q changes to r, and its child c is freed.
Reaps(q, c, r) == proc' = [proc EXCEPT ![c] = Unused, ![q] = r]

LEMMA WaitFamilies ==
  ASSUME ShellInv, NEW q \in Slot, proc[q].st = "live", proc[init].st = "live",
         NEW c \in Children(q), proc[c].st = "zombie",
         NEW r, Planned(r), r.st = "live", r.parent = proc[q].parent,
         Reaps(q, c, r), session' \in Seq(Line)
  PROVE  /\ PlanInv' /\ c \in Slot \ {q, init}
         /\ proc'[q] = r /\ proc'[c] = Unused
         /\ \A x \in Slot \ {q, c} : proc'[x] = proc[x]
         /\ Children(q)' = Children(q) \ {c} /\ Children(c)' = {}
         /\ \A x \in Slot \ {q, c} : Children(x)' = Children(x)
<1>1. c \in Slot \ {q, init} /\ proc[c].parent = q
    BY DEF Children
<1>2. /\ proc'[q] = r /\ proc'[c] = Unused
      /\ \A x \in Slot \ {q, c} : proc'[x] = proc[x]
      /\ proc' = [x \in Slot |-> proc'[x]]
    BY <1>1 DEF Reaps, ShellInv, PlanInv
<1>3. PlanInv'
    BY <1>2, UnusedPlanned DEF ShellInv, PlanInv
<1>4. \A x \in Slot :
        /\ proc'[x].st # "free" <=> proc[x].st # "free" /\ x # c
        /\ x # c => proc'[x].parent = proc[x].parent
  <2>1. Unused.st = "free"
      BY DEF Unused
  <2> QED
      BY <1>2, <2>1
<1>5. Children(q)' = Children(q) \ {c}
    BY <1>4 DEF Children
<1>6. Children(c) = {}
  <2>1. Planned(proc[c]) /\ Family(c)
      BY <1>1 DEF ShellInv, PlanInv, FamilyInv
  <2>2. proc[c].pc = "none"
      BY <2>1 DEF Planned, IsProc
  <2> QED
      BY <2>1, <2>2 DEF Family, Childless
<1>7. Children(c)' = {}
    BY <1>4, <1>6 DEF Children
<1>8. ASSUME NEW x \in Slot \ {q, c} PROVE Children(x)' = Children(x)
    BY <1>1, <1>4 DEF Children
<1> QED
    BY <1>1, <1>2, <1>3, <1>5, <1>7, <1>8

LEMMA WaitTree ==
  ASSUME ShellInv, NEW q \in Slot, proc[q].st = "live", proc[init].st = "live",
         NEW c \in Children(q), proc[c].st = "zombie",
         NEW r, Planned(r), r.st = "live", r.parent = proc[q].parent,
         r.fd = proc[q].fd, proc[q].pc \notin Piping, r.pc \notin Piping,
         Reaps(q, c, r), session' \in Seq(Line)
  PROVE  TreeStep
<1>1. /\ proc'[q] = r /\ proc'[c] = Unused
      /\ \A x \in Slot \ {q, c} : proc'[x] = proc[x]
    BY WaitFamilies
<1>2. Unused.st = "free"
    BY DEF Unused
<1>3. Narrows(proc[q], r)
    BY FewerNarrows
<1>4. ASSUME NEW x \in Slot, proc'[x].st = "live"
      PROVE  /\ proc[x].st = "live" /\ proc'[x].parent \in {proc[x].parent, init}
             /\ Narrows(proc[x], proc'[x])
  <2>1. x # c
      BY <1>1, <1>2, <1>4
  <2>2. CASE x = q
      BY <1>1, <1>3, <2>2
  <2>3. CASE x # q
      BY <1>1, <1>4, <2>1, <2>3, SameNarrows
  <2> QED
      BY <2>2, <2>3
<1> QED
    BY <1>4 DEF TreeStep, Quiet

\* wait() by a process other than init: it is where it has the one child less.
LEMMA WaitInv ==
  ASSUME ShellInv, NEW q \in Slot, q # init, proc[q].st = "live", proc[init].st = "live",
         NEW c \in Children(q), proc[c].st = "zombie",
         NEW r, Planned(r), r.st = "live", r.parent = proc[q].parent,
         \/ proc[q].pc = "wait1" /\ r.pc = "wait2"
         \/ proc[q].pc \in {"shwait", "listwait", "wait2"} /\ r.pc \in {"prompt", "run", "end"},
         r.fd = proc[q].fd, Reaps(q, c, r), session' \in Seq(Line)
  PROVE  ShellInv' /\ TreeStep
<1>1. /\ PlanInv' /\ c \in Slot \ {q, init}
      /\ proc'[q] = r /\ proc'[c] = Unused
      /\ \A x \in Slot \ {q, c} : proc'[x] = proc[x]
      /\ Children(q)' = Children(q) \ {c} /\ Children(c)' = {}
      /\ \A x \in Slot \ {q, c} : Children(x)' = Children(x)
    BY WaitFamilies
<1>2. InitFamily'
    BY <1>1, InitInSlot DEF InitFamily, ShellInv, FamilyInv
<1>3. Family(c)'
  <2>1. Unused.parent = 0 /\ Unused.pc = "none" /\ c # 0
      BY <1>1 DEF Unused, Slot
  <2> QED
      BY <1>1, <2>1 DEF Family, Childless
<1>4. Family(q)'
  <2>1. q \in Slot \ {init} /\ Family(q)
      BY DEF ShellInv, FamilyInv
  <2>2. CASE proc[q].pc = "wait1" /\ r.pc = "wait2"
    <3>1. PICK d, e : d # e /\ Children(q) = {d, e}
        BY <2>1, <2>2 DEF Family, Childless
    <3>2. Children(q)' = {d} \/ Children(q)' = {e}
        BY <1>1, <3>1
    <3> QED
        BY <3>2, <2>1, <2>2, <1>1 DEF Family, Childless
  <2>3. CASE proc[q].pc \in {"shwait", "listwait", "wait2"} /\ r.pc \in {"prompt", "run", "end"}
    <3>1. PICK d : Children(q) = {d}
        BY <2>1, <2>3 DEF Family, Childless
    <3>2. Children(q)' = {}
        BY <1>1, <3>1
    <3> QED
        BY <3>2, <2>1, <2>3, <1>1 DEF Family, Childless
  <2> QED
    BY <2>2, <2>3
<1>5. ASSUME NEW x \in Slot \ {init}, x # q, x # c PROVE Family(x)'
  <2>1. proc'[x] = proc[x] /\ Children(x)' = Children(x) /\ Family(x)
      BY <1>1, <1>5 DEF ShellInv, FamilyInv
  <2> QED
      BY <2>1, FamilyStays
<1>6. proc[q].pc \notin Piping /\ r.pc \notin Piping
    BY DEF Piping
<1>7. TreeStep
    BY <1>6, WaitTree
<1> QED
    BY <1>1, <1>2, <1>3, <1>4, <1>5, <1>7 DEF ShellInv, FamilyInv

-----------------------------------------------------------------------------
(* What a step does to one process                                         *)

\* The record p with another place, line, tree and descriptors.
Becomes(p, place, l, t, f) ==
  [st |-> "live", parent |-> p.parent, pc |-> place, line |-> l, cmd |-> t, fd |-> f,
   child |-> p.child]

LEMMA BecomesFields ==
  ASSUME NEW p, NEW place, place # "none", NEW l, NEW t, NEW f, f = [d \in Fd |-> f[d]]
  PROVE  LET r == Becomes(p, place, l, t, f) IN
         /\ IsProc(r) /\ r.st = "live" /\ r.parent = p.parent /\ r.pc = place /\ r.line = l
         /\ r.cmd = t /\ r.fd = f
BY DEF Becomes, IsProc

LEMMA LiveProc ==
  ASSUME ShellInv, NEW q \in Slot, NEW place, At(q, place)
  PROVE  /\ Planned(proc[q]) /\ IsProc(proc[q])
         /\ proc[q].fd = [d \in Fd |-> proc[q].fd[d]]
         /\ proc[q].pc = place /\ proc[q].st = "live" /\ proc[init].st = "live"
         /\ proc = [x \in Slot |-> proc[x]]
         /\ session \in Seq(Line)
         /\ q # init => Family(q)
BY DEF At, ShellInv, PlanInv, FamilyInv, Planned, IsProc

LEMMA MainPlanned ==
  ASSUME NEW p, IsProc(p), p.fd = Standard, p.line \in Line \/ p.pc \notin {"shfork", "parse"},
         p.pc \in {"init", "initwait", "initchild", "shstart", "prompt", "shfork", "shwait", "parse"}
  PROVE  Planned(p)
BY DEF Planned, PlannedMain, PlannedTree, PlannedKind, PlannedFd, Piping

\* What Planned says of a process that runs a tree.
OnPlan(p) ==
  /\ p.cmd \in Command
  /\ Anonymous(p.fd[0]) \in File /\ Anonymous(p.fd[1]) \in File
  /\ Wiring(p.cmd, Anonymous(p.fd[0]), Anonymous(p.fd[1]))
       \subseteq Wiring(parse(p.line), Console, Console)
  /\ p.fd[0] # None /\ p.fd[1] # None /\ p.fd[2] = Console

LEMMA TreePlanned ==
  ASSUME NEW p, IsProc(p), OnPlan(p), p.fd[3] = None, p.fd[4] = None,
         \/ p.pc = "run"
         \/ p.pc = "prog" /\ p.cmd.type = "EXEC"
         \/ p.pc = "listwait" /\ p.cmd.type = "LIST"
  PROVE  Planned(p)
BY DEF Planned, PlannedMain, PlannedTree, PlannedKind, PlannedFd, Piping, OnPlan

LEMMA PipingPlanned ==
  ASSUME NEW p, IsProc(p), OnPlan(p), p.pc \in Piping, p.cmd.type = "PIPE",
         NEW k, p.fd[3] = Open("r", k, p.cmd.at), p.fd[4] = Open("w", k, p.cmd.at)
  PROVE  Planned(p)
<1>1. PlannedMain(p) /\ PlannedKind(p)
    BY DEF PlannedMain, PlannedKind, Piping
<1>2. PlannedTree(p) /\ PlannedFd(p)
    BY DEF PlannedTree, PlannedFd, OnPlan, Piping
<1> QED
    BY <1>1, <1>2 DEF Planned

LEMMA PlannedTreeIs ==
  ASSUME NEW p, Planned(p)
  PROVE  /\ p.pc \in {"run", "listwait", "prog"} => OnPlan(p) /\ p.fd[3] = None /\ p.fd[4] = None
         /\ p.pc = "listwait" => p.cmd.type = "LIST"
         /\ p.pc \in Piping => /\ OnPlan(p) /\ p.cmd.type = "PIPE"
                               /\ \E k : /\ p.fd[3] = Open("r", k, p.cmd.at)
                                         /\ p.fd[4] = Open("w", k, p.cmd.at)
BY DEF Planned, PlannedTree, PlannedKind, PlannedFd, OnPlan

LEMMA LowestIs ==
  ASSUME NEW f, NEW d \in Fd, f[d] = None, \A e \in 0 .. d - 1 : f[e] # None
  PROVE  Lowest(f) = d
<1>1. ASSUME NEW e \in Fd, f[e] = None, \A x \in 0 .. e - 1 : f[x] # None PROVE e = d
  <2>1. ~ (e < d)
      BY <1>1 DEF Fd
  <2>2. ~ (d < e)
      BY <1>1 DEF Fd
  <2> QED
      BY <2>1, <2>2 DEF Fd
<1> QED
    BY <1>1 DEF Lowest

\* close(d) makes d the descriptor that the next open() or dup() returns.
LEMMA CloseThenOpen ==
  ASSUME NEW f, f = [d \in Fd |-> f[d]], NEW d \in {0, 1}, f[0] # None, NEW o
  PROVE  With(Close(f, d), o) = [e \in Fd |-> IF e = d THEN o ELSE f[e]]
<1> DEFINE g == Close(f, d)
<1>1. g = [e \in Fd |-> IF e = d THEN None ELSE f[e]]
    BY DEF Close, Fd
<1>2. d \in Fd /\ g[d] = None /\ \A e \in 0 .. d - 1 : g[e] # None
    BY <1>1 DEF Fd
<1>3. Lowest(g) = d
    BY <1>2, LowestIs
<1> HIDE DEF g
<1>4. With(g, o) = [e \in Fd |-> IF e = d THEN o ELSE f[e]]
    BY <1>1, <1>3, <1>2 DEF With
<1> QED
    BY <1>4 DEF g

\* pipe() returns the descriptors 3 and 4.
LEMMA PipeFds ==
  ASSUME NEW f, f = [d \in Fd |-> f[d]], f[0] # None, f[1] # None, f[2] # None,
         f[3] = None, f[4] = None, NEW a, a # None, NEW b
  PROVE  With(With(f, a), b) = [e \in Fd |-> IF e = 3 THEN a ELSE IF e = 4 THEN b ELSE f[e]]
<1> DEFINE g == With(f, a)
<1>1. 3 \in Fd /\ \A e \in 0 .. 3 - 1 : f[e] # None
    BY DEF Fd
<1>2. Lowest(f) = 3
    BY <1>1, LowestIs
<1>3. g = [e \in Fd |-> IF e = 3 THEN a ELSE f[e]]
    BY <1>1, <1>2 DEF With
<1>4. 4 \in Fd /\ g[4] = None /\ \A e \in 0 .. 4 - 1 : g[e] # None
    BY <1>3 DEF Fd
<1> HIDE DEF g
<1>5. Lowest(g) = 4
    BY <1>4, LowestIs
<1>6. With(g, b) = [e \in Fd |-> IF e = 3 THEN a ELSE IF e = 4 THEN b ELSE f[e]]
    BY <1>3, <1>4, <1>5 DEF With
<1> QED
    BY <1>6 DEF g

\* p[0] and p[1] are 3 and 4.
LEMMA PipeEnds ==
  ASSUME NEW q, NEW k, NEW x, proc[q].fd[3] = Open("r", k, x), proc[q].fd[4] = Open("w", k, x)
  PROVE  p0(q) = 3 /\ p1(q) = 4
<1>1. \A d \in 3 .. 4 : proc[q].fd[d].kind = "r" <=> d = 3
    BY DEF Open
<1>2. \A d \in 3 .. 4 : proc[q].fd[d].kind = "w" <=> d = 4
    BY DEF Open
<1> QED
    BY <1>1, <1>2 DEF p0, p1

\* The assignments of a step, field by field.
SetPc(p, a) == [p EXCEPT !.pc = a]
SetCmd(p, t) == [p EXCEPT !.cmd = t]
SetPcChild(p, a, k) == [p EXCEPT !.pc = a, !.child = k]
SetPcLine(p, a, l) == [p EXCEPT !.pc = a, !.line = l]
SetPcCmd(p, a, t) == [p EXCEPT !.pc = a, !.cmd = t]
SetPcFd(p, a, f) == [p EXCEPT !.pc = a, !.fd = f]
SetCmdFd(p, t, f) == [p EXCEPT !.cmd = t, !.fd = f]
SetPcCmdFd(p, a, t, f) == [p EXCEPT !.pc = a, !.cmd = t, !.fd = f]

LEMMA BecomesForms ==
  ASSUME NEW p, IsProc(p), p.st = "live", NEW a, NEW l, NEW t, NEW f, NEW k
  PROVE  /\ SetPc(p, a) = Becomes(p, a, p.line, p.cmd, p.fd)
         /\ SetCmd(p, t) = Becomes(p, p.pc, p.line, t, p.fd)
         /\ SetPcChild(p, a, k) = WithChild(Becomes(p, a, p.line, p.cmd, p.fd), k)
         /\ SetPcLine(p, a, l) = Becomes(p, a, l, p.cmd, p.fd)
         /\ SetPcCmd(p, a, t) = Becomes(p, a, p.line, t, p.fd)
         /\ SetPcFd(p, a, f) = Becomes(p, a, p.line, p.cmd, f)
         /\ SetCmdFd(p, t, f) = Becomes(p, p.pc, p.line, t, f)
         /\ SetPcCmdFd(p, a, t, f) = Becomes(p, a, p.line, t, f)
<1>1. SetPc(p, a) = Becomes(p, a, p.line, p.cmd, p.fd)
    BY DEF SetPc, IsProc, Becomes
<1>2. SetCmd(p, t) = Becomes(p, p.pc, p.line, t, p.fd)
    BY DEF SetCmd, IsProc, Becomes
<1>3. SetPcChild(p, a, k) = WithChild(Becomes(p, a, p.line, p.cmd, p.fd), k)
  <2>1. SetPcChild(p, a, k) = [SetPc(p, a) EXCEPT !.child = k]
      BY DEF SetPcChild, SetPc
  <2> QED
      BY <2>1, <1>1 DEF Becomes, WithChild
<1>4. SetPcLine(p, a, l) = Becomes(p, a, l, p.cmd, p.fd)
  <2>1. SetPcLine(p, a, l) = [SetPc(p, a) EXCEPT !.line = l]
      BY DEF SetPcLine, SetPc
  <2> QED
      BY <2>1, <1>1 DEF Becomes
<1>5. SetPcCmd(p, a, t) = Becomes(p, a, p.line, t, p.fd)
  <2>1. SetPcCmd(p, a, t) = [SetPc(p, a) EXCEPT !.cmd = t]
      BY DEF SetPcCmd, SetPc
  <2> QED
      BY <2>1, <1>1 DEF Becomes
<1>6. SetPcFd(p, a, f) = Becomes(p, a, p.line, p.cmd, f)
  <2>1. SetPcFd(p, a, f) = [SetPc(p, a) EXCEPT !.fd = f]
      BY DEF SetPcFd, SetPc
  <2> QED
      BY <2>1, <1>1 DEF Becomes
<1>7. SetCmdFd(p, t, f) = Becomes(p, p.pc, p.line, t, f)
  <2>1. SetCmdFd(p, t, f) = [SetCmd(p, t) EXCEPT !.fd = f]
      BY DEF SetCmdFd, SetCmd
  <2> QED
      BY <2>1, <1>2 DEF Becomes
<1>8. SetPcCmdFd(p, a, t, f) = Becomes(p, a, p.line, t, f)
  <2>1. SetPcCmdFd(p, a, t, f) = [SetPcCmd(p, a, t) EXCEPT !.fd = f]
      BY DEF SetPcCmdFd, SetPcCmd
  <2> QED
      BY <2>1, <1>5 DEF Becomes
<1> QED
    BY <1>1, <1>2, <1>3, <1>4, <1>5, <1>6, <1>7, <1>8

-----------------------------------------------------------------------------
(* The steps of init and of main() of the shell                            *)

LEMMA InitForkInv == ASSUME ShellInv, InitFork PROVE ShellInv' /\ TreeStep
<1>1. At(init, "init") /\ session' = session
    BY DEF InitFork
<1>2. /\ Planned(proc[init]) /\ IsProc(proc[init]) /\ proc[init].fd = [d \in Fd |-> proc[init].fd[d]]
      /\ proc[init].pc = "init" /\ proc[init].st = "live" /\ session' \in Seq(Line)
    BY <1>1, LiveProc, InitInSlot
<1>3. CASE exit(init)
    BY <1>2, <1>3, ExitInv, InitInSlot
<1> DEFINE p == proc[init]
           a == Becomes(p, "initwait", p.line, p.cmd, p.fd)
           b == Becomes(p, "initchild", p.line, p.cmd, p.fd)
<1>4. CASE Fork(init, [p EXCEPT !.pc = "initwait"], [p EXCEPT !.pc = "initchild"])
  <2>1. [p EXCEPT !.pc = "initwait"] = a /\ [p EXCEPT !.pc = "initchild"] = b
      BY <1>2 DEF Becomes, IsProc
  <2>2. /\ IsProc(a) /\ a.st = "live" /\ a.parent = p.parent /\ a.pc = "initwait" /\ a.fd = p.fd
        /\ IsProc(b) /\ b.st = "live" /\ b.pc = "initchild" /\ b.fd = p.fd
      BY <1>2, BecomesFields
  <2>3. p.fd = Standard
      BY <1>2 DEF Planned, PlannedMain
  <2>4. Planned(a) /\ Planned(b)
      BY <2>2, <2>3, MainPlanned
  <2>5. Fork(init, a, b)
      BY <1>4, <2>1
  <2> HIDE DEF p, a, b
  <2>12. a.parent = proc[init].parent
      BY <2>2 DEF p
  <2>6. PlanInv'
      BY <1>2, <2>2, <2>4, <2>5, <2>12, InitInSlot, ForkFamilies
  <2>0. PICK n \in Slot \ {init, init} : Forked(init, a, b, n)
      BY <1>2, <2>2, <2>4, <2>5, <2>12, InitInSlot, ForkFamilies
  <2>7. /\ proc[n].st = "free" /\ n \notin Children(init)
        /\ proc'[init] = WithChild(a, n) /\ proc'[n] = OfParent(b, init)
        /\ \A x \in Slot \ {init, n} : proc'[x] = proc[x]
        /\ Children(init)' = Children(init) \cup {n} /\ Children(n)' = {}
        /\ \A x \in Slot \ {init, n} : Children(x)' = Children(x)
      BY <2>0 DEF Forked
  <2>8. /\ proc'[init].pc = "initwait" /\ proc'[init].child = n
        /\ proc'[n].pc = "initchild" /\ proc'[n].parent = init
      BY <2>2, <2>4, <2>7, WithChildPlanned, OfParentPlanned
  <2>9. InitFamily'
    <3>1. proc'[init].parent = proc[init].parent
        BY <2>2, <2>4, <2>7, <2>12, WithChildPlanned
    <3> QED
        BY <2>7, <2>8, <3>1 DEF InitFamily, ShellInv, FamilyInv
  <2>10. Family(n)'
      BY <2>7, <2>8 DEF Family, Childless
  <2>11. ASSUME NEW x \in Slot \ {init}, x # n PROVE Family(x)'
    <3>1. proc'[x] = proc[x] /\ Children(x)' = Children(x) /\ Family(x)
        BY <2>7, <2>11 DEF ShellInv, FamilyInv
    <3> QED
        BY <3>1, FamilyStays
  <2>13. TreeStep
    <3>1. ForkFds(proc[init], a, b)
        BY <1>2, <2>2 DEF ForkFds, Piping, p
    <3> QED
        BY <1>2, <2>2, <2>4, <2>5, <2>12, <3>1, InitInSlot, ForkTree
  <2> QED
      BY <2>6, <2>9, <2>10, <2>11, <2>13 DEF ShellInv, FamilyInv
<1> QED
    BY <1>3, <1>4 DEF InitFork

LEMMA InitWaitInv == ASSUME ShellInv, InitWait PROVE ShellInv' /\ TreeStep
<1>1. At(init, "initwait") /\ session' = session
    BY DEF InitWait
<1>2. /\ Planned(proc[init]) /\ IsProc(proc[init]) /\ proc[init].fd = [d \in Fd |-> proc[init].fd[d]]
      /\ proc[init].pc = "initwait" /\ proc[init].st = "live" /\ session' \in Seq(Line)
      /\ proc = [x \in Slot |-> proc[x]]
    BY <1>1, LiveProc, InitInSlot
<1>3. CASE exit(init)
    BY <1>2, <1>3, ExitInv, InitInSlot
<1>4. ASSUME NEW c \in Children(init), proc[c].st = "zombie",
             proc' = [proc EXCEPT ![c] = Unused,
                                  ![init].pc = IF c = proc[init].child THEN "init" ELSE @,
                                  ![init].child = IF c = @ THEN 0 ELSE @]
      PROVE  ShellInv' /\ TreeStep
  <2> DEFINE p == proc[init]
             r == WithChild(Becomes(p, IF c = p.child THEN "init" ELSE "initwait", p.line, p.cmd, p.fd),
                            IF c = p.child THEN 0 ELSE p.child)
  <2>1. /\ Planned(r) /\ r.st = "live" /\ r.parent = p.parent
        /\ r.pc = IF c = p.child THEN "init" ELSE "initwait"
        /\ r.child = IF c = p.child THEN 0 ELSE p.child
        /\ r.fd = p.fd
    <3> DEFINE b == Becomes(p, IF c = p.child THEN "init" ELSE "initwait", p.line, p.cmd, p.fd)
    <3>1. p.fd = Standard
        BY <1>2 DEF Planned, PlannedMain
    <3>2. /\ IsProc(b) /\ b.st = "live" /\ b.parent = p.parent /\ b.fd = p.fd
          /\ b.pc = IF c = p.child THEN "init" ELSE "initwait"
        BY <1>2, BecomesFields
    <3>3. Planned(b)
        BY <3>1, <3>2, MainPlanned
    <3> HIDE DEF b
    <3>4. r = WithChild(b, IF c = p.child THEN 0 ELSE p.child)
        BY DEF b
    <3> HIDE DEF r
    <3> QED
        BY <3>2, <3>3, <3>4, WithChildPlanned
  <2>2. Reaps(init, c, r)
    <3>1. c \in Slot /\ c # init
        BY <1>2, <1>4 DEF Children
    <3>2. proc' = [x \in Slot |-> IF x = c THEN Unused ELSE IF x = init THEN
                     [p EXCEPT !.pc = IF c = p.child THEN "init" ELSE @,
                               !.child = IF c = @ THEN 0 ELSE @] ELSE proc[x]]
        BY <1>2, <1>4, <3>1, InitInSlot
    <3>3. [p EXCEPT !.pc = IF c = p.child THEN "init" ELSE @,
                    !.child = IF c = @ THEN 0 ELSE @] = r
      <4> DEFINE a == IF c = p.child THEN "init" ELSE "initwait"
                 k == IF c = p.child THEN 0 ELSE p.child
      <4>1. IsProc(p) /\ p.st = "live" /\ p.pc = "initwait"
          BY <1>2
      <4>2. [p EXCEPT !.pc = IF c = p.child THEN "init" ELSE @, !.child = IF c = @ THEN 0 ELSE @]
              = SetPcChild(p, a, k)
          BY <4>1 DEF SetPcChild
      <4>3. r = WithChild(Becomes(p, a, p.line, p.cmd, p.fd), k)
          OBVIOUS
      <4> HIDE DEF a, k, r, p
      <4> QED
          BY <4>1, <4>2, <4>3, BecomesForms
    <3> HIDE DEF r
    <3> QED
        BY <1>2, <3>1, <3>2, <3>3, InitInSlot DEF Reaps
  <2> HIDE DEF r
  <2>3. /\ PlanInv' /\ c \in Slot \ {init}
        /\ proc'[init] = r /\ proc'[c] = Unused
        /\ \A x \in Slot \ {init, c} : proc'[x] = proc[x]
        /\ Children(init)' = Children(init) \ {c} /\ Children(c)' = {}
        /\ \A x \in Slot \ {init, c} : Children(x)' = Children(x)
      BY <1>2, <1>4, <2>1, <2>2, WaitFamilies, InitInSlot
  <2>4. InitFamily'
    <3>1. proc[init].child \in Children(init)
        BY <1>2 DEF ShellInv, FamilyInv, InitFamily
    <3> QED
        BY <2>1, <2>3, <3>1 DEF InitFamily, ShellInv, FamilyInv
  <2>5. Family(c)'
    <3>1. Unused.parent = 0 /\ Unused.pc = "none" /\ c # 0
        BY <2>3 DEF Unused, Slot
    <3> QED
        BY <2>3, <3>1 DEF Family, Childless
  <2>6. ASSUME NEW x \in Slot \ {init}, x # c PROVE Family(x)'
    <3>1. proc'[x] = proc[x] /\ Children(x)' = Children(x) /\ Family(x)
        BY <2>3, <2>6 DEF ShellInv, FamilyInv
    <3> QED
        BY <3>1, FamilyStays
  <2>7. TreeStep
    <3>1. r.pc \notin Piping /\ proc[init].pc \notin Piping
        BY <1>2, <2>1 DEF Piping
    <3> QED
        BY <1>2, <1>4, <2>1, <2>2, <3>1, WaitTree, InitInSlot
  <2> QED
      BY <2>3, <2>4, <2>5, <2>6, <2>7 DEF ShellInv, FamilyInv
<1> QED
    BY <1>3, <1>4 DEF InitWait

LEMMA GoOnBecomes ==
  ASSUME NEW q \in Slot, IsProc(proc[q]), proc[q].st = "live", proc = [x \in Slot |-> proc[x]],
         NEW place, GoOn(q, place)
  PROVE  Changes(q, Becomes(proc[q], place, proc[q].line, proc[q].cmd, proc[q].fd))
<1>1. SetPc(proc[q], place) = Becomes(proc[q], place, proc[q].line, proc[q].cmd, proc[q].fd)
    BY BecomesForms
<1>2. Changes(q, SetPc(proc[q], place))
    BY DEF GoOn, SetPc, Changes
<1> QED
    BY <1>1, <1>2

\* A step that only moves a process of the main loop.
LEMMA MainStepInv ==
  ASSUME ShellInv, NEW q \in Slot, NEW at, At(q, at), q # init, at \in {"initchild", "prompt"},
         proc[q].fd = Standard, NEW place \in {"shstart", "prompt", "shfork"},
         NEW l, l \in Line \/ place # "shfork",
         Changes(q, Becomes(proc[q], place, l, proc[q].cmd, Standard)),
         session' \in Seq(Line)
  PROVE  ShellInv' /\ TreeStep
<1> DEFINE r == Becomes(proc[q], place, l, proc[q].cmd, Standard)
<1>1. /\ IsProc(r) /\ r.st = "live" /\ r.parent = proc[q].parent /\ r.pc = place /\ r.line = l
      /\ r.fd = Standard
  <2>1. Standard = [d \in Fd |-> Standard[d]]
      BY DEF Standard
  <2> QED
      BY <2>1, BecomesFields
<1> HIDE DEF r
<1>2. Planned(r) /\ r.pc \in Childless
    BY <1>1, MainPlanned DEF Childless
<1>3. Changes(q, r)
    BY DEF r
<1>4. Narrows(proc[q], r)
  <2>1. proc[q].pc = at
      BY LiveProc
  <2>2. r.pc \notin Piping /\ proc[q].pc \notin Piping
      BY <1>1, <2>1 DEF Piping
  <2> QED
      BY <1>1, <2>2, FewerNarrows
<1>5. at \in Childless
    BY DEF Childless
<1> QED
    BY <1>1, <1>2, <1>3, <1>4, <1>5, LiveProc, ChangeInv, Zenon

LEMMA MainFd ==
  ASSUME ShellInv, NEW q \in Slot,
         NEW at \in {"initchild", "shstart", "prompt", "shfork", "shwait", "parse"}, At(q, at)
  PROVE  /\ q # init /\ proc[q].fd = Standard
         /\ at \in {"shfork", "parse"} => proc[q].line \in Line
<1>1. q # init
    BY NotInit
<1>2. Planned(proc[q]) /\ proc[q].pc = at
    BY LiveProc
<1> QED
    BY <1>1, <1>2 DEF Planned, PlannedMain

LEMMA InitChildInv == ASSUME ShellInv, NEW q \in Slot, InitChild(q) PROVE ShellInv' /\ TreeStep
<1>1. At(q, "initchild") /\ session' = session
    BY DEF InitChild
<1>2. /\ IsProc(proc[q]) /\ proc[q].st = "live" /\ proc[init].st = "live"
      /\ session' \in Seq(Line) /\ proc = [x \in Slot |-> proc[x]]
    BY <1>1, LiveProc
<1>3. q # init /\ proc[q].fd = Standard
    BY <1>1, MainFd
<1>4. CASE exit(q)
    BY <1>2, <1>4, ExitInv
<1>5. CASE GoOn(q, "shstart")
  <2>1. Changes(q, Becomes(proc[q], "shstart", proc[q].line, proc[q].cmd, Standard))
    BY <1>2, <1>3, <1>5, GoOnBecomes
  <2> QED
    BY <1>1, <1>2, <1>3, <2>1, MainStepInv
<1> QED
    BY <1>4, <1>5 DEF InitChild

LEMMA ShStartInv == ASSUME ShellInv, NEW q \in Slot, ShStart(q) PROVE ShellInv' /\ TreeStep
<1>1. At(q, "shstart") /\ session' = session
    BY DEF ShStart
<1>2. /\ IsProc(proc[q]) /\ proc[q].st = "live" /\ proc[init].st = "live" /\ proc[q].pc = "shstart"
      /\ session' \in Seq(Line) /\ proc = [x \in Slot |-> proc[x]]
    BY <1>1, LiveProc
<1>3. q # init /\ proc[q].fd = Standard
    BY <1>1, MainFd
<1> DEFINE p == proc[q]
           f == [d \in Fd |-> IF d < 3 /\ p.fd[d] = None THEN Console ELSE p.fd[d]]
           b == Becomes(p, "prompt", p.line, p.cmd, Standard)
           r == WithChild(b, 0)
<1>4. f = Standard
    BY <1>3 DEF Standard, None, Console, Open
<1>5. proc' = [proc EXCEPT ![q] = [SetPcChild(p, "prompt", 0) EXCEPT !.fd = f]]
    BY DEF ShStart, SetPcChild
<1>6. [SetPcChild(p, "prompt", 0) EXCEPT !.fd = f] = r
  <2>1. IsProc(p) /\ p.st = "live" /\ p.fd = Standard
      BY <1>2, <1>3
  <2>2. SetPcChild(p, "prompt", 0) = WithChild(Becomes(p, "prompt", p.line, p.cmd, p.fd), 0)
      BY <2>1, BecomesForms
  <2>3. SetPcChild(p, "prompt", 0) = r
      BY <2>1, <2>2
  <2>4. r = [st |-> "live", parent |-> p.parent, pc |-> "prompt", line |-> p.line, cmd |-> p.cmd,
             fd |-> Standard, child |-> 0]
      BY DEF WithChild, Becomes
  <2> HIDE DEF r, f, p
  <2> QED
      BY <2>3, <2>4, <1>4
<1>7. Changes(q, r)
  <2> HIDE DEF r
  <2> QED
    BY <1>5, <1>6 DEF Changes
<1>8. IsProc(b) /\ b.st = "live" /\ b.parent = p.parent /\ b.pc = "prompt" /\ b.fd = Standard
  <2>1. Standard = [d \in Fd |-> Standard[d]]
      BY DEF Standard
  <2> QED
      BY <2>1, BecomesFields
<1>9. Planned(b)
    BY <1>8, MainPlanned
<1>10. Planned(r) /\ r.st = "live" /\ r.parent = p.parent /\ r.pc = "prompt" /\ r.fd = p.fd
  <2> HIDE DEF b
  <2> QED
    BY <1>3, <1>8, <1>9, WithChildPlanned
<1> HIDE DEF r
<1>11. Narrows(proc[q], r)
    BY <1>2, <1>10, FewerNarrows DEF Piping
<1> QED
    BY <1>2, <1>3, <1>7, <1>10, <1>11, ChangeInv DEF Childless

\* The line that getcmd() reads is one of the session.
LEMMA SessionLine ==
  ASSUME session \in Seq(Line), session # <<>>
  PROVE  Head(session) \in Line /\ Tail(session) \in Seq(Line)
OBVIOUS

LEMMA PromptInv == ASSUME ShellInv, NEW q \in Slot, Prompt(q) PROVE ShellInv' /\ TreeStep
<1>1. At(q, "prompt")
    BY DEF Prompt
<1>2. /\ IsProc(proc[q]) /\ proc[q].st = "live" /\ proc[init].st = "live"
      /\ session \in Seq(Line) /\ proc = [x \in Slot |-> proc[x]]
    BY <1>1, LiveProc
<1>3. q # init /\ proc[q].fd = Standard
    BY <1>1, MainFd
<1>4. CASE session = <<>> /\ exit(q) /\ UNCHANGED session
    BY <1>2, <1>4, ExitInv
<1>5. CASE session # <<>> /\ session' = Tail(session) /\ proc' = proc
  <2>1. session' \in Seq(Line)
      BY <1>2, <1>5, SessionLine
  <2>2. \A x : Children(x)' = Children(x)
      BY <1>5 DEF Children
  <2>3. FamilyInv'
    <3>1. InitFamily'
        BY <1>5, <2>2 DEF InitFamily, ShellInv, FamilyInv
    <3>2. ASSUME NEW x \in Slot \ {init} PROVE Family(x)'
        BY <1>5, <2>2, FamilyStays DEF ShellInv, FamilyInv
    <3> QED
        BY <3>1, <3>2 DEF FamilyInv
  <2>4. TreeStep
      BY <1>5, SameNarrows DEF TreeStep, Quiet
  <2> QED
      BY <1>5, <2>1, <2>3, <2>4 DEF ShellInv, PlanInv
<1>6. CASE session # <<>> /\ session' = Tail(session) /\
           proc' = [proc EXCEPT ![q].pc = "shfork", ![q].line = Head(session)]
  <2>1. Head(session) \in Line /\ session' \in Seq(Line)
      BY <1>2, <1>6, SessionLine
  <2> DEFINE l == Head(session)
  <2> HIDE DEF l
  <2>2. Changes(q, SetPcLine(proc[q], "shfork", l))
      BY <1>6 DEF l, SetPcLine, Changes
  <2>3. SetPcLine(proc[q], "shfork", l) = Becomes(proc[q], "shfork", l, proc[q].cmd, proc[q].fd)
      BY <1>2, BecomesForms
  <2>4. Changes(q, Becomes(proc[q], "shfork", l, proc[q].cmd, Standard))
      BY <1>3, <2>2, <2>3
  <2>5. l \in Line
      BY <2>1 DEF l
  <2> QED
      BY <1>1, <1>3, <2>1, <2>4, <2>5, MainStepInv
<1> QED
    BY <1>4, <1>5, <1>6 DEF Prompt

\* fork1() by a process other than init.
LEMMA Fork1Inv ==
  ASSUME ShellInv, NEW q \in Slot, q # init, proc[q].st = "live", proc[init].st = "live",
         NEW parent, Planned(parent), parent.st = "live", parent.parent = proc[q].parent,
         NEW child, Planned(child), child.st = "live",
         child.pc \in {"parse", "run", "left", "right"},
         \/ Children(q) = {} /\ parent.pc \in {"shwait", "listwait", "pipe2"}
         \/ (\E c : Children(q) = {c}) /\ parent.pc = "wait1"
         \/ parent.pc = "end" /\ parent.cmd.type = "BACK",
         ForkFds(proc[q], parent, child), fork1(q, parent, child), session' \in Seq(Line)
  PROVE  ShellInv' /\ TreeStep
<1>1. CASE exit(q)
    BY <1>1, ExitInv
<1>2. CASE Fork(q, parent, child)
    BY <1>2, ForkInv
<1> QED
    BY <1>1, <1>2 DEF fork1

LEMMA ShForkInv == ASSUME ShellInv, NEW q \in Slot, ShFork(q) PROVE ShellInv' /\ TreeStep
<1>1. At(q, "shfork") /\ session' = session
    BY DEF ShFork
<1>2. /\ IsProc(proc[q]) /\ proc[q].st = "live" /\ proc[init].st = "live" /\ proc[q].pc = "shfork"
      /\ session' \in Seq(Line)
    BY <1>1, LiveProc
<1>3. q # init /\ proc[q].fd = Standard /\ proc[q].line \in Line
    BY <1>1, MainFd
<1> DEFINE p == proc[q]
           a == Becomes(p, "shwait", <<>>, p.cmd, p.fd)
           b == Becomes(p, "parse", p.line, p.cmd, p.fd)
<1>4. SetPcLine(p, "shwait", <<>>) = a /\ SetPc(p, "parse") = b
    BY <1>2, BecomesForms
<1>5. fork1(q, a, b)
    BY <1>4 DEF ShFork, SetPcLine, SetPc
<1>6. /\ IsProc(a) /\ a.st = "live" /\ a.parent = p.parent /\ a.pc = "shwait" /\ a.fd = Standard
      /\ IsProc(b) /\ b.st = "live" /\ b.pc = "parse" /\ b.fd = Standard /\ b.line \in Line
  <2>1. p.fd = [d \in Fd |-> p.fd[d]]
      BY <1>2 DEF IsProc
  <2> QED
      BY <2>1, <1>3, BecomesFields
<1> HIDE DEF a, b
<1>7. Planned(a) /\ Planned(b)
    BY <1>6, MainPlanned
<1>8. Children(q) = {}
    BY <1>1, <1>2, <1>3, LiveProc DEF Family, Childless
<1>9. ForkFds(proc[q], a, b)
    BY <1>2, <1>3, <1>6 DEF ForkFds, Piping
<1> QED
    BY <1>2, <1>3, <1>5, <1>6, <1>7, <1>8, <1>9, Fork1Inv

LEMMA HasChildren ==
  ASSUME ShellInv, NEW q \in Slot, NEW at \in {"shwait", "listwait", "wait1", "wait2"}, At(q, at)
  PROVE  q # init /\ Children(q) # {}
<1>1. q # init
    BY NotInit
<1>2. Family(q) /\ proc[q].pc = at
    BY <1>1, LiveProc
<1> QED
    BY <1>1, <1>2 DEF Family

\* A call of wait() reaps a child.
LEMMA WaitStepInv ==
  ASSUME ShellInv, NEW q \in Slot, NEW at, At(q, at), NEW place,
         \/ at = "wait1" /\ place = "wait2"
         \/ at = "wait2" /\ place = "end"
         \/ at = "shwait" /\ place = "prompt",
         wait(q, place), session' \in Seq(Line)
  PROVE  ShellInv' /\ TreeStep
<1>1. /\ IsProc(proc[q]) /\ proc[q].st = "live" /\ proc[init].st = "live" /\ proc[q].pc = at
      /\ proc = [x \in Slot |-> proc[x]] /\ proc[q].fd = [d \in Fd |-> proc[q].fd[d]]
    BY LiveProc
<1>2. q # init /\ Children(q) # {}
    BY HasChildren
<1>3. PICK c \in Children(q) :
        proc[c].st = "zombie" /\ proc' = [proc EXCEPT ![c] = Unused, ![q].pc = place]
    BY <1>2 DEF wait
<1>4. c # q
    BY <1>1, <1>3
<1> DEFINE r == Becomes(proc[q], place, proc[q].line, proc[q].cmd, proc[q].fd)
<1>5. Reaps(q, c, r)
  <2>1. SetPc(proc[q], place) = r
      BY <1>1, BecomesForms
  <2>2. Reaps(q, c, SetPc(proc[q], place))
      BY <1>1, <1>3, <1>4 DEF Reaps, SetPc
  <2> QED
      BY <2>1, <2>2
<1>6. /\ IsProc(r) /\ r.st = "live" /\ r.parent = proc[q].parent /\ r.pc = place
      /\ r.fd = proc[q].fd
    BY <1>1, BecomesFields
<1> HIDE DEF r
<1>7. Planned(r)
  <2>1. CASE at = "shwait" /\ place = "prompt"
    <3>1. proc[q].fd = Standard
        BY <2>1, MainFd
    <3> QED
        BY <1>6, <2>1, <3>1, MainPlanned
  <2>2. CASE place \in {"wait2", "end"}
    BY <1>6, <2>2, IdlePlanned
  <2> QED
    BY <2>1, <2>2
<1>8. \/ proc[q].pc = "wait1" /\ r.pc = "wait2"
      \/ proc[q].pc \in {"shwait", "listwait", "wait2"} /\ r.pc \in {"prompt", "run", "end"}
    BY <1>1, <1>6
<1> QED
    BY <1>1, <1>2, <1>3, <1>5, <1>6, <1>7, <1>8, WaitInv

\* parsecmd() gives the tree of a line, which runs with the console.
LEMMA ParseInv == ASSUME ShellInv, NEW q \in Slot, Parse(q) PROVE ShellInv' /\ TreeStep
<1>1. At(q, "parse") /\ session' = session
    BY DEF Parse
<1>2. /\ IsProc(proc[q]) /\ proc[q].st = "live" /\ proc[init].st = "live" /\ proc[q].pc = "parse"
      /\ session' \in Seq(Line) /\ proc[q].fd = [d \in Fd |-> proc[q].fd[d]]
    BY <1>1, LiveProc
<1>3. q # init /\ proc[q].fd = Standard /\ proc[q].line \in Line
    BY <1>1, MainFd
<1> DEFINE p == proc[q]
           t == parse(p.line)
           r == Becomes(p, "run", p.line, t, p.fd)
<1>4. CASE exit(q)
    BY <1>2, <1>4, ExitInv
<1>5. CASE t # Panic /\ proc' = [proc EXCEPT ![q].pc = "run", ![q].cmd = t]
  <2>1. t \in Command
      BY <1>3, <1>5, CommandAssumption
  <2>2. Changes(q, SetPcCmd(p, "run", t))
      BY <1>5 DEF Changes, SetPcCmd
  <2>3. SetPcCmd(p, "run", t) = r
      BY <1>2, BecomesForms
  <2>4. /\ IsProc(r) /\ r.st = "live" /\ r.parent = p.parent /\ r.pc = "run" /\ r.line = p.line
        /\ r.cmd = t /\ r.fd = p.fd
      BY <1>2, BecomesFields
  <2> HIDE DEF r
  <2>5. /\ r.fd[0] = Console /\ r.fd[1] = Console /\ r.fd[2] = Console
        /\ r.fd[3] = None /\ r.fd[4] = None
      BY <1>3, <2>4 DEF Standard, Fd
  <2>6. Console # None /\ Anonymous(Console) = Console /\ Console \in File
      BY DEF Console, None, Open, Anonymous, File
  <2>7. OnPlan(r)
      BY <2>1, <2>4, <2>5, <2>6 DEF OnPlan
  <2>8. Planned(r)
      BY <2>4, <2>5, <2>7, TreePlanned
  <2>9. Narrows(p, r)
      BY <1>2, <2>4, FewerNarrows DEF Piping
  <2> QED
      BY <1>2, <1>3, <2>2, <2>3, <2>4, <2>8, <2>9, ChangeInv DEF Childless
<1> QED
    BY <1>4, <1>5 DEF Parse

-----------------------------------------------------------------------------
(* The steps of runcmd()                                                   *)

LEMMA TreeFacts ==
  ASSUME ShellInv, NEW q \in Slot, NEW at \in {"run", "listwait"}, At(q, at)
  PROVE  /\ q # init /\ IsProc(proc[q]) /\ OnPlan(proc[q])
         /\ proc[q].fd = [d \in Fd |-> proc[q].fd[d]]
         /\ proc[q].fd[3] = None /\ proc[q].fd[4] = None
         /\ proc[q].st = "live" /\ proc[init].st = "live" /\ proc[q].pc = at
         /\ session \in Seq(Line) /\ proc = [x \in Slot |-> proc[x]]
         /\ at = "run" => Children(q) = {}
         /\ at = "listwait" => proc[q].cmd.type = "LIST"
<1>1. q # init
    BY NotInit
<1>2. /\ Planned(proc[q]) /\ IsProc(proc[q])
      /\ proc[q].fd = [d \in Fd |-> proc[q].fd[d]]
      /\ proc[q].pc = at /\ proc[q].st = "live" /\ proc[init].st = "live"
      /\ proc = [x \in Slot |-> proc[x]] /\ session \in Seq(Line) /\ Family(q)
    BY <1>1, LiveProc
<1>3. OnPlan(proc[q]) /\ proc[q].fd[3] = None /\ proc[q].fd[4] = None
    BY <1>2, PlannedTreeIs
<1>4. at = "listwait" => proc[q].cmd.type = "LIST"
    BY <1>2, PlannedTreeIs
<1>5. at = "run" => Children(q) = {}
    BY <1>2 DEF Family, Childless
<1> QED
    BY <1>1, <1>2, <1>3, <1>4, <1>5

LEMMA PipingFacts ==
  ASSUME ShellInv, NEW q \in Slot, NEW at \in Piping, At(q, at)
  PROVE  /\ q # init /\ IsProc(proc[q]) /\ OnPlan(proc[q])
         /\ proc[q].fd = [d \in Fd |-> proc[q].fd[d]]
         /\ proc[q].cmd.type = "PIPE"
         /\ \E k : /\ proc[q].fd[3] = Open("r", k, proc[q].cmd.at)
                   /\ proc[q].fd[4] = Open("w", k, proc[q].cmd.at)
         /\ proc[q].st = "live" /\ proc[init].st = "live" /\ proc[q].pc = at
         /\ session \in Seq(Line) /\ proc = [x \in Slot |-> proc[x]] /\ Family(q)
<1>1. q # init
    BY NotInit DEF Piping
<1>2. /\ Planned(proc[q]) /\ IsProc(proc[q])
      /\ proc[q].fd = [d \in Fd |-> proc[q].fd[d]]
      /\ proc[q].pc = at /\ proc[q].st = "live" /\ proc[init].st = "live"
      /\ proc = [x \in Slot |-> proc[x]] /\ session \in Seq(Line) /\ Family(q)
    BY <1>1, LiveProc
<1> QED
    BY <1>1, <1>2, PlannedTreeIs

LEMMA RunExecInv == ASSUME ShellInv, NEW q \in Slot, RunExec(q) PROVE ShellInv' /\ TreeStep
<1>1. At(q, "run") /\ proc[q].cmd.type = "EXEC" /\ session' = session
    BY DEF RunExec, Running
<1>2. /\ q # init /\ IsProc(proc[q]) /\ OnPlan(proc[q])
      /\ proc[q].fd = [d \in Fd |-> proc[q].fd[d]]
      /\ proc[q].fd[3] = None /\ proc[q].fd[4] = None
      /\ proc[q].st = "live" /\ proc[init].st = "live" /\ proc[q].pc = "run"
      /\ session' \in Seq(Line) /\ proc = [x \in Slot |-> proc[x]]
    BY <1>1, TreeFacts
<1> DEFINE p == proc[q]
           r == Becomes(p, "prog", p.line, p.cmd, p.fd)
<1>3. CASE exit(q)
    BY <1>2, <1>3, ExitInv
<1>4. CASE GoOn(q, "prog")
  <2>1. Changes(q, r)
      BY <1>2, <1>4, GoOnBecomes
  <2>2. /\ IsProc(r) /\ r.st = "live" /\ r.parent = p.parent /\ r.pc = "prog" /\ r.line = p.line
        /\ r.cmd = p.cmd /\ r.fd = p.fd
      BY <1>2, BecomesFields
  <2> HIDE DEF r
  <2>3. OnPlan(r)
      BY <1>2, <2>2 DEF OnPlan
  <2>4. Planned(r)
      BY <1>1, <1>2, <2>2, <2>3, TreePlanned
  <2>5. Narrows(p, r)
      BY <1>2, <2>2, FewerNarrows DEF Piping
  <2> QED
      BY <1>2, <2>1, <2>2, <2>4, <2>5, ChangeInv DEF Childless
<1> QED
    BY <1>3, <1>4 DEF RunExec

LEMMA OpenInFile ==
  ASSUME NEW c \in Command
  PROVE  /\ c.type = "REDIR" =>
              /\ Open(c.mode, c.file, 0) \in File /\ Open(c.mode, c.file, 0) # None
              /\ Anonymous(Open(c.mode, c.file, 0)) = Open(c.mode, c.file, 0)
         /\ c.type = "PIPE" => \A k, e : e \in {"r", "w"} =>
              /\ Anonymous(Open(e, k, c.at)) = Open(e, 0, c.at) /\ Open(e, 0, c.at) \in File
              /\ Open(e, k, c.at) # None
<1>1. ASSUME c.type = "REDIR"
      PROVE  /\ Open(c.mode, c.file, 0) \in File /\ Open(c.mode, c.file, 0) # None
             /\ Anonymous(Open(c.mode, c.file, 0)) = Open(c.mode, c.file, 0)
  <2>1. c \in CommandOf({"REDIR"})
      BY <1>1 DEF CommandOf
  <2>2. c.mode \in {"<", ">", ">>"}
      BY <2>1, CommandAssumption
  <2>3. Open(c.mode, c.file, 0) \in File
      BY <2>1 DEF File
  <2>4. Open(c.mode, c.file, 0).kind = c.mode /\ None.kind = "none"
      BY DEF Open, None
  <2> QED
      BY <2>2, <2>3, <2>4 DEF Anonymous
<1>2. ASSUME c.type = "PIPE", NEW k, NEW e \in {"r", "w"}
      PROVE  /\ Anonymous(Open(e, k, c.at)) = Open(e, 0, c.at) /\ Open(e, 0, c.at) \in File
             /\ Open(e, k, c.at) # None
  <2>1. c \in CommandOf({"PIPE"})
      BY <1>2 DEF CommandOf
  <2>2. Open(e, 0, c.at) \in File
      BY <2>1 DEF File
  <2>3. Open(e, k, c.at).kind = e /\ Open(e, k, c.at).at = c.at /\ None.kind = "none"
      BY DEF Open, None
  <2> QED
      BY <2>2, <2>3 DEF Anonymous
<1> QED
    BY <1>1, <1>2

LEMMA RunRedirInv == ASSUME ShellInv, NEW q \in Slot, RunRedir(q) PROVE ShellInv' /\ TreeStep
<1>1. At(q, "run") /\ proc[q].cmd.type = "REDIR" /\ session' = session
    BY DEF RunRedir, Running
<1>2. /\ q # init /\ IsProc(proc[q]) /\ OnPlan(proc[q])
      /\ proc[q].fd = [d \in Fd |-> proc[q].fd[d]]
      /\ proc[q].fd[3] = None /\ proc[q].fd[4] = None
      /\ proc[q].st = "live" /\ proc[init].st = "live" /\ proc[q].pc = "run"
      /\ session' \in Seq(Line) /\ proc = [x \in Slot |-> proc[x]]
    BY <1>1, TreeFacts
<1> DEFINE p == proc[q]
           cmd == p.cmd
           d == IF cmd.mode = "<" THEN 0 ELSE 1
           o == Open(cmd.mode, cmd.file, 0)
           f == [e \in Fd |-> IF e = d THEN o ELSE p.fd[e]]
           r == Becomes(p, p.pc, p.line, cmd.cmd, f)
<1>3. CASE exit(q)
    BY <1>2, <1>3, ExitInv
<1>4. CASE proc' = [proc EXCEPT ![q].cmd = cmd.cmd, ![q].fd = With(Close(@, d), o)]
  <2>1. With(Close(p.fd, d), o) = f
    <3>1. d \in {0, 1} /\ p.fd[0] # None
        BY <1>2 DEF OnPlan
    <3> HIDE DEF d, o
    <3> QED
        BY <1>2, <3>1, CloseThenOpen
  <2>2. Changes(q, SetCmdFd(p, cmd.cmd, With(Close(p.fd, d), o)))
      BY <1>4 DEF Changes, SetCmdFd
  <2>3. Changes(q, SetCmdFd(p, cmd.cmd, f))
      BY <2>1, <2>2
  <2>4. SetCmdFd(p, cmd.cmd, f) = r
      BY <1>2, BecomesForms
  <2>5. f = [e \in Fd |-> f[e]]
      OBVIOUS
  <2>6. /\ f[0] = IF d = 0 THEN o ELSE p.fd[0]
        /\ f[1] = IF d = 1 THEN o ELSE p.fd[1]
        /\ f[2] = p.fd[2] /\ f[3] = None /\ f[4] = None
      BY <1>2 DEF Fd
  <2>7. cmd \in Command /\ o \in File /\ o # None /\ Anonymous(o) = o
      BY <1>1, <1>2, OpenInFile DEF OnPlan
  <2>8. cmd.cmd \in Command /\ cmd \in CommandOf({"REDIR"})
      BY <1>1, <2>7, CommandAssumption DEF CommandOf
  <2>9. /\ IsProc(r) /\ r.st = "live" /\ r.parent = p.parent /\ r.pc = "run" /\ r.line = p.line
        /\ r.cmd = cmd.cmd /\ r.fd = f
    <3> HIDE DEF f
    <3> QED
      BY <1>2, <2>5, BecomesFields
  <2> DEFINE in == Anonymous(p.fd[0])
             out == Anonymous(p.fd[1])
  <2>10. Wiring(cmd, in, out) = IF cmd.mode = "<" THEN Wiring(cmd.cmd, o, out) ELSE Wiring(cmd.cmd, in, o)
    <3>1. in \in File /\ out \in File
        BY <1>2 DEF OnPlan
    <3>2. Wiring(cmd, in, out) = IF cmd.mode = "<" THEN Wiring(cmd.cmd, Open("<", cmd.file, 0), out)
                                 ELSE Wiring(cmd.cmd, in, Open(cmd.mode, cmd.file, 0))
      <4> HIDE DEF in, out, cmd
      <4> QED
        BY <2>8, <3>1, WiringAssumption
    <3> QED
        BY <3>2
  <2>11. Wiring(cmd.cmd, Anonymous(f[0]), Anonymous(f[1])) = Wiring(cmd, in, out)
    <3> HIDE DEF o, f
    <3>1. CASE cmd.mode = "<"
      BY <2>6, <2>7, <2>10, <3>1
    <3>2. CASE cmd.mode # "<"
      BY <2>6, <2>7, <2>10, <3>2
    <3> QED
      BY <3>1, <3>2
  <2> HIDE DEF r, f, o, d
  <2>12. OnPlan(r)
    <3>1. /\ in \in File /\ out \in File /\ p.fd[0] # None /\ p.fd[1] # None /\ p.fd[2] = Console
          /\ Wiring(cmd, in, out) \subseteq Wiring(parse(p.line), Console, Console)
        BY <1>2 DEF OnPlan
    <3>2. /\ Anonymous(f[0]) \in File /\ Anonymous(f[1]) \in File
          /\ f[0] # None /\ f[1] # None /\ f[2] = Console
        BY <2>6, <2>7, <3>1
    <3> QED
        BY <2>8, <2>9, <2>11, <3>1, <3>2 DEF OnPlan
  <2>13. Planned(r)
      BY <2>6, <2>9, <2>12, TreePlanned
  <2>14. Narrows(p, r)
    <3>1. o.kind \notin {"r", "w"}
        BY <2>7, <2>8, CommandAssumption DEF o, Open
    <3>2. \A e \in Fd : r.fd[e] = p.fd[e] \/ r.fd[e] = o
        BY <2>9 DEF f
    <3> QED
        BY <1>2, <2>9, <3>1, <3>2, FewerNarrows DEF Piping
  <2> QED
      BY <1>2, <2>3, <2>4, <2>9, <2>13, <2>14, ChangeInv DEF Childless
<1> QED
    BY <1>3, <1>4 DEF RunRedir

\* A part of a tree that has no input or output of its own runs with those of
\* the tree.
LEMMA PartOnPlan ==
  ASSUME NEW p, OnPlan(p), NEW t, NEW r, r.line = p.line, r.fd = p.fd, r.cmd = t,
         \/ p.cmd.type = "LIST" /\ t \in {p.cmd.left, p.cmd.right}
         \/ p.cmd.type = "BACK" /\ t = p.cmd.cmd
         \/ t = p.cmd
  PROVE  OnPlan(r)
<1> DEFINE c == p.cmd
           in == Anonymous(p.fd[0])
           out == Anonymous(p.fd[1])
<1>1. c \in Command /\ in \in File /\ out \in File
    BY DEF OnPlan
<1>2. t \in Command /\ Wiring(t, in, out) \subseteq Wiring(c, in, out)
  <2> HIDE DEF in, out
  <2>1. CASE c.type = "LIST" /\ t \in {c.left, c.right}
    <3>1. c \in CommandOf({"LIST"}) /\ c \in CommandOf({"PIPE", "LIST"})
        BY <1>1, <2>1 DEF CommandOf
    <3> HIDE DEF c
    <3>2. Wiring(c, in, out) = Wiring(c.left, in, out) \cup Wiring(c.right, in, out)
        BY <1>1, <3>1, WiringAssumption
    <3>3. c.left \in Command /\ c.right \in Command
        BY <3>1, CommandAssumption
    <3> QED
        BY <2>1, <3>2, <3>3
  <2>2. CASE c.type = "BACK" /\ t = c.cmd
    <3>1. c \in CommandOf({"BACK"}) /\ c \in CommandOf({"REDIR", "BACK"})
        BY <1>1, <2>2 DEF CommandOf
    <3> HIDE DEF c
    <3>2. Wiring(c, in, out) = Wiring(c.cmd, in, out)
        BY <1>1, <3>1, WiringAssumption
    <3>3. c.cmd \in Command
        BY <3>1, CommandAssumption
    <3> QED
        BY <2>2, <3>2, <3>3
  <2>3. CASE t = c
    BY <1>1, <2>3
  <2> QED
    BY <2>1, <2>2, <2>3
<1> QED
    BY <1>1, <1>2 DEF OnPlan

LEMMA RunListInv == ASSUME ShellInv, NEW q \in Slot, RunList(q) PROVE ShellInv' /\ TreeStep
<1>1. At(q, "run") /\ proc[q].cmd.type = "LIST" /\ session' = session
    BY DEF RunList, Running
<1>2. /\ q # init /\ IsProc(proc[q]) /\ OnPlan(proc[q])
      /\ proc[q].fd = [d \in Fd |-> proc[q].fd[d]]
      /\ proc[q].fd[3] = None /\ proc[q].fd[4] = None
      /\ proc[q].st = "live" /\ proc[init].st = "live" /\ proc[q].pc = "run"
      /\ session' \in Seq(Line) /\ Children(q) = {}
    BY <1>1, TreeFacts
<1> DEFINE p == proc[q]
           a == Becomes(p, "listwait", p.line, p.cmd, p.fd)
           b == Becomes(p, p.pc, p.line, p.cmd.left, p.fd)
<1>3. SetPc(p, "listwait") = a /\ SetCmd(p, p.cmd.left) = b
    BY <1>2, BecomesForms
<1>4. fork1(q, a, b)
    BY <1>3 DEF RunList, SetPc, SetCmd
<1>5. /\ IsProc(a) /\ a.st = "live" /\ a.parent = p.parent /\ a.pc = "listwait" /\ a.fd = p.fd
      /\ a.cmd = p.cmd /\ a.line = p.line
      /\ IsProc(b) /\ b.st = "live" /\ b.pc = "run" /\ b.fd = p.fd /\ b.line = p.line
      /\ b.cmd = p.cmd.left
    BY <1>2, BecomesFields
<1> HIDE DEF a, b
<1>6. OnPlan(a)
    BY <1>2, <1>5, PartOnPlan
<1>7. OnPlan(b)
    BY <1>1, <1>2, <1>5, PartOnPlan
<1>8. Planned(a) /\ Planned(b)
    BY <1>1, <1>2, <1>5, <1>6, <1>7, TreePlanned
<1>9. ForkFds(proc[q], a, b)
    BY <1>2, <1>5 DEF ForkFds, Piping
<1> QED
    BY <1>2, <1>4, <1>5, <1>8, <1>9, Fork1Inv

LEMMA ListWaitInv == ASSUME ShellInv, NEW q \in Slot, ListWait(q) PROVE ShellInv' /\ TreeStep
<1>1. At(q, "listwait") /\ session' = session
    BY DEF ListWait
<1>2. /\ q # init /\ IsProc(proc[q]) /\ OnPlan(proc[q])
      /\ proc[q].fd = [d \in Fd |-> proc[q].fd[d]]
      /\ proc[q].fd[3] = None /\ proc[q].fd[4] = None
      /\ proc[q].st = "live" /\ proc[init].st = "live" /\ proc[q].pc = "listwait"
      /\ session' \in Seq(Line) /\ proc = [x \in Slot |-> proc[x]]
      /\ proc[q].cmd.type = "LIST"
    BY <1>1, TreeFacts
<1>3. Children(q) # {}
    BY <1>1, HasChildren
<1>4. PICK c \in Children(q) :
        proc[c].st = "zombie" /\ proc' = [proc EXCEPT ![c] = Unused, ![q].pc = "run", ![q].cmd = @.right]
    BY <1>3 DEF ListWait
<1>5. c # q
    BY <1>2, <1>4
<1> DEFINE p == proc[q]
           r == Becomes(p, "run", p.line, p.cmd.right, p.fd)
<1>6. Reaps(q, c, r)
  <2>1. SetPcCmd(p, "run", p.cmd.right) = r
      BY <1>2, BecomesForms
  <2>2. Reaps(q, c, SetPcCmd(p, "run", p.cmd.right))
      BY <1>2, <1>4, <1>5 DEF Reaps, SetPcCmd
  <2> QED
      BY <2>1, <2>2
<1>7. /\ IsProc(r) /\ r.st = "live" /\ r.parent = p.parent /\ r.pc = "run" /\ r.fd = p.fd
      /\ r.line = p.line /\ r.cmd = p.cmd.right
    BY <1>2, BecomesFields
<1> HIDE DEF r
<1>8. OnPlan(r)
    BY <1>2, <1>7, PartOnPlan
<1>9. Planned(r)
    BY <1>2, <1>7, <1>8, TreePlanned
<1> QED
    BY <1>2, <1>4, <1>6, <1>7, <1>9, WaitInv

LEMMA UnusedPipeExists ==
  ASSUME PipeIds # {}
  PROVE  (CHOOSE i \in PipeIds : \A j \in PipeIds : i <= j) \in PipeIds
<1>1. PipeIds \subseteq Nat
    BY ShellAssumption DEF PipeIds
<1> QED
    BY <1>1, Least

LEMMA RunPipeInv == ASSUME ShellInv, NEW q \in Slot, RunPipe(q) PROVE ShellInv' /\ TreeStep
<1>1. At(q, "run") /\ proc[q].cmd.type = "PIPE" /\ session' = session
    BY DEF RunPipe, Running
<1>2. /\ q # init /\ IsProc(proc[q]) /\ OnPlan(proc[q])
      /\ proc[q].fd = [d \in Fd |-> proc[q].fd[d]]
      /\ proc[q].fd[3] = None /\ proc[q].fd[4] = None
      /\ proc[q].st = "live" /\ proc[init].st = "live" /\ proc[q].pc = "run"
      /\ session' \in Seq(Line) /\ proc = [x \in Slot |-> proc[x]]
    BY <1>1, TreeFacts
<1> DEFINE p == proc[q]
           k == CHOOSE i \in PipeIds : \A j \in PipeIds : i <= j
           a == Open("r", k, p.cmd.at)
           b == Open("w", k, p.cmd.at)
           f == [e \in Fd |-> IF e = 3 THEN a ELSE IF e = 4 THEN b ELSE p.fd[e]]
           r == Becomes(p, "pipeleft", p.line, p.cmd, f)
<1>3. CASE exit(q)
    BY <1>2, <1>3, ExitInv
<1>4. CASE PipeIds # {} /\ proc' = [proc EXCEPT ![q].pc = "pipeleft", ![q].fd = With(With(@, a), b)]
  <2> HIDE DEF k
  <2>1. p.fd[0] # None /\ p.fd[1] # None /\ p.fd[2] # None /\ a # None
    <3>1. a.kind = "r" /\ None.kind = "none" /\ Console.kind = "cons"
        BY DEF Open, None, Console
    <3>2. a # None
        BY <3>1
    <3> HIDE DEF a
    <3> QED
        BY <1>2, <3>1, <3>2 DEF OnPlan
  <2>2. With(With(p.fd, a), b) = f
    <3> HIDE DEF a, b
    <3> QED
      BY <1>2, <2>1, PipeFds
  <2>3. Changes(q, SetPcFd(p, "pipeleft", With(With(p.fd, a), b)))
      BY <1>4 DEF Changes, SetPcFd
  <2>4. SetPcFd(p, "pipeleft", f) = r
      BY <1>2, BecomesForms
  <2>5. f = [e \in Fd |-> f[e]]
      OBVIOUS
  <2>6. f[0] = p.fd[0] /\ f[1] = p.fd[1] /\ f[2] = p.fd[2] /\ f[3] = a /\ f[4] = b
      BY DEF Fd
  <2>7. /\ IsProc(r) /\ r.st = "live" /\ r.parent = p.parent /\ r.pc = "pipeleft"
        /\ r.line = p.line /\ r.cmd = p.cmd /\ r.fd = f
    <3> HIDE DEF f
    <3> QED
      BY <2>5, BecomesFields
  <2> HIDE DEF r, f
  <2>8. OnPlan(r)
      BY <1>2, <2>6, <2>7 DEF OnPlan
  <2>9. Planned(r)
    <3>1. r.fd[3] = Open("r", k, r.cmd.at) /\ r.fd[4] = Open("w", k, r.cmd.at)
        BY <2>6, <2>7
    <3> QED
        BY <1>1, <2>7, <2>8, <3>1, PipingPlanned DEF Piping
  <2>10. Changes(q, r)
      BY <2>2, <2>3, <2>4
  <2>11. Pipes(q, k)
    <3>1. k \in PipeIds
        BY <1>4, UnusedPipeExists DEF k
    <3>2. \A x \in Slot : proc'[x] = IF x = q THEN r ELSE proc[x]
        BY <1>2, <2>10 DEF Changes
    <3>3. r.fd = [e \in Fd |-> IF e = 3 THEN Open("r", k, p.cmd.at)
                               ELSE IF e = 4 THEN Open("w", k, p.cmd.at) ELSE p.fd[e]]
        BY <2>7 DEF f
    <3> QED
        BY <1>2, <2>7, <3>1, <3>2, <3>3 DEF Pipes, Piping
  <2> QED
      BY <1>2, <2>7, <2>9, <2>10, <2>11, ChangeInv DEF Childless
<1> QED
    BY <1>3, <1>4 DEF RunPipe

LEMMA PipeLeftInv == ASSUME ShellInv, NEW q \in Slot, PipeLeft(q) PROVE ShellInv' /\ TreeStep
<1>1. At(q, "pipeleft") /\ session' = session
    BY DEF PipeLeft
<1>2. /\ q # init /\ IsProc(proc[q]) /\ OnPlan(proc[q])
      /\ proc[q].fd = [d \in Fd |-> proc[q].fd[d]]
      /\ proc[q].cmd.type = "PIPE"
      /\ \E k : /\ proc[q].fd[3] = Open("r", k, proc[q].cmd.at)
                /\ proc[q].fd[4] = Open("w", k, proc[q].cmd.at)
      /\ proc[q].st = "live" /\ proc[init].st = "live" /\ proc[q].pc = "pipeleft"
      /\ session' \in Seq(Line) /\ Family(q)
    BY <1>1, PipingFacts DEF Piping
<1> DEFINE p == proc[q]
           a == Becomes(p, "pipe2", p.line, p.cmd, p.fd)
           b == Becomes(p, "left", p.line, p.cmd, p.fd)
<1>3. SetPc(p, "pipe2") = a /\ SetPc(p, "left") = b
    BY <1>2, BecomesForms
<1>4. fork1(q, a, b)
    BY <1>3 DEF PipeLeft, SetPc
<1>5. /\ IsProc(a) /\ a.st = "live" /\ a.parent = p.parent /\ a.pc = "pipe2" /\ a.fd = p.fd
      /\ a.cmd = p.cmd /\ a.line = p.line
      /\ IsProc(b) /\ b.st = "live" /\ b.pc = "left" /\ b.fd = p.fd /\ b.line = p.line
      /\ b.cmd = p.cmd
    BY <1>2, BecomesFields
<1> HIDE DEF a, b
<1>6. OnPlan(a) /\ OnPlan(b)
    BY <1>2, <1>5, PartOnPlan
<1>7. Planned(a) /\ Planned(b)
    BY <1>2, <1>5, <1>6, PipingPlanned DEF Piping
<1>8. Children(q) = {}
    BY <1>2 DEF Family, Childless
<1>9. ForkFds(proc[q], a, b)
    BY <1>2, <1>5 DEF ForkFds
<1> QED
    BY <1>2, <1>4, <1>5, <1>7, <1>8, <1>9, Fork1Inv

\* The descriptors after the two ends are closed.
LEMMA EndsClosed ==
  ASSUME NEW f, f = [d \in Fd |-> f[d]]
  PROVE  Close(Close(f, 3), 4) = [e \in Fd |-> IF e \in {3, 4} THEN None ELSE f[e]]
<1>1. Close(f, 3) = [e \in Fd |-> IF e = 3 THEN None ELSE f[e]]
    BY DEF Close, Fd
<1> QED
    BY <1>1 DEF Close, Fd

LEMMA PipeRightInv == ASSUME ShellInv, NEW q \in Slot, PipeRight(q) PROVE ShellInv' /\ TreeStep
<1>1. At(q, "pipe2") /\ session' = session
    BY DEF PipeRight
<1>2. /\ q # init /\ IsProc(proc[q]) /\ OnPlan(proc[q])
      /\ proc[q].fd = [d \in Fd |-> proc[q].fd[d]]
      /\ proc[q].cmd.type = "PIPE"
      /\ \E k : /\ proc[q].fd[3] = Open("r", k, proc[q].cmd.at)
                /\ proc[q].fd[4] = Open("w", k, proc[q].cmd.at)
      /\ proc[q].st = "live" /\ proc[init].st = "live" /\ proc[q].pc = "pipe2"
      /\ session' \in Seq(Line) /\ Family(q)
    BY <1>1, PipingFacts DEF Piping
<1>3. p0(q) = 3 /\ p1(q) = 4
    BY <1>2, PipeEnds
<1> DEFINE p == proc[q]
           f == Close(Close(p.fd, 3), 4)
           a == Becomes(p, "wait1", p.line, p.cmd, f)
           b == Becomes(p, "right", p.line, p.cmd, p.fd)
<1>4. SetPcFd(p, "wait1", f) = a /\ SetPc(p, "right") = b
    BY <1>2, BecomesForms
<1>5. fork1(q, a, b)
  <2>1. fork1(q, SetPcFd(p, "wait1", Close(Close(p.fd, p0(q)), p1(q))), SetPc(p, "right"))
      BY DEF PipeRight, SetPc, SetPcFd
  <2> QED
      BY <1>3, <1>4, <2>1
<1>6. f = [e \in Fd |-> f[e]]
    BY <1>2, EndsClosed
<1>7. /\ IsProc(a) /\ a.st = "live" /\ a.parent = p.parent /\ a.pc = "wait1" /\ a.fd = f
      /\ IsProc(b) /\ b.st = "live" /\ b.pc = "right" /\ b.fd = p.fd /\ b.line = p.line
      /\ b.cmd = p.cmd
  <2> HIDE DEF f
  <2> QED
    BY <1>2, <1>6, BecomesFields
<1> HIDE DEF a, b
<1>8. Planned(a)
    BY <1>7, IdlePlanned
<1>9. OnPlan(b)
    BY <1>2, <1>7, PartOnPlan
<1>10. Planned(b)
    BY <1>2, <1>7, <1>9, PipingPlanned DEF Piping
<1>11. \E c : Children(q) = {c}
    BY <1>2 DEF Family
<1>12. ForkFds(proc[q], a, b)
    BY <1>2, <1>7, EndsClosed DEF ForkFds
<1> QED
    BY <1>2, <1>5, <1>7, <1>8, <1>10, <1>11, <1>12, Fork1Inv

LEMMA SideNarrows ==
  ASSUME NEW p, NEW r, p.pc \in {"left", "right"}, r.pc = "run",
         r.fd[0] = (IF p.pc = "left" THEN p.fd[0] ELSE p.fd[3]),
         r.fd[1] = (IF p.pc = "left" THEN p.fd[4] ELSE p.fd[1]),
         r.fd[2] = p.fd[2], r.fd[3] = None, r.fd[4] = None
  PROVE  Narrows(p, r)
<1> SUFFICES ASSUME NEW A, NEW t, NEW l, NEW at, Settled(p, A, t, l, at) PROVE Settled(r, A, t, l, at)
    BY DEF Narrows
<1>1. PICK k \in 1 .. NPipe :
        /\ p.fd[3] = Open("r", k, at[k]) /\ p.fd[4] = Open("w", k, at[k])
        /\ Beside(p.pc, A, t, l[k])
    BY DEF Settled, Piping
<1>2. /\ p.pc = "left" => Held(p.fd[4], A, t, l, at)
      /\ p.pc = "right" => Held(p.fd[3], A, t, l, at)
    BY <1>1 DEF Held, Beside, Open
<1>3. \A d \in {0, 1, 2} : Held(p.fd[d], A, t, l, at)
    BY DEF Settled, Fd
<1>4. Held(None, A, t, l, at)
    BY DEF Held, None, Open
<1>5. \A d \in Fd : Held(r.fd[d], A, t, l, at)
    BY <1>2, <1>3, <1>4 DEF Fd
<1> QED
    BY <1>5 DEF Settled, Piping

\* A side of a pipe takes its end of the pipe as output or as input and closes
\* both descriptors of the pipe.
LEMMA SideInv ==
  ASSUME ShellInv, NEW q \in Slot, NEW at, At(q, at), NEW t, NEW d, NEW o,
         \/ at = "left" /\ t = proc[q].cmd.left /\ d = 1 /\ o = proc[q].fd[4]
         \/ at = "right" /\ t = proc[q].cmd.right /\ d = 0 /\ o = proc[q].fd[3],
         Changes(q, SetPcCmdFd(proc[q], "run", t, Close(Close(With(Close(proc[q].fd, d), o), 3), 4))),
         session' \in Seq(Line)
  PROVE  ShellInv' /\ TreeStep
<1>1. at \in Piping
    BY DEF Piping
<1>2. /\ q # init /\ IsProc(proc[q]) /\ OnPlan(proc[q])
      /\ proc[q].fd = [x \in Fd |-> proc[q].fd[x]]
      /\ proc[q].cmd.type = "PIPE"
      /\ \E k : /\ proc[q].fd[3] = Open("r", k, proc[q].cmd.at)
                /\ proc[q].fd[4] = Open("w", k, proc[q].cmd.at)
      /\ proc[q].st = "live" /\ proc[init].st = "live" /\ proc[q].pc = at
    BY <1>1, PipingFacts
<1> DEFINE p == proc[q]
           c == p.cmd
           g == [e \in Fd |-> IF e = d THEN o ELSE p.fd[e]]
           f == [e \in Fd |-> IF e \in {3, 4} THEN None ELSE g[e]]
           r == Becomes(p, "run", p.line, t, f)
           in == Anonymous(p.fd[0])
           out == Anonymous(p.fd[1])
<1>3. With(Close(p.fd, d), o) = g
  <2>1. d \in {0, 1} /\ p.fd[0] # None
      BY <1>2 DEF OnPlan
  <2> QED
      BY <1>2, <2>1, CloseThenOpen
<1>4. Close(Close(g, 3), 4) = f
  <2>1. g = [e \in Fd |-> g[e]]
      OBVIOUS
  <2> HIDE DEF g
  <2> QED
      BY <2>1, EndsClosed
<1>5. Changes(q, r)
  <2>1. Changes(q, SetPcCmdFd(p, "run", t, f))
      BY <1>3, <1>4
  <2>2. SetPcCmdFd(p, "run", t, f) = r
      BY <1>2, BecomesForms
  <2> QED
      BY <2>1, <2>2
<1>6. f = [e \in Fd |-> f[e]]
    OBVIOUS
<1>7. /\ f[0] = IF d = 0 THEN o ELSE p.fd[0]
      /\ f[1] = IF d = 1 THEN o ELSE p.fd[1]
      /\ f[2] = p.fd[2] /\ f[3] = None /\ f[4] = None
    BY DEF Fd
<1>8. /\ IsProc(r) /\ r.st = "live" /\ r.parent = p.parent /\ r.pc = "run" /\ r.line = p.line
      /\ r.cmd = t /\ r.fd = f
  <2> HIDE DEF f
  <2> QED
    BY <1>6, BecomesFields
<1> HIDE DEF r, f, g
<1>9. c \in Command /\ in \in File /\ out \in File
    BY <1>2 DEF OnPlan
<1>10. c \in CommandOf({"PIPE"}) /\ c \in CommandOf({"PIPE", "LIST"})
    BY <1>2, <1>9 DEF CommandOf
<1>11. c.left \in Command /\ c.right \in Command
    BY <1>10, CommandAssumption
<1>12. Wiring(c, in, out) = Wiring(c.left, in, Open("w", 0, c.at)) \cup
                            Wiring(c.right, Open("r", 0, c.at), out)
  <2> HIDE DEF c, in, out
  <2> QED
    BY <1>9, <1>10, WiringAssumption
<1>13. /\ Anonymous(p.fd[3]) = Open("r", 0, c.at) /\ p.fd[3] # None
       /\ Anonymous(p.fd[4]) = Open("w", 0, c.at) /\ p.fd[4] # None
       /\ Open("r", 0, c.at) \in File /\ Open("w", 0, c.at) \in File
  <2>1. PICK k : p.fd[3] = Open("r", k, c.at) /\ p.fd[4] = Open("w", k, c.at)
      BY <1>2
  <2> QED
      BY <1>2, <1>9, <2>1, OpenInFile
<1>14. OnPlan(r)
  <2>1. /\ p.fd[0] # None /\ p.fd[1] # None /\ p.fd[2] = Console
        /\ Wiring(c, in, out) \subseteq Wiring(parse(p.line), Console, Console)
      BY <1>2 DEF OnPlan
  <2>2. CASE at = "left" /\ t = c.left /\ d = 1 /\ o = p.fd[4]
    <3>1. f[0] = p.fd[0] /\ f[1] = p.fd[4] /\ f[2] = Console
        BY <1>7, <2>1, <2>2
    <3>2. Wiring(t, Anonymous(f[0]), Anonymous(f[1])) \subseteq Wiring(c, in, out)
        BY <1>12, <1>13, <2>2, <3>1
    <3> QED
        BY <1>8, <1>9, <1>11, <1>13, <2>1, <2>2, <3>1, <3>2 DEF OnPlan
  <2>3. CASE at = "right" /\ t = c.right /\ d = 0 /\ o = p.fd[3]
    <3>1. f[0] = p.fd[3] /\ f[1] = p.fd[1] /\ f[2] = Console
        BY <1>7, <2>1, <2>3
    <3>2. Wiring(t, Anonymous(f[0]), Anonymous(f[1])) \subseteq Wiring(c, in, out)
        BY <1>12, <1>13, <2>3, <3>1
    <3> QED
        BY <1>8, <1>9, <1>11, <1>13, <2>1, <2>3, <3>1, <3>2 DEF OnPlan
  <2> QED
    BY <2>2, <2>3
<1>15. Planned(r)
    BY <1>7, <1>8, <1>14, TreePlanned
<1>16. Narrows(p, r)
    BY <1>2, <1>7, <1>8, SideNarrows
<1> QED
    BY <1>2, <1>5, <1>8, <1>15, <1>16, ChangeInv DEF Childless

LEMMA LeftInv == ASSUME ShellInv, NEW q \in Slot, Left(q) PROVE ShellInv' /\ TreeStep
<1>1. At(q, "left") /\ session' = session
    BY DEF Left
<1>5. /\ \E k : /\ proc[q].fd[3] = Open("r", k, proc[q].cmd.at)
                /\ proc[q].fd[4] = Open("w", k, proc[q].cmd.at)
      /\ session \in Seq(Line)
    BY <1>1, PipingFacts DEF Piping
<1>2. p0(q) = 3 /\ p1(q) = 4 /\ session' \in Seq(Line)
    BY <1>1, <1>5, PipeEnds
<1> DEFINE fd == proc[q].fd
<1>3. Changes(q, SetPcCmdFd(proc[q], "run", proc[q].cmd.left,
                            Close(Close(With(Close(fd, 1), fd[p1(q)]), p0(q)), p1(q))))
    BY DEF Left, Changes, SetPcCmdFd
<1>4. Changes(q, SetPcCmdFd(proc[q], "run", proc[q].cmd.left,
                            Close(Close(With(Close(fd, 1), fd[4]), 3), 4)))
    BY <1>2, <1>3
<1> QED
    BY <1>1, <1>2, <1>4, SideInv

LEMMA RightInv == ASSUME ShellInv, NEW q \in Slot, Right(q) PROVE ShellInv' /\ TreeStep
<1>1. At(q, "right") /\ session' = session
    BY DEF Right
<1>5. /\ \E k : /\ proc[q].fd[3] = Open("r", k, proc[q].cmd.at)
                /\ proc[q].fd[4] = Open("w", k, proc[q].cmd.at)
      /\ session \in Seq(Line)
    BY <1>1, PipingFacts DEF Piping
<1>2. p0(q) = 3 /\ p1(q) = 4 /\ session' \in Seq(Line)
    BY <1>1, <1>5, PipeEnds
<1> DEFINE fd == proc[q].fd
<1>3. Changes(q, SetPcCmdFd(proc[q], "run", proc[q].cmd.right,
                            Close(Close(With(Close(fd, 0), fd[p0(q)]), p0(q)), p1(q))))
    BY DEF Right, Changes, SetPcCmdFd
<1>4. Changes(q, SetPcCmdFd(proc[q], "run", proc[q].cmd.right,
                            Close(Close(With(Close(fd, 0), fd[3]), 3), 4)))
    BY <1>2, <1>3
<1> QED
    BY <1>1, <1>2, <1>4, SideInv

LEMMA RunBackInv == ASSUME ShellInv, NEW q \in Slot, RunBack(q) PROVE ShellInv' /\ TreeStep
<1>1. At(q, "run") /\ proc[q].cmd.type = "BACK" /\ session' = session
    BY DEF RunBack, Running
<1>2. /\ q # init /\ IsProc(proc[q]) /\ OnPlan(proc[q])
      /\ proc[q].fd = [d \in Fd |-> proc[q].fd[d]]
      /\ proc[q].fd[3] = None /\ proc[q].fd[4] = None
      /\ proc[q].st = "live" /\ proc[init].st = "live" /\ proc[q].pc = "run"
      /\ session' \in Seq(Line)
    BY <1>1, TreeFacts
<1> DEFINE p == proc[q]
           a == Becomes(p, "end", p.line, p.cmd, p.fd)
           b == Becomes(p, p.pc, p.line, p.cmd.cmd, p.fd)
<1>3. SetPc(p, "end") = a /\ SetCmd(p, p.cmd.cmd) = b
    BY <1>2, BecomesForms
<1>4. fork1(q, a, b)
    BY <1>3 DEF RunBack, SetPc, SetCmd
<1>5. /\ IsProc(a) /\ a.st = "live" /\ a.parent = p.parent /\ a.pc = "end" /\ a.cmd = p.cmd
      /\ a.fd = p.fd
      /\ IsProc(b) /\ b.st = "live" /\ b.pc = "run" /\ b.fd = p.fd /\ b.line = p.line
      /\ b.cmd = p.cmd.cmd
    BY <1>2, BecomesFields
<1> HIDE DEF a, b
<1>6. OnPlan(b)
    BY <1>1, <1>2, <1>5, PartOnPlan
<1>7. Planned(a) /\ Planned(b)
    BY <1>2, <1>5, <1>6, IdlePlanned, TreePlanned
<1>8. ForkFds(proc[q], a, b)
    BY <1>2, <1>5 DEF ForkFds, Piping
<1> QED
    BY <1>1, <1>2, <1>4, <1>5, <1>7, <1>8, Fork1Inv

LEMMA ShellInvStep == ShellInv /\ [ShellNext]_shellVars => ShellInv' /\ TreeStep
<1> SUFFICES ASSUME ShellInv, [ShellNext]_shellVars PROVE ShellInv' /\ TreeStep
    OBVIOUS
<1>1. CASE UNCHANGED shellVars
  <2>1. proc' = proc /\ session' = session
      BY <1>1 DEF shellVars
  <2>2. \A x : Children(x)' = Children(x)
      BY <2>1 DEF Children
  <2>3. FamilyInv'
    <3>1. InitFamily'
        BY <2>1, <2>2 DEF InitFamily, ShellInv, FamilyInv
    <3>2. ASSUME NEW x \in Slot \ {init} PROVE Family(x)'
        BY <2>1, <2>2, FamilyStays DEF ShellInv, FamilyInv
    <3> QED
        BY <3>1, <3>2 DEF FamilyInv
  <2>4. TreeStep
      BY <2>1, SameNarrows DEF TreeStep, Quiet
  <2> QED
      BY <2>1, <2>3, <2>4 DEF ShellInv, PlanInv
<1>2. CASE InitFork
    BY <1>2, InitForkInv
<1>3. CASE InitWait
    BY <1>3, InitWaitInv
<1>4. ASSUME NEW q \in Slot, ShellStep(q) PROVE ShellInv' /\ TreeStep
  <2>1. ASSUME NEW at, At(q, at), UNCHANGED session, exit(q) PROVE ShellInv' /\ TreeStep
      BY <2>1, LiveProc, ExitInv
  <2>2. CASE InitChild(q)
      BY <2>2, InitChildInv
  <2>3. CASE ShStart(q)
      BY <2>3, ShStartInv
  <2>4. CASE Prompt(q)
      BY <2>4, PromptInv
  <2>5. CASE ShFork(q)
      BY <2>5, ShForkInv
  <2>6. CASE ShWait(q)
      BY <2>6, LiveProc, WaitStepInv DEF ShWait
  <2>7. CASE Parse(q)
      BY <2>7, ParseInv
  <2>8. CASE RunExec(q)
      BY <2>8, RunExecInv
  <2>9. CASE RunRedir(q)
      BY <2>9, RunRedirInv
  <2>10. CASE RunList(q)
      BY <2>10, RunListInv
  <2>11. CASE ListWait(q)
      BY <2>11, ListWaitInv
  <2>12. CASE RunPipe(q)
      BY <2>12, RunPipeInv
  <2>13. CASE PipeLeft(q)
      BY <2>13, PipeLeftInv
  <2>14. CASE Left(q)
      BY <2>14, LeftInv
  <2>15. CASE PipeRight(q)
      BY <2>15, PipeRightInv
  <2>16. CASE Right(q)
      BY <2>16, RightInv
  <2>17. CASE PipeWait1(q)
      BY <2>17, LiveProc, WaitStepInv DEF PipeWait1
  <2>18. CASE PipeWait2(q)
      BY <2>18, LiveProc, WaitStepInv DEF PipeWait2
  <2>19. CASE RunBack(q)
      BY <2>19, RunBackInv
  <2>20. CASE EndRun(q)
      BY <2>1, <2>20 DEF EndRun
  <2>21. CASE ProgExit(q)
      BY <2>1, <2>21 DEF ProgExit
  <2> QED
      BY <1>4, <2>2, <2>3, <2>4, <2>5, <2>6, <2>7, <2>8, <2>9, <2>10, <2>11, <2>12, <2>13, <2>14,
         <2>15, <2>16, <2>17, <2>18, <2>19, <2>20, <2>21 DEF ShellStep
<1> QED
    BY <1>1, <1>2, <1>3, <1>4 DEF ShellNext

\* The invariant of the shell holds whatever is typed and whichever call fails,
\* for any number of slots and pipes.
THEOREM ShellInvariant == ShellSpec => []ShellInv
BY ShellInvInit, ShellInvStep, PTL DEF ShellSpec

\* Every program starts with the input and output that its place in the line
\* gives it, the console for errors and no other descriptor, for every tree of
\* commands (sh.c: runcmd).
THEOREM ProgramsWired == ShellSpec => []Wired
<1>1. ShellInv => Wired
  <2> SUFFICES ASSUME ShellInv, NEW q \in Slot, proc[q].pc = "prog"
               PROVE  LET p == proc[q] IN
                      /\ [argv |-> p.cmd.argv, in |-> Anonymous(p.fd[0]), out |-> Anonymous(p.fd[1])]
                           \in Wiring(parse(p.line), Console, Console)
                      /\ p.fd[2] = Console /\ \A d \in Fd : d > 2 => p.fd[d] = None
      BY DEF Wired
  <2> DEFINE p == proc[q]
             c == p.cmd
             in == Anonymous(p.fd[0])
             out == Anonymous(p.fd[1])
  <2>1. Planned(p)
      BY DEF ShellInv, PlanInv
  <2>2. OnPlan(p) /\ p.fd[3] = None /\ p.fd[4] = None
      BY <2>1, PlannedTreeIs
  <2>3. c \in CommandOf({"EXEC"}) /\ in \in File /\ out \in File
      BY <2>1, <2>2 DEF Planned, PlannedKind, OnPlan, CommandOf
  <2>4. Wiring(c, in, out) = {[argv |-> c.argv, in |-> in, out |-> out]}
    <3> HIDE DEF c, in, out
    <3> QED
      BY <2>3, WiringAssumption
  <2>5. [argv |-> c.argv, in |-> in, out |-> out] \in Wiring(parse(p.line), Console, Console)
      BY <2>2, <2>4 DEF OnPlan
  <2>6. p.fd[2] = Console /\ \A d \in Fd : d > 2 => p.fd[d] = None
      BY <2>2 DEF OnPlan, Fd
  <2> QED
      BY <2>5, <2>6
<1> QED
    BY <1>1, ShellInvariant, PTL

\* The prompt comes back when the line is done, and only "&" leaves a child
\* behind (sh.c:139, 184).
THEOREM PromptAfterLine == ShellSpec => []ForegroundDone
<1>1. ShellInv => ForegroundDone
  <2> SUFFICES ASSUME ShellInv, NEW q \in Slot
               PROVE  /\ proc[q].pc = "prompt" => Children(q) = {}
                      /\ proc[q].pc = "end" => Children(q) = {} \/ proc[q].cmd.type = "BACK"
      BY DEF ForegroundDone, Live
  <2> QED
      BY DEF ShellInv, FamilyInv, InitFamily, Family, Childless
<1> QED
    BY <1>1, ShellInvariant, PTL

\* Whoever calls wait() has a child, whichever fork() failed before (sh.c:104,
\* 132, 186, init.c:46).
THEOREM WaitFindsChild == ShellSpec => []WaitersHaveChildren
<1>1. ShellInv => WaitersHaveChildren
  <2> SUFFICES ASSUME ShellInv, NEW q \in Slot, proc[q].pc \in Waiting PROVE Children(q) # {}
      BY DEF WaitersHaveChildren, Live
  <2> QED
      BY DEF ShellInv, FamilyInv, InitFamily, Family, Waiting
<1> QED
    BY <1>1, ShellInvariant, PTL

-----------------------------------------------------------------------------
(* Nobody waits in a circle                                                *)

\* Ways to wait: for a process below, or for the other side of a pipe; all who
\* wait at one pipe wait on the same side of it.
Across(A, l, rd, k, s, t) ==
  \/ k \in rd /\ l[k] + 1 \in A[s] /\ l[k] \in A[t]
  \/ k \notin rd /\ l[k] \in A[s] /\ l[k] + 1 \in A[t]
Edge(A, l, rd, s, t) == Below(A, s, t) \/ \E k \in 1 .. NPipe : Across(A, l, rd, k, s, t)

\* No node is on both sides of a pipe.
LEMMA OneSide ==
  ASSUME NEW A, NEW B, NEW l, Forest(A, B), Sides(A, B, l), NEW k \in 1 .. NPipe,
         NEW t \in Nat, t < B
  PROVE  ~ (l[k] \in A[t] /\ l[k] + 1 \in A[t])
BY DEF Forest, Sides

\* The nodes below b in A[t] are those in A[b].
LEMMA Agree ==
  ASSUME NEW A, NEW B, Forest(A, B), NEW t \in Nat, t < B, NEW b \in A[t], NEW u \in Nat, u <= b
  PROVE  /\ b \in Nat /\ b <= t /\ b < B
         /\ u \in A[b] <=> u \in A[t]
BY DEF Forest

\* Who crosses a pipe inside the subtree of b is on a side below b.
LEMMA AcrossBelow ==
  ASSUME NEW A, NEW B, NEW l, Forest(A, B), Sides(A, B, l), NEW k \in 1 .. NPipe,
         NEW s \in Nat, s < B, NEW t \in Nat, t < B, NEW b, b \in A[s], b \in A[t],
         NEW x, NEW y, x \in A[s], y \in A[t],
         \/ x = l[k] + 1 /\ y = l[k]
         \/ x = l[k] /\ y = l[k] + 1
  PROVE  b < x /\ b < y /\ x \in Nat /\ y \in Nat /\ b \in Nat
<1>1. x \in Nat /\ y \in Nat /\ b \in Nat
    BY DEF Forest, Sides
<1>2. ASSUME x <= b PROVE FALSE
  <2>1. x \in A[b]
      BY <1>1, <1>2, Agree
  <2>2. x \in A[t]
      BY <1>1, <1>2, <2>1, Agree
  <2> QED
      BY <2>2, OneSide
<1>3. ASSUME y <= b PROVE FALSE
  <2>1. y \in A[b]
      BY <1>1, <1>3, Agree
  <2>2. y \in A[s]
      BY <1>1, <1>3, <2>1, Agree
  <2> QED
      BY <2>2, OneSide
<1> QED
    BY <1>1, <1>2, <1>3

\* c is the node on the way from b to t that follows b.
Follows(A, b, t, c) == b \in A[t] /\ c \in A[t] /\ b < c /\ \A u \in A[t] : b < u => c <= u

LEMMA SomeFollows ==
  ASSUME NEW A, NEW B, Forest(A, B), NEW t \in Nat, t < B, NEW b \in A[t], NEW x \in A[t], b < x
  PROVE  \E c \in Nat : Follows(A, b, t, c)
<1> DEFINE U == {u \in A[t] : b < u}
<1>1. U \subseteq Nat /\ U # {}
    BY DEF Forest
<1>2. PICK c \in U : \A u \in U : c <= u
  <2> HIDE DEF U
  <2> QED
    BY <1>1, Least
<1> QED
    BY <1>1, <1>2 DEF Follows

\* In a set of nodes where everybody waits for somebody of the set under b, and
\* not so under c, the node c that follows b is one side of a pipe, and the other
\* side of it follows b too.
LEMMA OtherSide ==
  ASSUME NEW A, NEW B, NEW l, NEW rd, Forest(A, B), Sides(A, B, l),
         NEW b \in Nat, NEW c \in Nat, NEW r \in Nat, r < B, Follows(A, b, r, c),
         NEW s \in Nat, s < B, c \in A[s], NEW t \in Nat, t < B, b \in A[t], c \notin A[t],
         Edge(A, l, rd, s, t)
  PROVE  \E k \in 1 .. NPipe :
           \/ k \in rd /\ c = l[k] + 1 /\ Follows(A, b, t, l[k])
           \/ k \notin rd /\ c = l[k] /\ Follows(A, b, t, l[k] + 1)
<1>1. b \in A[r] /\ c \in A[r] /\ b < c /\ \A u \in A[r] : b < u => c <= u
    BY DEF Follows
<1>2. b \in A[s]
  <2>1. b \in A[c]
      BY <1>1, Agree
  <2> QED
      BY <1>1, <2>1, Agree
<1>3. ASSUME NEW u \in A[s], b < u PROVE c <= u
  <2>1. u \in Nat
      BY DEF Forest
  <2>2. ASSUME u < c PROVE FALSE
    <3>1. u \in A[c]
        BY <2>1, <2>2, Agree
    <3>2. u \in A[r]
        BY <1>1, <2>1, <2>2, <3>1, Agree
    <3> QED
        BY <1>1, <1>3, <2>1, <2>2, <3>2
  <2> QED
      BY <2>1, <2>2
<1>4. ~ Below(A, s, t)
  <2> SUFFICES ASSUME Below(A, s, t) PROVE FALSE
      OBVIOUS
  <2>1. s \in A[t] /\ c <= s
      BY Agree DEF Below
  <2>2. c \in A[t]
      BY <2>1, Agree
  <2> QED
      BY <2>2
<1>5. PICK k \in 1 .. NPipe : Across(A, l, rd, k, s, t)
    BY <1>4 DEF Edge
<1>6. ASSUME NEW x, NEW y, x \in A[s], y \in A[t],
             \/ x = l[k] + 1 /\ y = l[k]
             \/ x = l[k] /\ y = l[k] + 1
      PROVE  c = x /\ Follows(A, b, t, y)
  <2>1. b < x /\ b < y /\ x \in Nat /\ y \in Nat
      BY <1>2, <1>6, AcrossBelow
  <2>2. c <= x
      BY <1>3, <1>6, <2>1
  <2>3. \A u \in Nat : u < l[k] => (u \in A[x] <=> u \in A[y])
      BY <1>6 DEF Sides
  <2>4. l[k] \in Nat
      BY DEF Sides
  <2>5. ASSUME c < x PROVE FALSE
    <3>1. c # y
        BY <1>6
    <3>2. c < l[k]
        BY <1>6, <2>1, <2>4, <2>5, <3>1
    <3>3. c \in A[x]
        BY <1>6, <2>1, <2>5, Agree
    <3>4. c \in A[y]
        BY <2>3, <3>2, <3>3
    <3>5. c < y
        BY <1>6, <3>2, <2>4
    <3> QED
        BY <1>6, <2>1, <3>4, <3>5, Agree
  <2>6. c = x
      BY <2>1, <2>2, <2>5
  <2>7. ASSUME NEW u \in A[t], b < u PROVE y <= u
    <3>1. u \in Nat
        BY DEF Forest
    <3>2. ASSUME u < y PROVE FALSE
      <4>1. u # x
          BY <1>6, OneSide
      <4>2. u < l[k]
          BY <1>6, <2>1, <2>4, <3>1, <3>2, <4>1
      <4>3. u \in A[y]
          BY <1>6, <2>1, <3>1, <3>2, Agree
      <4>4. u \in A[x] /\ u < x
          BY <1>6, <2>3, <2>4, <3>1, <4>2, <4>3
      <4>5. u \in A[s]
          BY <1>6, <2>1, <3>1, <4>4, Agree
      <4> QED
          BY <1>3, <2>1, <2>6, <2>7, <3>1, <4>4, <4>5
    <3> QED
        BY <2>1, <3>1, <3>2
  <2> QED
      BY <1>6, <2>1, <2>6, <2>7 DEF Follows
<1>7. CASE k \in rd /\ l[k] + 1 \in A[s] /\ l[k] \in A[t]
    BY <1>6, <1>7
<1>8. CASE k \notin rd /\ l[k] \in A[s] /\ l[k] + 1 \in A[t]
    BY <1>6, <1>8
<1> QED
    BY <1>5, <1>7, <1>8 DEF Across

\* Nodes where everybody waits for somebody do not exist.
LEMMA NoCircle ==
  ASSUME NEW A, NEW B, NEW l, NEW rd, Forest(A, B), Sides(A, B, l),
         NEW S, S # {}, S \subseteq Nat, \A s \in S : s < B,
         \A s \in S : \E t \in S : Edge(A, l, rd, s, t)
  PROVE  FALSE
<1> DEFINE Closed(b) == /\ \E s \in S : b \in A[s]
                        /\ \A s \in S : b \in A[s] => \E t \in S : b \in A[t] /\ Edge(A, l, rd, s, t)
           D == {n \in Nat : n <= B /\ Closed(B - n)}
<1>1. Closed(0)
    BY DEF Forest
<1>2. B \in Nat
    BY DEF Forest
<1> HIDE DEF Closed
<1>3. B \in D
    BY <1>1, <1>2
<1>4. PICK n \in D : \A m \in D : n <= m
  <2>1. D \subseteq Nat /\ D # {}
      BY <1>3
  <2> HIDE DEF D
  <2> QED
      BY <2>1, Least
<1>5. PICK b \in Nat : Closed(b) /\ \A c \in Nat : c <= B /\ b < c => ~ Closed(c)
  <2>1. B - n \in Nat /\ Closed(B - n)
      BY <1>2, <1>4
  <2>2. ASSUME NEW c \in Nat, c <= B, B - n < c, Closed(c) PROVE FALSE
    <3>1. B - c \in Nat /\ B - (B - c) = c /\ B - c <= B
        BY <1>2, <2>2
    <3>2. B - c \in D
        BY <2>2, <3>1
    <3>3. n <= B - c
        BY <1>4, <3>2
    <3> QED
        BY <1>2, <1>4, <2>2, <3>3
  <2> QED
      BY <2>1, <2>2
<1>6. ASSUME NEW r \in S, NEW c \in Nat, Follows(A, b, r, c)
      PROVE  \E t \in S : \E k \in 1 .. NPipe :
               \/ k \in rd /\ c = l[k] + 1 /\ Follows(A, b, t, l[k])
               \/ k \notin rd /\ c = l[k] /\ Follows(A, b, t, l[k] + 1)
  <2>1. r \in Nat /\ r < B /\ c \in A[r] /\ b < c /\ b \in A[r]
      BY <1>6 DEF Follows
  <2>2. c < B
      BY <2>1, Agree
  <2>3. ~ Closed(c)
      BY <1>2, <1>5, <2>1, <2>2
  <2>4. PICK s \in S : c \in A[s] /\ ~ \E t \in S : c \in A[t] /\ Edge(A, l, rd, s, t)
      BY <2>1, <2>3 DEF Closed
  <2>5. b \in A[s]
    <3>1. b \in A[c]
        BY <2>1, Agree
    <3> QED
        BY <2>1, <2>4, <3>1, Agree
  <2>6. PICK t \in S : b \in A[t] /\ Edge(A, l, rd, s, t)
      BY <1>5, <2>5 DEF Closed
  <2>7. c \notin A[t]
      BY <2>4, <2>6
  <2> QED
      BY <1>6, <2>1, <2>4, <2>6, <2>7, OtherSide
<1>7. \E r \in S : \E c \in Nat : Follows(A, b, r, c)
  <2>1. PICK s \in S : b \in A[s]
      BY <1>5 DEF Closed
  <2>2. PICK t \in S : b \in A[t] /\ Edge(A, l, rd, s, t)
      BY <1>5, <2>1 DEF Closed
  <2>3. s \in Nat /\ s < B /\ t \in Nat /\ t < B
      OBVIOUS
  <2>4. \E x \in A[t] : b < x
    <3>1. CASE Below(A, s, t)
      <4>1. s \in A[t] /\ s # t /\ t \in A[t]
          BY <2>3, <3>1 DEF Below, Forest
      <4>2. b <= s /\ s <= t
          BY <2>1, <2>3, <4>1, Agree
      <4> QED
          BY <2>3, <4>1, <4>2
    <3>2. ASSUME NEW k \in 1 .. NPipe, Across(A, l, rd, k, s, t) PROVE \E x \in A[t] : b < x
      BY <2>1, <2>2, <2>3, <3>2, AcrossBelow DEF Across
    <3> QED
      BY <2>2, <3>1, <3>2 DEF Edge
  <2> QED
      BY <2>2, <2>3, <2>4, SomeFollows
<1>8. \E t \in S : \E k \in 1 .. NPipe :
               \/ k \in rd /\ Follows(A, b, t, l[k])
               \/ k \notin rd /\ Follows(A, b, t, l[k] + 1)
    BY <1>6, <1>7
<1>9. PICK t \in S : \E k \in 1 .. NPipe :
               \/ k \in rd /\ Follows(A, b, t, l[k])
               \/ k \notin rd /\ Follows(A, b, t, l[k] + 1)
    BY <1>8
<1>10. PICK k \in 1 .. NPipe :
               \/ k \in rd /\ Follows(A, b, t, l[k])
               \/ k \notin rd /\ Follows(A, b, t, l[k] + 1)
    BY <1>9
<1>11. l \in [1 .. NPipe -> Nat]
    BY DEF Sides
<1>12. l[k] \in Nat /\ l[k] + 1 \in Nat
    BY <1>11
<1>13. CASE k \in rd /\ Follows(A, b, t, l[k])
  <2>1. PICK j \in 1 .. NPipe : (j \in rd /\ l[k] = l[j] + 1) \/ (j \notin rd /\ l[k] = l[j])
    <3>1. \E u \in S : \E j \in 1 .. NPipe :
            \/ j \in rd /\ l[k] = l[j] + 1 /\ Follows(A, b, u, l[j])
            \/ j \notin rd /\ l[k] = l[j] /\ Follows(A, b, u, l[j] + 1)
        BY <1>6, <1>12, <1>13, Zenon
    <3> QED
        BY <1>11, <3>1
  <2>2. l[j] \in Nat /\ j # k
    <3>1. l[j] # l[j] + 1
        BY <1>11
    <3> QED
        BY <1>11, <1>13, <2>1, <3>1
  <2>3. l[k] # l[j] /\ l[k] # l[j] + 1
      BY <2>2 DEF Sides
  <2> QED
      BY <2>1, <2>3
<1>14. CASE k \notin rd /\ Follows(A, b, t, l[k] + 1)
  <2>1. PICK j \in 1 .. NPipe : (j \in rd /\ l[k] + 1 = l[j] + 1) \/ (j \notin rd /\ l[k] + 1 = l[j])
    <3>1. \E u \in S : \E j \in 1 .. NPipe :
            \/ j \in rd /\ l[k] + 1 = l[j] + 1 /\ Follows(A, b, u, l[j])
            \/ j \notin rd /\ l[k] + 1 = l[j] /\ Follows(A, b, u, l[j] + 1)
        BY <1>6, <1>12, <1>14, Zenon
    <3> QED
        BY <1>11, <3>1
  <2>2. l[j] \in Nat /\ j # k
    <3>1. l[k] # l[k] + 1
        BY <1>12
    <3> QED
        BY <1>11, <1>14, <2>1, <3>1
  <2>3. l[j] # l[k] /\ l[j] # l[k] + 1
      BY <2>2 DEF Sides
  <2> QED
      BY <1>12, <2>1, <2>2, <2>3
<1> QED
    BY <1>10, <1>13, <1>14
\* The tree at the start: init is the root.  The sides of the pipes, which do not
\* exist yet, are other nodes.
LEMMA HangInit == ShellInit => HangInv
<1> SUFFICES ASSUME ShellInit PROVE HangInv
    OBVIOUS
<1> DEFINE A == [t \in Nat |-> {0, t}]
           B == 2 * NPipe + 1
           l == [k \in 1 .. NPipe |-> 2 * k - 1]
           at == [k \in 1 .. NPipe |-> 0]
           node == [q \in Slot |-> 0]
<1>1. NPipe \in Nat
    BY ShellAssumption
<1>2. Forest(A, B)
    BY <1>1 DEF Forest
<1>3. Sides(A, B, l)
  <2>1. ASSUME NEW k \in 1 .. NPipe
        PROVE  /\ l[k] = 2 * k - 1 /\ l[k] \in Nat /\ 0 < l[k] /\ l[k] + 1 < B
               /\ A[l[k]] = {0, l[k]} /\ A[l[k] + 1] = {0, l[k] + 1}
      BY <1>1
  <2>2. ASSUME NEW j \in 1 .. NPipe, NEW k \in 1 .. NPipe, j # k
        PROVE  l[j] # l[k] /\ l[j] # l[k] + 1
      BY <1>1, <2>1, <2>2
  <2>3. l \in [1 .. NPipe -> Nat]
      BY <1>1
  <2> HIDE DEF A, B, l
  <2>4. ASSUME NEW k \in 1 .. NPipe
        PROVE  /\ 0 < l[k] /\ l[k] + 1 < B /\ l[k] \notin A[l[k] + 1]
               /\ \A u \in Nat : u < l[k] => (u \in A[l[k]] <=> u \in A[l[k] + 1])
    <3>1. ASSUME NEW x \in Nat, 0 < x
          PROVE  /\ x \notin {0, x + 1}
                 /\ \A u \in Nat : u < x => (u \in {0, x} <=> u \in {0, x + 1})
        BY <3>1
    <3>2. /\ l[k] \in Nat /\ 0 < l[k] /\ l[k] + 1 < B
          /\ A[l[k]] = {0, l[k]} /\ A[l[k] + 1] = {0, l[k] + 1}
        BY <2>1
    <3> QED
        BY <3>1, <3>2
  <2> QED
      BY <2>2, <2>3, <2>4 DEF Sides
<1>4. node \in [Slot -> Nat] /\ node[init] = 0
    BY InitInSlot
<1>5. \A q \in Live : q = init
    BY DEF Live, ShellInit, Unused
<1>6. /\ proc[init].pc = "init" /\ proc[init].fd = Standard /\ proc[init].parent = 0
  <2>1. ShellInv
      BY ShellInvInit
  <2>2. proc[init].pc # "none" /\ proc[init].pc = "init"
      BY InitInSlot, UnusedIsProc DEF ShellInit, IsProc
  <2> QED
      BY <2>1, <2>2, InitInSlot DEF ShellInv, PlanInv, FamilyInv, InitFamily, Planned, PlannedMain
<1>7. Settled(proc[init], A, 0, l, at)
  <2>1. \A d \in Fd : Standard[d].kind \notin {"r", "w"}
      BY DEF Standard, Console, None, Open
  <2> HIDE DEF A, l, at
  <2> QED
      BY <1>6, <2>1 DEF Settled, Held, Piping
<1>8. 0 \in Nat /\ 0 < B /\ init # 0
    BY <1>1 DEF init
<1> HIDE DEF A, B, l, at, node
<1>9. Placed(A, B, l, at, node)
    BY <1>2, <1>3, <1>4, <1>5, <1>6, <1>7, <1>8 DEF Placed
<1> QED
    BY <1>9 DEF HangInv

LEMMA QuietHang ==
  ASSUME ShellInv', Quiet, HangInv
  PROVE  HangInv'
<1>1. PICK A, B, l, at, node : Placed(A, B, l, at, node)
    BY DEF HangInv
<1>2. Live' \subseteq Live
    BY DEF Quiet, Live
<1>3. ASSUME NEW q \in Live'
      PROVE  /\ node[q] < B /\ (q # init => node[q] # 0)
             /\ Settled(proc'[q], A, node[q], l, at)
    BY <1>1, <1>2 DEF Placed, Quiet, Narrows, Live
<1>4. ASSUME NEW q \in Live', NEW c \in Live', proc'[c].parent = q
      PROVE  Below(A, node[q], node[c])
  <2>1. q \in Live /\ c \in Live
      BY <1>2
  <2>2. CASE proc[c].parent = q
      BY <1>1, <2>1, <2>2 DEF Placed
  <2>3. CASE q = init
    <3>1. c # init
        BY <1>4, <2>3, InitInSlot DEF ShellInv, FamilyInv, InitFamily, init
    <3>2. node[c] \in Nat /\ node[c] < B /\ node[c] # 0 /\ node[init] = 0
        BY <1>1, <2>1, <3>1 DEF Placed, Live
    <3> QED
        BY <1>1, <2>3, <3>2 DEF Placed, Forest, Below
  <2> QED
      BY <1>4, <2>2, <2>3 DEF Quiet, Live
<1>5. Placed(A, B, l, at, node)'
    BY <1>1, <1>3, <1>4 DEF Placed
<1> QED
    BY <1>5 DEF HangInv

\* A new node n = B below t, and the places of the others.
Grown(A, B, t) == [x \in Nat |-> IF x = B THEN A[t] \cup {B} ELSE A[x]]

LEMMA GrownForest ==
  ASSUME NEW A, NEW B, Forest(A, B), NEW t \in Nat, t < B
  PROVE  /\ Forest(Grown(A, B, t), B + 1)
         /\ \A x \in Nat : x < B => Grown(A, B, t)[x] = A[x]
         /\ Grown(A, B, t)[B] = A[t] \cup {B} /\ B \notin A[t]
<1> DEFINE G == Grown(A, B, t)
<1>1. B \in Nat /\ A \in [Nat -> SUBSET Nat]
    BY DEF Forest
<1>2. G \in [Nat -> SUBSET Nat] /\ G[B] = A[t] \cup {B} /\ \A x \in Nat : x < B => G[x] = A[x]
    BY <1>1 DEF Grown
<1>3. B \notin A[t]
    BY <1>1 DEF Forest
<1> HIDE DEF G
<1>4. ASSUME NEW y \in Nat, y < B
      PROVE  /\ 0 \in G[y] /\ y \in G[y]
             /\ \A s \in G[y] : s <= y /\ \A u \in Nat : u <= s => (u \in G[s] <=> u \in G[y])
  <2>1. ASSUME NEW s \in A[y]
        PROVE  s <= y /\ \A u \in Nat : u <= s => (u \in G[s] <=> u \in A[y])
    <3>1. s \in Nat /\ s <= y /\ s < B
        BY <1>1, <1>4 DEF Forest
    <3>2. G[s] = A[s]
        BY <1>2, <3>1
    <3> QED
        BY <1>4, <3>1, <3>2 DEF Forest
  <2>2. G[y] = A[y] /\ 0 \in A[y] /\ y \in A[y]
      BY <1>2, <1>4 DEF Forest
  <2> QED
      BY <2>1, <2>2
<1>5. /\ 0 \in G[B] /\ B \in G[B]
      /\ \A s \in G[B] : s <= B /\ \A u \in Nat : u <= s => (u \in G[s] <=> u \in G[B])
  <2>1. 0 \in A[t]
      BY DEF Forest
  <2>2. ASSUME NEW s \in A[t]
        PROVE  s <= B /\ \A u \in Nat : u <= s => (u \in G[s] <=> u \in G[B])
    <3>1. s \in Nat /\ s <= t /\ s < B
        BY <1>1 DEF Forest
    <3>2. G[s] = A[s]
        BY <1>2, <3>1
    <3>3. ASSUME NEW u \in Nat, u <= s PROVE u \in A[s] <=> u \in G[B]
      <4>1. u # B
          BY <1>1, <3>1, <3>3
      <4>2. u \in A[s] <=> u \in A[t]
          BY <3>3 DEF Forest
      <4> QED
          BY <1>2, <4>1, <4>2
    <3> QED
        BY <1>1, <3>1, <3>2, <3>3
  <2> QED
      BY <1>1, <1>2, <2>1, <2>2
<1>6. ASSUME NEW y \in Nat, y < B + 1
      PROVE  /\ 0 \in G[y] /\ y \in G[y]
             /\ \A s \in G[y] : s <= y /\ \A u \in Nat : u <= s => (u \in G[s] <=> u \in G[y])
  <2>1. y < B \/ y = B
      BY <1>1, <1>6
  <2> QED
      BY <1>4, <1>5, <2>1
<1>7. Forest(G, B + 1)
    BY <1>1, <1>2, <1>6 DEF Forest
<1> QED
    BY <1>2, <1>3, <1>7 DEF G

LEMMA GrownSides ==
  ASSUME NEW A, NEW B, NEW G, NEW l, NEW C \in Nat, Sides(A, B, l), B \in Nat, B <= C,
         \A x \in Nat : x < B => G[x] = A[x]
  PROVE  Sides(G, C, l)
<1>1. ASSUME NEW k \in 1 .. NPipe
      PROVE  /\ 0 < l[k] /\ l[k] + 1 < C /\ l[k] \notin G[l[k] + 1]
             /\ \A u \in Nat : u < l[k] => (u \in G[l[k]] <=> u \in G[l[k] + 1])
  <2>1. /\ l[k] \in Nat /\ 0 < l[k] /\ l[k] + 1 < B /\ l[k] \notin A[l[k] + 1]
        /\ \A u \in Nat : u < l[k] => (u \in A[l[k]] <=> u \in A[l[k] + 1])
      BY DEF Sides
  <2>2. G[l[k]] = A[l[k]] /\ G[l[k] + 1] = A[l[k] + 1]
      BY <2>1
  <2> QED
      BY <2>1, <2>2
<1> QED
    BY <1>1 DEF Sides

\* What is settled stays so when nodes are added.
LEMMA GrownSettled ==
  ASSUME NEW A, NEW B, NEW G, NEW l, NEW at, Sides(A, B, l), B \in Nat,
         \A x \in Nat : x < B => G[x] = A[x],
         NEW p, NEW t \in Nat, t < B, Settled(p, A, t, l, at)
  PROVE  Settled(p, G, t, l, at)
<1>1. G[t] = A[t]
    OBVIOUS
<1>2. \A o : Held(o, A, t, l, at) => Held(o, G, t, l, at)
    BY <1>1 DEF Held
<1>3. ASSUME NEW k \in 1 .. NPipe, Beside(p.pc, A, t, l[k]) PROVE Beside(p.pc, G, t, l[k])
  <2>1. l[k] \in Nat /\ l[k] + 1 < B /\ l[k] < B
      BY DEF Sides
  <2>2. G[l[k]] = A[l[k]] /\ G[l[k] + 1] = A[l[k] + 1]
      BY <2>1
  <2> QED
      BY <1>1, <1>3, <2>2 DEF Beside
<1> QED
    BY <1>2, <1>3 DEF Settled

\* The child of a fork() comes to the node m.
LEMMA ForkPlaced ==
  ASSUME NEW A, NEW B, NEW l, NEW at, NEW node, Placed(A, B, l, at, node),
         NEW G, NEW C, Forest(G, C), Sides(G, C, l), B <= C, \A x \in Nat : x < B => G[x] = A[x],
         NEW q \in Slot, NEW n \in Slot, Forks(q, n), Children(n) = {},
         NEW m \in Nat, m < C, m # 0, Below(G, node[q], m),
         Settled(proc'[q], G, node[q], l, at), Settled(proc'[n], G, m, l, at)
  PROVE  HangInv'
<1> DEFINE node2 == [x \in Slot |-> IF x = n THEN m ELSE node[x]]
<1>1. /\ Forest(A, B) /\ Sides(A, B, l) /\ node \in [Slot -> Nat] /\ node[init] = 0
      /\ B \in Nat /\ C \in Nat
    BY DEF Placed, Forest
<1>2. node2 \in [Slot -> Nat] /\ node2[init] = 0 /\ node2[n] = m /\ \A x \in Slot : x # n => node2[x] = node[x]
    BY <1>1, InitInSlot DEF Forks
<1>3. Live' = Live \cup {n} /\ n \notin Live /\ q \in Live
    BY DEF Live, Forks
<1> HIDE DEF node2
<1>4. ASSUME NEW x \in Live
      PROVE  /\ x \in Slot /\ x # n /\ node2[x] = node[x] /\ node[x] < B /\ node[x] < C
             /\ (x # init => node[x] # 0) /\ Settled(proc[x], G, node[x], l, at)
             /\ node[x] \in Nat /\ G[node[x]] = A[node[x]]
  <2>1. x \in Slot /\ x # n
      BY <1>3 DEF Live
  <2>2. /\ node[x] \in Nat /\ node[x] < B /\ (x # init => node[x] # 0)
        /\ Settled(proc[x], A, node[x], l, at)
      BY <1>1, <2>1 DEF Placed
  <2>3. Settled(proc[x], G, node[x], l, at)
      BY <1>1, <2>2, GrownSettled
  <2> QED
      BY <1>1, <1>2, <2>1, <2>2, <2>3
<1>5. ASSUME NEW x \in Live'
      PROVE  node2[x] < C /\ (x # init => node2[x] # 0) /\ Settled(proc'[x], G, node2[x], l, at)
  <2>1. CASE x = n
      BY <1>2, <2>1
  <2>2. CASE x = q
      BY <1>3, <1>4, <2>2
  <2>3. CASE x # n /\ x # q
    <3>1. x \in Live /\ proc'[x] = proc[x]
        BY <1>3, <2>3 DEF Forks, Live
    <3> QED
        BY <1>4, <3>1
  <2> QED
      BY <2>1, <2>2, <2>3
<1>6. ASSUME NEW x \in Live', NEW c \in Live', proc'[c].parent = x
      PROVE  Below(G, node2[x], node2[c])
  <2>1. CASE c = n
    <3>1. x = q
        BY <1>6, <2>1 DEF Forks
    <3> QED
        BY <1>2, <1>3, <1>4, <2>1, <3>1
  <2>2. CASE c # n
    <3>1. c \in Live /\ proc[c].parent = x
        BY <1>3, <1>6, <2>2 DEF Forks, Live
    <3>2. x # n
        BY <3>1 DEF Children, Live
    <3>3. x \in Live
        BY <1>3, <3>2
    <3>4. Below(A, node[x], node[c])
        BY <3>1, <3>3 DEF Placed
    <3> QED
        BY <1>4, <3>1, <3>3, <3>4 DEF Below
  <2> QED
      BY <2>1, <2>2
<1>7. Placed(G, C, l, at, node2)'
    BY <1>2, <1>5, <1>6 DEF Placed
<1> QED
    BY <1>7 DEF HangInv

LEMMA ForksHang ==
  ASSUME ShellInv, NEW q \in Slot, NEW n \in Slot, Forks(q, n), HangInv
  PROVE  HangInv'
<1>1. PICK A, B, l, at, node : Placed(A, B, l, at, node)
    BY DEF HangInv
<1>2. /\ Forest(A, B) /\ Sides(A, B, l) /\ B \in Nat /\ B <= B /\ node[q] \in Nat /\ node[q] < B
      /\ Settled(proc[q], A, node[q], l, at) /\ node[q] \in A[node[q]]
    BY <1>1 DEF Placed, Forest, Forks, Live
<1>3. Children(n) = {}
  <2>1. n \in Slot \ {init} /\ Planned(proc[n]) /\ Family(n) /\ proc[n].st = "free"
      BY DEF Forks, ShellInv, PlanInv, FamilyInv
  <2>2. proc[n].pc = "none"
      BY <2>1 DEF Planned, IsProc
  <2> QED
      BY <2>1, <2>2 DEF Family
<1> DEFINE p == proc[q]
           a == proc'[q]
           b == proc'[n]
           t == node[q]
<1>4. b.fd = p.fd
    BY DEF Forks, ForkFds
<1>5. CASE p.pc \notin Piping /\ a.pc \notin Piping /\ b.pc \notin Piping /\ a.fd = p.fd
  <2> DEFINE G == Grown(A, B, t)
  <2>1. /\ Forest(G, B + 1) /\ \A x \in Nat : x < B => G[x] = A[x]
        /\ G[B] = A[t] \cup {B} /\ B \notin A[t]
      BY <1>2, GrownForest
  <2> HIDE DEF G
  <2>2. Sides(G, B + 1, l)
      BY <1>2, <2>1, GrownSides
  <2>3. \A d \in Fd : Held(p.fd[d], A, t, l, at)
      BY <1>2, <1>5 DEF Settled
  <2>4. G[t] = A[t] /\ A[t] \subseteq G[B]
      BY <1>2, <2>1
  <2>5. \A d \in Fd : Held(p.fd[d], G, t, l, at) /\ Held(p.fd[d], G, B, l, at)
      BY <2>3, <2>4 DEF Held
  <2>6. Settled(a, G, t, l, at) /\ Settled(b, G, B, l, at)
      BY <1>4, <1>5, <2>5 DEF Settled
  <2>7. Below(G, t, B) /\ B # 0 /\ B < B + 1 /\ B <= B + 1
      BY <1>2, <2>1 DEF Below
  <2> QED
      BY <1>1, <1>2, <1>3, <2>1, <2>2, <2>6, <2>7, ForkPlaced
<1>6. ASSUME p.pc \in Piping
      PROVE  /\ \A d \in Fd : d < 3 => Held(p.fd[d], A, t, l, at)
             /\ \E k \in 1 .. NPipe :
                  /\ p.fd[3] = Open("r", k, at[k]) /\ p.fd[4] = Open("w", k, at[k])
                  /\ Beside(p.pc, A, t, l[k])
    BY <1>2, <1>6 DEF Settled
<1>7. CASE p.pc = "pipeleft" /\ a.pc = "pipe2" /\ b.pc = "left" /\ a.fd = p.fd
  <2>1. PICK k \in 1 .. NPipe :
          /\ p.fd[3] = Open("r", k, at[k]) /\ p.fd[4] = Open("w", k, at[k])
          /\ Beside(p.pc, A, t, l[k])
      BY <1>6, <1>7 DEF Piping
  <2>2. l[k] \in Nat /\ 0 < l[k] /\ l[k] < B
      BY <1>2 DEF Sides
  <2>3. A[l[k]] = A[t] \cup {l[k]} /\ l[k] \notin A[t]
      BY <1>7, <2>1 DEF Beside
  <2>4. Below(A, t, l[k])
      BY <1>2, <2>3 DEF Below
  <2>5. Settled(a, A, t, l, at)
    <3>1. Beside(a.pc, A, t, l[k])
        BY <1>7, <2>1 DEF Beside
    <3> QED
        BY <1>6, <1>7, <2>1, <3>1 DEF Settled, Piping
  <2>6. Settled(b, A, l[k], l, at)
    <3>1. Beside(b.pc, A, l[k], l[k])
        BY <1>7, <2>3 DEF Beside
    <3>2. \A d \in Fd : d < 3 => Held(p.fd[d], A, l[k], l, at)
        BY <1>6, <1>7, <2>3 DEF Held, Piping
    <3> QED
        BY <1>4, <1>7, <2>1, <3>1, <3>2 DEF Settled, Piping
  <2> QED
      BY <1>1, <1>2, <1>3, <2>2, <2>4, <2>5, <2>6, ForkPlaced
<1>8. CASE p.pc = "pipe2" /\ a.pc = "wait1" /\ b.pc = "right"
           /\ a.fd = [e \in Fd |-> IF e \in {3, 4} THEN None ELSE p.fd[e]]
  <2>1. PICK k \in 1 .. NPipe :
          /\ p.fd[3] = Open("r", k, at[k]) /\ p.fd[4] = Open("w", k, at[k])
          /\ Beside(p.pc, A, t, l[k])
      BY <1>6, <1>8 DEF Piping
  <2> DEFINE m == l[k] + 1
  <2>2. l[k] \in Nat /\ m \in Nat /\ m # 0 /\ m < B
      BY <1>2 DEF Sides
  <2>3. A[m] = A[t] \cup {m} /\ m \notin A[t]
      BY <1>8, <2>1 DEF Beside
  <2>4. Below(A, t, m)
      BY <1>2, <2>3 DEF Below
  <2>5. Settled(a, A, t, l, at)
    <3>1. Held(None, A, t, l, at)
        BY DEF Held, None, Open
    <3>2. \A d \in Fd : Held(a.fd[d], A, t, l, at)
        BY <1>6, <1>8, <3>1 DEF Piping, Fd
    <3> QED
        BY <1>8, <3>2 DEF Settled, Piping
  <2>6. Settled(b, A, m, l, at)
    <3>1. Beside(b.pc, A, m, l[k])
        BY <1>8, <2>3 DEF Beside
    <3>2. \A d \in Fd : d < 3 => Held(p.fd[d], A, m, l, at)
        BY <1>6, <1>8, <2>3 DEF Held, Piping
    <3> HIDE DEF m
    <3> QED
        BY <1>4, <1>8, <2>1, <3>1, <3>2 DEF Settled, Piping
  <2> HIDE DEF m
  <2> QED
      BY <1>1, <1>2, <1>3, <2>2, <2>4, <2>5, <2>6, ForkPlaced
<1> QED
    BY <1>5, <1>7, <1>8 DEF Forks, ForkFds

\* A pipe that nobody has can get a new place.
Without(p, k) == \A d \in Fd : p.fd[d].id # k \/ p.fd[d].kind \notin {"r", "w"}
SameBut(k, f, g) == \A j \in 1 .. NPipe : j # k => g[j] = f[j]

LEMMA UnusedPipe ==
  ASSUME NEW p, NEW A, NEW t, NEW l, NEW at, NEW l2, NEW at2, NEW k, Settled(p, A, t, l, at),
         SameBut(k, l, l2), SameBut(k, at, at2), Without(p, k)
  PROVE  Settled(p, A, t, l2, at2)
<1>1. ASSUME NEW d \in Fd, Held(p.fd[d], A, t, l, at) PROVE Held(p.fd[d], A, t, l2, at2)
    BY <1>1 DEF Held, SameBut, Without
<1>2. ASSUME p.pc \in Piping
      PROVE  \E j \in 1 .. NPipe :
               /\ p.fd[3] = Open("r", j, at2[j]) /\ p.fd[4] = Open("w", j, at2[j])
               /\ Beside(p.pc, A, t, l2[j])
  <2>1. PICK j \in 1 .. NPipe :
               /\ p.fd[3] = Open("r", j, at[j]) /\ p.fd[4] = Open("w", j, at[j])
               /\ Beside(p.pc, A, t, l[j])
      BY <1>2 DEF Settled
  <2>2. p.fd[3].id = j /\ p.fd[3].kind = "r" /\ 3 \in Fd
      BY <2>1 DEF Open, Fd
  <2>3. j # k
      BY <2>2 DEF Without
  <2> QED
      BY <2>1, <2>3 DEF SameBut
<1> QED
    BY <1>1, <1>2 DEF Settled

LEMMA PipesHang ==
  ASSUME ShellInv, NEW q \in Slot, NEW k, Pipes(q, k), HangInv
  PROVE  HangInv'
<1>1. PICK A, B, l, at, node : Placed(A, B, l, at, node)
    BY DEF HangInv
<1>2. PICK y : proc'[q].fd = [e \in Fd |-> IF e = 3 THEN Open("r", k, y)
                                           ELSE IF e = 4 THEN Open("w", k, y) ELSE proc[q].fd[e]]
    BY DEF Pipes
<1>3. /\ Forest(A, B) /\ Sides(A, B, l) /\ B \in Nat /\ node \in [Slot -> Nat] /\ node[init] = 0
      /\ q \in Live /\ node[q] \in Nat /\ node[q] < B /\ Settled(proc[q], A, node[q], l, at)
    BY <1>1 DEF Placed, Forest, Pipes, Live
<1>4. /\ k \in 1 .. NPipe
      /\ \A x \in Slot : \A d \in Fd : proc[x].fd[d].id # k \/ proc[x].fd[d].kind \notin {"r", "w"}
    BY DEF Pipes, PipeIds
<1> DEFINE t == node[q]
           H == Grown(A, B, t)
<1>5. /\ Forest(H, B + 1) /\ \A x \in Nat : x < B => H[x] = A[x]
      /\ H[B] = A[t] \cup {B} /\ B \notin A[t]
  <2>1. Forest(A, B) /\ t \in Nat /\ t < B
      BY <1>3
  <2> HIDE DEF t
  <2> QED
      BY <2>1, GrownForest, SMTT(40)
<1> HIDE DEF H
<1> DEFINE G == Grown(H, B + 1, t)
           C == B + 1 + 1
           l2 == [j \in 1 .. NPipe |-> IF j = k THEN B ELSE l[j]]
           at2 == [j \in 1 .. NPipe |-> IF j = k THEN y ELSE at[j]]
<1>6. t \in Nat /\ t < B + 1
    BY <1>3
<1>7. /\ Forest(G, C) /\ \A x \in Nat : x < B + 1 => G[x] = H[x]
      /\ G[B + 1] = H[t] \cup {B + 1} /\ B + 1 \notin H[t]
    BY <1>5, <1>6, GrownForest
<1> HIDE DEF G
<1>8. /\ \A x \in Nat : x < B => G[x] = A[x]
      /\ G[B] = A[t] \cup {B} /\ G[B + 1] = A[t] \cup {B + 1} /\ G[t] = A[t]
      /\ B \notin A[t] /\ B + 1 \notin A[t]
    BY <1>3, <1>5, <1>7
<1>9. /\ l2[k] = B /\ at2[k] = y /\ \A j \in 1 .. NPipe : j # k => l2[j] = l[j] /\ at2[j] = at[j]
      /\ l2 \in [1 .. NPipe -> Nat]
    BY <1>3, <1>4 DEF Sides
<1> HIDE DEF l2, at2
<1>10. Sides(G, C, l2)
  <2>1. ASSUME NEW j \in 1 .. NPipe, j # k
        PROVE  /\ l[j] \in Nat /\ 0 < l[j] /\ l[j] + 1 < B /\ l[j] + 1 < C /\ l[j] \notin G[l[j] + 1]
               /\ \A u \in Nat : u < l[j] => (u \in G[l[j]] <=> u \in G[l[j] + 1])
    <3>1. /\ l[j] \in Nat /\ 0 < l[j] /\ l[j] + 1 < B /\ l[j] \notin A[l[j] + 1]
          /\ \A u \in Nat : u < l[j] => (u \in A[l[j]] <=> u \in A[l[j] + 1])
        BY <1>3 DEF Sides
    <3>2. G[l[j]] = A[l[j]] /\ G[l[j] + 1] = A[l[j] + 1]
        BY <1>3, <1>8, <3>1
    <3> QED
        BY <1>3, <3>1, <3>2
  <2>2. /\ 0 < B /\ B + 1 < C /\ B \notin G[B + 1]
        /\ \A u \in Nat : u < B => (u \in G[B] <=> u \in G[B + 1])
    <3>1. B # B + 1 /\ B + 1 < C /\ 0 < B
        BY <1>3
    <3>2. \A u \in Nat : u < B => u # B /\ u # B + 1
        BY <1>3
    <3> QED
        BY <1>8, <3>1, <3>2
  <2>3. ASSUME NEW j \in 1 .. NPipe
        PROVE  /\ 0 < l2[j] /\ l2[j] + 1 < C /\ l2[j] \notin G[l2[j] + 1]
               /\ \A u \in Nat : u < l2[j] => (u \in G[l2[j]] <=> u \in G[l2[j] + 1])
    <3>1. CASE j = k
        BY <1>9, <2>2, <3>1
    <3>2. CASE j # k
        BY <1>9, <2>1, <3>2
    <3> QED
        BY <3>1, <3>2
  <2>4. ASSUME NEW i \in 1 .. NPipe, NEW j \in 1 .. NPipe, i # j
        PROVE  l2[i] # l2[j] /\ l2[i] # l2[j] + 1
    <3>1. CASE i = k
      <4>1. l[j] \in Nat /\ l[j] + 1 < B
          BY <2>1, <2>4, <3>1
      <4> QED
          BY <1>3, <1>9, <2>4, <3>1, <4>1
    <3>2. CASE j = k
      <4>1. l[i] \in Nat /\ l[i] + 1 < B
          BY <2>1, <2>4, <3>2
      <4> QED
          BY <1>3, <1>9, <2>4, <3>2, <4>1
    <3>3. CASE i # k /\ j # k
        BY <1>3, <1>9, <2>4, <3>3 DEF Sides
    <3> QED
        BY <3>1, <3>2, <3>3
  <2> QED
      BY <1>9, <2>3, <2>4 DEF Sides
<1>11. Live' = Live
    BY DEF Live, Pipes
<1>12. ASSUME NEW x \in Live
       PROVE  /\ x \in Slot /\ node[x] \in Nat /\ node[x] < B /\ node[x] < C
              /\ (x # init => node[x] # 0) /\ Settled(proc[x], G, node[x], l2, at2)
              /\ G[node[x]] = A[node[x]]
  <2>1. x \in Slot
      BY DEF Live
  <2>2. /\ node[x] \in Nat /\ node[x] < B /\ (x # init => node[x] # 0)
        /\ Settled(proc[x], A, node[x], l, at)
      BY <1>1, <1>3, <2>1 DEF Placed
  <2>3. Settled(proc[x], G, node[x], l, at)
      BY <1>3, <1>8, <2>2, GrownSettled
  <2>4. Settled(proc[x], G, node[x], l2, at2)
    <3>1. Without(proc[x], k)
        BY <1>4, <2>1 DEF Without
    <3>2. SameBut(k, l, l2) /\ SameBut(k, at, at2)
        BY <1>9 DEF SameBut
    <3> QED
        BY <2>3, <3>1, <3>2, UnusedPipe
  <2> QED
      BY <1>3, <1>8, <2>1, <2>2, <2>4
<1>13. Settled(proc'[q], G, t, l2, at2)
  <2>1. \A d \in Fd : d < 3 => Held(proc'[q].fd[d], G, t, l2, at2)
    <3>1. \A d \in Fd : d < 3 => proc'[q].fd[d] = proc[q].fd[d]
        BY <1>2 DEF Fd
    <3>2. \A d \in Fd : d < 3 => Held(proc[q].fd[d], G, t, l2, at2)
        BY <1>3, <1>12 DEF Settled
    <3> QED
        BY <3>1, <3>2
  <2>2. proc'[q].fd[3] = Open("r", k, at2[k]) /\ proc'[q].fd[4] = Open("w", k, at2[k])
      BY <1>2, <1>9 DEF Fd
  <2>3. Beside("pipeleft", G, t, l2[k])
      BY <1>8, <1>9 DEF Beside
  <2>4. proc'[q].pc = "pipeleft"
      BY DEF Pipes
  <2> QED
      BY <1>4, <2>1, <2>2, <2>3, <2>4 DEF Settled, Piping
<1>14. ASSUME NEW x \in Live'
       PROVE  node[x] < C /\ (x # init => node[x] # 0) /\ Settled(proc'[x], G, node[x], l2, at2)
  <2>1. CASE x = q
      BY <1>3, <1>12, <1>13, <2>1
  <2>2. CASE x # q
    <3>1. x \in Live /\ proc'[x] = proc[x]
        BY <1>11, <2>2 DEF Pipes, Live
    <3> QED
        BY <1>12, <3>1
  <2> QED
      BY <2>1, <2>2
<1>15. ASSUME NEW x \in Live', NEW c \in Live', proc'[c].parent = x
       PROVE  Below(G, node[x], node[c])
  <2>1. x \in Live /\ c \in Live /\ proc[c].parent = x
      BY <1>11, <1>15 DEF Pipes, Live
  <2>2. Below(A, node[x], node[c])
      BY <1>1, <2>1 DEF Placed
  <2> QED
      BY <1>12, <2>1, <2>2 DEF Below
<1>16. Placed(G, C, l2, at2, node)'
    BY <1>3, <1>7, <1>10, <1>14, <1>15 DEF Placed
<1> QED
    BY <1>16 DEF HangInv

LEMMA HangStep ==
  ASSUME ShellInv, ShellInv', TreeStep, HangInv
  PROVE  HangInv'
BY QuietHang, ForksHang, PipesHang DEF TreeStep

\* The pipes that a program reads.
ReadPipes == {k \in 1 .. NPipe : \E x \in Live : /\ proc[x].pc = "prog"
                                    /\ proc[x].fd[0].kind = "r" /\ proc[x].fd[0].id = k}

\* Who waits has a place above or across from the place of whom it waits for.
LEMMA WaitsEdge ==
  ASSUME NEW A, NEW B, NEW l, NEW at, NEW node, Placed(A, B, l, at, node), ShellInv,
         NEW q \in Live, NEW c \in Live, c \in WaitsFor(q), WaitsFor(c) # {}
  PROVE  Edge(A, l, ReadPipes, node[q], node[c])
<1> DEFINE p == proc[q]
<1>1. ASSUME NEW x \in Live, proc[x].pc \in Waiting \cup {"prog"}
      PROVE  \A d \in Fd : Held(proc[x].fd[d], A, node[x], l, at)
    BY <1>1 DEF Placed, Settled, Waiting, Piping
<1>2. proc[c].pc \in Waiting \cup {"prog"} /\ p.pc \in Waiting \cup {"prog"}
    BY DEF WaitsFor
<1>3. 0 \in Fd /\ 1 \in Fd
    BY DEF Fd
<1>4. CASE p.pc \in Waiting
  <2>1. c \in Children(q)
      BY <1>4 DEF WaitsFor, Waiting
  <2>2. Below(A, node[q], node[c])
      BY <2>1 DEF Placed, Children
  <2> QED
      BY <2>2 DEF Edge
<1>5. CASE p.pc = "prog" /\ p.fd[0].kind = "r" /\ c \in Holders("w", p.fd[0].id)
  <2> DEFINE k == p.fd[0].id
  <2>1. Held(p.fd[0], A, node[q], l, at)
      BY <1>1, <1>2, <1>3
  <2>2. k \in 1 .. NPipe /\ l[k] + 1 \in A[node[q]]
      BY <1>5, <2>1 DEF Held
  <2>3. PICK d \in Fd : proc[c].fd[d].kind = "w" /\ proc[c].fd[d].id = k
      BY <1>5 DEF Holders
  <2>4. Held(proc[c].fd[d], A, node[c], l, at)
      BY <1>1, <1>2
  <2>5. l[k] \in A[node[c]]
      BY <2>3, <2>4 DEF Held
  <2>6. k \in ReadPipes
      BY <1>5, <2>2 DEF ReadPipes
  <2> HIDE DEF k
  <2> QED
      BY <2>2, <2>5, <2>6 DEF Edge, Across
<1>6. CASE /\ p.pc = "prog" /\ p.fd[1].kind = "w" /\ c \in Holders("r", p.fd[1].id)
           /\ ~ \E r \in Holders("r", p.fd[1].id) :
                  proc[r].pc = "prog" /\ proc[r].fd[0] = Open("r", p.fd[1].id, p.fd[1].at)
  <2> DEFINE k == p.fd[1].id
  <2>1. Held(p.fd[1], A, node[q], l, at)
      BY <1>1, <1>2, <1>3
  <2>2. k \in 1 .. NPipe /\ l[k] \in A[node[q]] /\ p.fd[1].at = at[k]
      BY <1>6, <2>1 DEF Held, Open
  <2>3. PICK d \in Fd : proc[c].fd[d].kind = "r" /\ proc[c].fd[d].id = k
      BY <1>6 DEF Holders
  <2>4. Held(proc[c].fd[d], A, node[c], l, at)
      BY <1>1, <1>2
  <2>5. l[k] + 1 \in A[node[c]]
      BY <2>3, <2>4 DEF Held
  <2>6. ASSUME NEW x \in Live, proc[x].pc = "prog", proc[x].fd[0].kind = "r", proc[x].fd[0].id = k
        PROVE  FALSE
    <3>1. Held(proc[x].fd[0], A, node[x], l, at)
        BY <1>1, <1>3, <2>6
    <3>2. proc[x].fd[0] = Open("r", k, at[k])
        BY <2>6, <3>1 DEF Held
    <3>3. x \in Holders("r", k)
        BY <1>3, <2>6 DEF Holders
    <3> QED
        BY <1>6, <2>2, <2>6, <3>2, <3>3
  <2>7. k \notin ReadPipes
      BY <2>6 DEF ReadPipes
  <2> HIDE DEF k
  <2> QED
      BY <2>2, <2>5, <2>7 DEF Edge, Across
<1> QED
    BY <1>2, <1>4, <1>5, <1>6 DEF WaitsFor

LEMMA HangFree ==
  ASSUME ShellInv, HangInv
  PROVE  NoCircles
<1> DEFINE waits == [q \in Live |-> WaitsFor(q)]
           waiting == {q \in Live : waits[q] # {}}
<1> SUFFICES ASSUME NEW S \in SUBSET waiting, S # {}, \A q \in S : waits[q] \cap S # {}
             PROVE  FALSE
    BY DEF NoCircles
<1>1. PICK A, B, l, at, node : Placed(A, B, l, at, node)
    BY DEF HangInv
<1> DEFINE T == {node[q] : q \in S}
<1>2. \A q \in S : q \in Live /\ WaitsFor(q) # {} /\ WaitsFor(q) \cap S # {}
    OBVIOUS
<1>3. \A q \in S : node[q] \in Nat /\ node[q] < B
    BY <1>1, <1>2 DEF Placed, Live
<1>4. T # {} /\ T \subseteq Nat /\ \A s \in T : s < B
    BY <1>3
<1>5. ASSUME NEW s \in T PROVE \E t \in T : Edge(A, l, ReadPipes, s, t)
  <2>1. PICK q \in S : s = node[q]
      BY <1>5
  <2>2. PICK c \in S : c \in WaitsFor(q)
      BY <1>2
  <2>3. Edge(A, l, ReadPipes, node[q], node[c])
      BY <1>1, <1>2, <2>2, WaitsEdge
  <2> QED
      BY <2>1, <2>2, <2>3
<1>6. Forest(A, B) /\ Sides(A, B, l)
    BY <1>1 DEF Placed
<1> HIDE DEF T
<1> QED
    BY <1>4, <1>5, <1>6, NoCircle

LEMMA HangInvStep == ShellInv /\ ShellInv' /\ HangInv /\ [ShellNext]_shellVars => HangInv'
BY ShellInvStep, HangStep

\* Nobody waits for children it does not have, and processes never wait for each
\* other in a circle, through wait() and the ends of pipes they hold, whatever is typed and wherever a fork(), pipe() or exec()
\* fails, for any number of slots and pipes (sh.c:110).
THEOREM ShellNeverHangs == ShellSpec => []NobodyHangs
<1>1. ShellInv /\ HangInv => NoCircles
    BY HangFree
<1>2. ShellSpec => []HangInv
    BY ShellInvariant, HangInit, HangInvStep, PTL DEF ShellSpec
<1> QED
    BY <1>1, <1>2, ShellInvariant, WaitFindsChild, PTL DEF NobodyHangs
=============================================================================
