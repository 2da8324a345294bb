-------------------------------- MODULE Pipe --------------------------------
(***************************************************************************)
(* A pipe (kernel/pipe.c) and the reference counts of its two open files   *)
(* (kernel/file.c: filedup, fileclose; fork and exit duplicate and close   *)
(* descriptors).                                                           *)
(*                                                                         *)
(* pi->lock is held from acquire() to the release or to sleep(), which     *)
(* gives it up; each turn of a copying loop is a step, so that a kill() may *)
(* come between.  sleep() is one step: that nobody can wake the sleeper    *)
(* too early is what Sched is about.  nread and nwrite are unsigned and    *)
(* wrap around.                                                            *)
(***************************************************************************)
EXTENDS Naturals, Sequences

CONSTANTS
  Proc,        \* the processes
  First,       \* the one that called pipe()
  PIPESIZE,
  UINT,        \* one more than the largest unsigned int, 2^32 in the code
  Victims,     \* the processes that kill() is called on
  MaxN,        \* bound on the byte counts that programs pass to read and write
  Byte,        \* the bytes programs write
  NoByte,      \* no byte was read yet
  NoProc       \* a free lock

ASSUME PipeAssumption ==
  /\ First \in Proc /\ Victims \subseteq Proc
  /\ PIPESIZE \in Nat \ {0}
  /\ UINT \in Nat /\ UINT % PIPESIZE = 0 /\ UINT > PIPESIZE
  /\ MaxN \in Nat \ {0}
  /\ NoByte \notin Byte
  /\ NoProc \notin Proc

VARIABLES
  data, nread, nwrite,
  open,      \* readopen and writeopen: which of "r", "w" is set
  freed,     \* the page of the pipe was given to kfree()
  lock,      \* pi->lock: the process that holds it
  ref,       \* f->ref of the two files
  fds,       \* p->ofile: the ends a process has open
  killed,
  pc,        \* where a process is
  left,      \* n - i in pipewrite and piperead
  end,       \* the end a process closes
  taken,     \* auxiliary: the byte read last
  ended,     \* auxiliary: some read returned 0 for the end of the stream
  cut        \* auxiliary: a write was cut short, and no wakeup(&pi->nread) since

pipeVars == <<data, nread, nwrite, open, freed>>
fileVars == <<ref, fds>>
vars == <<data, nread, nwrite, open, freed, lock, ref, fds, killed, pc, left, end,
          taken, ended, cut>>

End == {"r", "w"}
InWrite == {"wlock", "write", "wsleep", "wasleep"}
InRead == {"rlock", "rtest", "rsleep", "rasleep", "copy", "rdone"}
Pc == {"user", "close", "kfree"} \cup InWrite \cup InRead

TypeOK ==
  /\ data \in [0 .. PIPESIZE - 1 -> Byte \cup {NoByte}]
  /\ nread \in 0 .. UINT - 1 /\ nwrite \in 0 .. UINT - 1
  /\ open \subseteq End
  /\ freed \in BOOLEAN
  /\ lock \in Proc \cup {NoProc}
  /\ ref \in [End -> Nat]
  /\ fds \in [Proc -> SUBSET End]
  /\ killed \in [Proc -> BOOLEAN]
  /\ pc \in [Proc -> Pc]
  /\ left \in [Proc -> 0 .. MaxN]
  /\ end \in [Proc -> End]
  /\ taken \in Byte \cup {NoByte}
  /\ ended \in BOOLEAN
  /\ cut \in BOOLEAN

\* pipealloc() has succeeded, and one process has both descriptors.
Init ==
  /\ data = [i \in 0 .. PIPESIZE - 1 |-> NoByte]
  /\ nread = 0 /\ nwrite = 0
  /\ open = End
  /\ freed = FALSE
  /\ lock = NoProc
  /\ ref = [e \in End |-> 1]
  /\ fds = [p \in Proc |-> IF p = First THEN End ELSE {}]
  /\ killed = [p \in Proc |-> FALSE]
  /\ pc = [p \in Proc |-> "user"]
  /\ left = [p \in Proc |-> 0]
  /\ end = [p \in Proc |-> "r"]
  /\ taken = NoByte
  /\ ended = FALSE
  /\ cut = FALSE

\* A pipe that holds a byte too many.
FullTooLate == nwrite = (nread + PIPESIZE + 1) % UINT

\* Unsigned arithmetic on the two counters.
Inc(n) == (n + 1) % UINT
Full == nwrite = (nread + PIPESIZE) % UINT
Empty == nread = nwrite

Goto(p, label) == pc' = [pc EXCEPT ![p] = label]
\* pc after wakeup(&pi->nread) or wakeup(&pi->nwrite), when p goes to label.
WakeReaders(p, label) ==
  /\ cut' = FALSE
  /\ pc' = [q \in Proc |-> IF q = p THEN label ELSE IF pc[q] = "rasleep" THEN "rlock" ELSE pc[q]]
WakeWriters(p, label) ==
  /\ UNCHANGED cut
  /\ pc' = [q \in Proc |-> IF q = p THEN label ELSE IF pc[q] = "wasleep" THEN "wlock" ELSE pc[q]]

-----------------------------------------------------------------------------
(* pipewrite().                                                            *)

write(p) ==
  /\ pc[p] = "user" /\ ~killed[p] /\ "w" \in fds[p]
  /\ \E n \in 0 .. MaxN : left' = [left EXCEPT ![p] = n]
  /\ Goto(p, "wlock")
  /\ UNCHANGED <<pipeVars, lock, fileVars, killed, end, taken, ended, cut>>

\* acquire(&pi->lock), on entry or at the end of sleep().
Acquire(p) ==
  /\ pc[p] \in {"wlock", "rlock"} /\ lock = NoProc
  /\ lock' = p
  /\ Goto(p, IF pc[p] = "wlock" THEN "write" ELSE "rtest")
  /\ UNCHANGED <<pipeVars, fileVars, killed, left, end, taken, ended, cut>>

\* Nobody will read, or the process was killed: return -1, without the wakeup()
\* that readers of the bytes already written are due.
WriteFail(p) ==
  /\ pc[p] = "write" /\ left[p] > 0
  /\ "r" \notin open \/ killed[p]
  /\ lock' = NoProc
  /\ Goto(p, "user")
  /\ left' = [left EXCEPT ![p] = 0]
  /\ cut' = (cut \/ ~Empty)
  /\ UNCHANGED <<pipeVars, fileVars, killed, end, taken, ended>>

\* The loop goes on.
Writing(p) == pc[p] = "write" /\ left[p] > 0 /\ "r" \in open /\ ~killed[p]

\* The pipe is full: wakeup(&pi->nread), then sleep.
WriteFull(p) ==
  /\ Writing(p) /\ Full
  /\ WakeReaders(p, "wsleep")
  /\ UNCHANGED <<pipeVars, lock, fileVars, killed, left, end, taken, ended>>

\* data[nwrite++ % PIPESIZE] = ch.
WriteByte(p) ==
  /\ Writing(p) /\ ~Full
  /\ \E b \in Byte : data' = [data EXCEPT ![nwrite % PIPESIZE] = b]
  /\ nwrite' = Inc(nwrite)
  /\ left' = [left EXCEPT ![p] = @ - 1]
  /\ UNCHANGED <<nread, open, freed, lock, fileVars, killed, pc, end, taken, ended, cut>>

\* All bytes are written, or copyin() fails: wakeup(&pi->nread), return i.
WriteEnd(p) ==
  /\ pc[p] = "write"
  /\ left[p] = 0 \/ (Writing(p) /\ ~Full)
  /\ lock' = NoProc
  /\ WakeReaders(p, "user")
  /\ left' = [left EXCEPT ![p] = 0]
  /\ UNCHANGED <<pipeVars, fileVars, killed, end, taken, ended>>

\* sleep(): gives up pi->lock.
Sleep(p) ==
  /\ pc[p] \in {"wsleep", "rsleep"}
  /\ lock' = NoProc
  /\ Goto(p, IF pc[p] = "wsleep" THEN "wasleep" ELSE "rasleep")
  /\ UNCHANGED <<pipeVars, fileVars, killed, left, end, taken, ended, cut>>

-----------------------------------------------------------------------------
(* piperead().                                                             *)

read(p) ==
  /\ pc[p] = "user" /\ ~killed[p] /\ "r" \in fds[p]
  /\ \E n \in 0 .. MaxN : left' = [left EXCEPT ![p] = n]
  /\ Goto(p, "rlock")
  /\ UNCHANGED <<pipeVars, lock, fileVars, killed, end, taken, ended, cut>>

\* The pipe is empty and a writer may come: killed(), or sleep.
ReadWait(p) ==
  /\ pc[p] = "rtest" /\ Empty /\ "w" \in open
  /\ IF killed[p]
     THEN /\ lock' = NoProc
          /\ Goto(p, "user")
          /\ left' = [left EXCEPT ![p] = 0]
     ELSE Goto(p, "rsleep") /\ UNCHANGED <<lock, left>>
  /\ UNCHANGED <<pipeVars, fileVars, killed, end, taken, ended, cut>>

\* There is something to read, or never will be: to the copying loop.
ReadReady(p) ==
  /\ pc[p] = "rtest" /\ ~(Empty /\ "w" \in open)
  /\ Goto(p, IF Empty THEN "rdone" ELSE "copy")
  /\ ended' = (ended \/ Empty)
  /\ UNCHANGED <<pipeVars, lock, fileVars, killed, left, end, taken, cut>>

\* ch = data[nread++ % PIPESIZE]; a failing copyout() ends the loop, and the
\* byte is gone.
ReadByte(p) ==
  /\ pc[p] = "copy" /\ left[p] > 0 /\ ~Empty
  /\ taken' = data[nread % PIPESIZE]
  /\ nread' = Inc(nread)
  /\ \/ left' = [left EXCEPT ![p] = @ - 1] /\ UNCHANGED pc
     \/ Goto(p, "rdone") /\ UNCHANGED left
  /\ UNCHANGED <<data, nwrite, open, freed, lock, fileVars, killed, end, ended, cut>>

\* piperead() that forgets wakeup(&pi->nwrite).
ReadEndSilently(p) ==
  /\ pc[p] = "rdone" \/ (pc[p] = "copy" /\ (left[p] = 0 \/ Empty))
  /\ lock' = NoProc
  /\ Goto(p, "user")
  /\ left' = [left EXCEPT ![p] = 0]
  /\ UNCHANGED <<pipeVars, fileVars, killed, end, taken, ended, cut>>

\* wakeup(&pi->nwrite), return i.
ReadEnd(p) ==
  /\ pc[p] = "rdone" \/ (pc[p] = "copy" /\ (left[p] = 0 \/ Empty))
  /\ lock' = NoProc
  /\ WakeWriters(p, "user")
  /\ left' = [left EXCEPT ![p] = 0]
  /\ UNCHANGED <<pipeVars, fileVars, killed, end, taken, ended>>

-----------------------------------------------------------------------------
(* Descriptors.  A process without any stands for one not yet forked.      *)

\* fork(): filedup() of every descriptor.
fork(p, q) ==
  /\ pc[p] = "user" /\ ~killed[p] /\ fds[p] # {}
  /\ q # p /\ pc[q] = "user" /\ fds[q] = {}
  /\ fds' = [fds EXCEPT ![q] = fds[p]]
  /\ ref' = [e \in End |-> IF e \in fds[p] THEN ref[e] + 1 ELSE ref[e]]
  /\ killed' = [killed EXCEPT ![q] = FALSE]
  /\ UNCHANGED <<pipeVars, lock, pc, left, end, taken, ended, cut>>

\* fileclose() that does not look at the reference count.
FileCloseAny(p) ==
  \E e \in fds[p] :
    /\ pc[p] = "user"
    /\ fds' = [fds EXCEPT ![p] = @ \ {e}]
    /\ ref' = [ref EXCEPT ![e] = @ - 1]
    /\ Goto(p, "close") /\ end' = [end EXCEPT ![p] = e]
    /\ UNCHANGED <<pipeVars, lock, killed, left, taken, ended, cut>>

\* fileclose(), called by close() and exit(): the last one closes the pipe's end.
fileclose(p) ==
  \E e \in fds[p] :
    /\ pc[p] = "user"
    /\ fds' = [fds EXCEPT ![p] = @ \ {e}]
    /\ ref' = [ref EXCEPT ![e] = @ - 1]
    /\ IF ref[e] > 1
       THEN UNCHANGED <<pc, end>>
       ELSE Goto(p, "close") /\ end' = [end EXCEPT ![p] = e]
    /\ UNCHANGED <<pipeVars, lock, killed, left, taken, ended, cut>>

\* pipeclose() that wakes nobody.
PipeCloseSilently(p) ==
  /\ pc[p] = "close" /\ lock = NoProc
  /\ open' = open \ {end[p]}
  /\ Goto(p, IF open = {end[p]} THEN "kfree" ELSE "user")
  /\ end' = [end EXCEPT ![p] = "r"]
  /\ UNCHANGED <<data, nread, nwrite, freed, lock, fileVars, killed, left, taken, ended, cut>>

\* pipeclose(): the end is closed, those who wait for it are woken; the one who
\* closes the second end frees the pipe after releasing pi->lock.
pipeclose(p) ==
  LET next == IF open = {end[p]} THEN "kfree" ELSE "user" IN
  /\ pc[p] = "close" /\ lock = NoProc
  /\ open' = open \ {end[p]}
  /\ IF end[p] = "w" THEN WakeReaders(p, next) ELSE WakeWriters(p, next)
  /\ end' = [end EXCEPT ![p] = "r"]
  /\ UNCHANGED <<data, nread, nwrite, freed, lock, fileVars, killed, left, taken, ended>>

kfree(p) ==
  /\ pc[p] = "kfree"
  /\ freed' = TRUE
  /\ Goto(p, "user")
  /\ UNCHANGED <<data, nread, nwrite, open, lock, fileVars, killed, left, end, taken, ended, cut>>

\* kill(): wakes its victim from sleep().
kill(p) ==
  /\ p \in Victims /\ fds[p] # {} /\ ~killed[p]
  /\ killed' = [killed EXCEPT ![p] = TRUE]
  /\ pc' = [pc EXCEPT ![p] = CASE @ = "wasleep" -> "wlock"
                               [] @ = "rasleep" -> "rlock"
                               [] OTHER -> @]
  /\ UNCHANGED <<pipeVars, lock, fileVars, left, end, taken, ended, cut>>

-----------------------------------------------------------------------------
\* What a process does by itself inside a system call.
Step(p) ==
  \/ Acquire(p) \/ WriteFail(p) \/ WriteFull(p) \/ WriteByte(p) \/ WriteEnd(p) \/ Sleep(p)
  \/ ReadWait(p) \/ ReadReady(p) \/ ReadByte(p) \/ ReadEnd(p)
  \/ pipeclose(p) \/ kfree(p)

\* What programs choose to do.
Call(p) == write(p) \/ read(p) \/ fileclose(p) \/ kill(p) \/ \E q \in Proc : fork(p, q)

Next == \E p \in Proc : Step(p) \/ Call(p)

Spec == Init /\ [][Next]_vars

(***************************************************************************)
(* Fairness.  Every process is scheduled, and no acquire() is starved by   *)
(* others that take the lock (SF); a killed process exits, which closes    *)
(* its descriptors (WF).  No program need call anything.                   *)
(***************************************************************************)
FairSpec == Spec /\ \A p \in Proc : SF_vars(Step(p)) /\ WF_vars(killed[p] /\ fileclose(p))

-----------------------------------------------------------------------------
(* Properties.                                                             *)

\* The bytes between nread and nwrite, in the order they will be read.
Contents ==
  [i \in 1 .. (nwrite + UINT - nread) % UINT |-> data[(nread + i - 1) % PIPESIZE]]

Stream == INSTANCE ByteStream WITH queue <- Contents, Capacity <- PIPESIZE, ends <- open

\* The pipe is a byte stream: nothing is lost, duplicated or reordered, also
\* when the unsigned counters wrap around, and the end comes after the last byte.
ImplementsByteStream == Stream!Spec

\* When pi->lock is free, whoever sleeps in pipewrite() waits for a full pipe
\* that has a reader, and whoever sleeps in piperead() for an empty one that has
\* a writer: every wakeup() that was due has happened.  The one exception is the
\* early return of a killed writer, which leaves its bytes to sleeping readers.
NoMissedWakeup ==
  \A p \in Proc : lock = NoProc =>
    /\ pc[p] = "wasleep" => Full /\ "r" \in open
    /\ pc[p] = "rasleep" => (Empty \/ cut) /\ "w" \in open

\* The page of a pipe is freed once, when no process is in pipe.c nor will be.
FreedUnused ==
  /\ freed => \A p \in Proc : pc[p] = "user" /\ fds[p] = {}
  /\ \A p, q \in Proc : pc[p] = "kfree" => pc[q] = "user" \/ q = p

\* When every writer has closed, a read returns, even one that sleeps; when
\* every reader has closed, a write does.
CallsReturn ==
  \A p \in Proc :
    /\ (pc[p] \in InRead /\ "w" \notin open) ~> (pc[p] = "user")
    /\ (pc[p] \in InWrite /\ "r" \notin open) ~> (pc[p] = "user")
=============================================================================
