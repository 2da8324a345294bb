-------------------------------- MODULE Log --------------------------------
(***************************************************************************)
(* The write-ahead log (kernel/log.c): begin_op, log_write, end_op, commit *)
(* and recovery, with a crash possible between any two disk writes.        *)
(*                                                                         *)
(* A section under log.lock is one step.  bwrite() of one block is one     *)
(* step and atomic, as the code assumes of the header block.  cache is     *)
(* what bread() returns: a block changed by a system call is pinned until  *)
(* it has been installed, so it is never read back from the disk before.   *)
(***************************************************************************)
EXTENDS Integers, Sequences, FiniteSets

CONSTANTS
  Block,         \* home blocks of the file system
  Value,         \* block contents
  Client,        \* the processes that make file system calls
  MAXOPBLOCKS,   \* blocks begin_op() reserves for a call
  LOGSIZE,       \* capacity of the header, and the size begin_op() checks
  LogBlocks,     \* log.size, from the superblock: the header block included
  OpBlocks,      \* how many different blocks a call really writes, at most
  MaxCrashes     \* bound on the number of crashes

\* kernel/param.h: MAXOPBLOCKS is the "max # of blocks any FS op writes", and
\* LOGSIZE is MAXOPBLOCKS * 3.
ASSUME LogAssumption ==
  /\ MAXOPBLOCKS \in Nat \ {0}
  /\ LOGSIZE \in Nat /\ MAXOPBLOCKS <= LOGSIZE
  /\ LogBlocks \in Nat \ {0}
  /\ OpBlocks \in Nat /\ OpBlocks <= MAXOPBLOCKS
  /\ MaxCrashes \in Nat

VARIABLES
  disk,          \* home blocks on disk
  logd,          \* data blocks of the log on disk, by position
  hdr,           \* header block of the log on disk: the block numbers
  cache,         \* home blocks as bread() returns them
  lh,            \* log.lh in memory
  outstanding,
  committing,
  pc,            \* where a client is
  wrote,         \* the blocks a client's call has written
  tail,          \* loop variable of write_log() and install_trans()
  boot,          \* recovery: "read_head", "install", "clear", then "done"
  crashes        \* crashes so far

diskVars == <<disk, logd, hdr>>
vars == <<disk, logd, hdr, cache, lh, outstanding, committing, pc, wrote, tail,
          boot, crashes>>

Slot == 1 .. LOGSIZE
Committing == {"commit", "write_log", "write_head", "install", "erase", "committed"}

TypeOK ==
  /\ disk \in [Block -> Value]
  /\ logd \in [Slot -> Value]
  /\ hdr \in Seq(Block) /\ Len(hdr) <= LOGSIZE
  /\ cache \in [Block -> Value]
  /\ lh \in Seq(Block) /\ Len(lh) <= LOGSIZE
  /\ outstanding \in Nat
  /\ committing \in BOOLEAN
  /\ pc \in [Client -> {"idle", "begin", "asleep", "op", "panic"} \cup Committing]
  /\ wrote \in [Client -> SUBSET Block]
  /\ tail \in 1 .. LOGSIZE + 1
  /\ boot \in {"read_head", "install", "clear", "done"}
  /\ crashes \in 0 .. MaxCrashes

\* A file system made by mkfs (empty log), before initlog().
Init ==
  /\ disk \in [Block -> Value]
  /\ logd \in [Slot -> Value]
  /\ hdr = <<>>
  /\ cache = disk
  /\ lh = <<>>
  /\ outstanding = 0
  /\ committing = FALSE
  /\ pc = [p \in Client |-> "idle"]
  /\ wrote = [p \in Client |-> {}]
  /\ tail = 1
  /\ boot = "read_head"
  /\ crashes = 0

Goto(p, label) == pc' = [pc EXCEPT ![p] = label]
\* wakeup(&log): everyone who sleeps in begin_op() looks again.
wakeup(f) == [p \in Client |-> IF f[p] = "asleep" THEN "begin" ELSE f[p]]
Panicked == \E p \in Client : pc[p] = "panic"
Running == boot = "done" /\ ~Panicked

-----------------------------------------------------------------------------
(* begin_op(), log_write() and end_op().                                   *)

\* A file system call starts.
Call(p) ==
  /\ Running /\ pc[p] = "idle"
  /\ Goto(p, "begin")
  /\ UNCHANGED <<diskVars, cache, lh, outstanding, committing, wrote, tail, boot, crashes>>

\* begin_op() that reserves nothing for the call itself.
WaitOffByOne == committing \/ Len(lh) + outstanding * MAXOPBLOCKS > LOGSIZE

\* The condition under which begin_op() sleeps.
MustWait == committing \/ Len(lh) + (outstanding + 1) * MAXOPBLOCKS > LOGSIZE

BeginSleep(p) ==
  /\ Running /\ pc[p] = "begin" /\ MustWait
  /\ Goto(p, "asleep")
  /\ UNCHANGED <<diskVars, cache, lh, outstanding, committing, wrote, tail, boot, crashes>>

begin_op(p) ==
  /\ Running /\ pc[p] = "begin" /\ ~MustWait
  /\ outstanding' = outstanding + 1
  /\ wrote' = [wrote EXCEPT ![p] = {}]
  /\ Goto(p, "op")
  /\ UNCHANGED <<diskVars, cache, lh, committing, tail, boot, crashes>>

LogFull == Len(lh) >= LOGSIZE \/ Len(lh) >= LogBlocks - 1

\* log_write() without absorption.
LogWriteAlwaysAppends(p) ==
  /\ Running /\ pc[p] = "op" /\ ~LogFull
  /\ \E b \in Block, v \in Value :
       /\ Cardinality(wrote[p] \cup {b}) <= OpBlocks
       /\ cache' = [cache EXCEPT ![b] = v]
       /\ wrote' = [wrote EXCEPT ![p] = @ \cup {b}]
       /\ lh' = Append(lh, b)
  /\ UNCHANGED <<diskVars, outstanding, committing, pc, tail, boot, crashes>>

\* The call changes a block in the cache and calls log_write(), which records a
\* block that is not yet in the transaction (absorption).
log_write(p) ==
  /\ Running /\ pc[p] = "op" /\ ~LogFull
  /\ \E b \in Block, v \in Value :
       /\ Cardinality(wrote[p] \cup {b}) <= OpBlocks
       /\ cache' = [cache EXCEPT ![b] = v]
       /\ wrote' = [wrote EXCEPT ![p] = @ \cup {b}]
       /\ lh' = IF \E i \in 1 .. Len(lh) : lh[i] = b THEN lh ELSE Append(lh, b)
  /\ UNCHANGED <<diskVars, outstanding, committing, pc, tail, boot, crashes>>

\* panic("too big a transaction"): the machine stops.
LogPanic(p) ==
  /\ Running /\ pc[p] = "op" /\ LogFull
  /\ \E b \in Block : Cardinality(wrote[p] \cup {b}) <= OpBlocks
  /\ Goto(p, "panic")
  /\ UNCHANGED <<diskVars, cache, lh, outstanding, committing, wrote, tail, boot, crashes>>

\* end_op(), up to the release of log.lock: the last one out commits, the
\* others wake those who wait for log space.
end_op(p) ==
  /\ Running /\ pc[p] = "op"
  /\ outstanding' = outstanding - 1
  /\ IF outstanding = 1
     THEN committing' = TRUE /\ Goto(p, "commit")
     ELSE pc' = wakeup([pc EXCEPT ![p] = "idle"]) /\ UNCHANGED committing
  /\ UNCHANGED <<diskVars, cache, lh, wrote, tail, boot, crashes>>

-----------------------------------------------------------------------------
(* commit(), by the client that set log.committing.                        *)

CommitStart(p) ==
  /\ Running /\ pc[p] = "commit"
  /\ tail' = 1
  /\ Goto(p, IF Len(lh) > 0 THEN "write_log" ELSE "committed")
  /\ UNCHANGED <<diskVars, cache, lh, outstanding, committing, wrote, boot, crashes>>

\* commit() that installs without having written the header.
WriteLogThenInstall(p) ==
  /\ Running /\ pc[p] = "write_log"
  /\ logd' = [logd EXCEPT ![tail] = cache[lh[tail]]]
  /\ tail' = IF tail = Len(lh) THEN 1 ELSE tail + 1
  /\ Goto(p, IF tail = Len(lh) THEN "install" ELSE "write_log")
  /\ UNCHANGED <<disk, hdr, cache, lh, outstanding, committing, wrote, boot, crashes>>

\* write_log(): one block from the cache to the log.
write_log(p) ==
  /\ Running /\ pc[p] = "write_log"
  /\ logd' = [logd EXCEPT ![tail] = cache[lh[tail]]]
  /\ tail' = tail + 1
  /\ Goto(p, IF tail = Len(lh) THEN "write_head" ELSE "write_log")
  /\ UNCHANGED <<disk, hdr, cache, lh, outstanding, committing, wrote, boot, crashes>>

\* write_head(): the commit point.
write_head(p) ==
  /\ Running /\ pc[p] = "write_head"
  /\ hdr' = lh
  /\ tail' = 1
  /\ Goto(p, "install")
  /\ UNCHANGED <<disk, logd, cache, lh, outstanding, committing, wrote, boot, crashes>>

\* install_trans(): one block from the log to its home, through the cache.
InstallBlock ==
  /\ disk' = [disk EXCEPT ![lh[tail]] = logd[tail]]
  /\ cache' = [cache EXCEPT ![lh[tail]] = logd[tail]]
  /\ tail' = tail + 1

install_trans(p) ==
  /\ Running /\ pc[p] = "install"
  /\ InstallBlock
  /\ Goto(p, IF tail = Len(lh) THEN "erase" ELSE "install")
  /\ UNCHANGED <<logd, hdr, lh, outstanding, committing, wrote, boot, crashes>>

\* log.lh.n = 0; write_head(): the transaction is erased from the log.
EraseLog(p) ==
  /\ Running /\ pc[p] = "erase"
  /\ lh' = <<>>
  /\ hdr' = <<>>
  /\ Goto(p, "committed")
  /\ UNCHANGED <<disk, logd, cache, outstanding, committing, wrote, tail, boot, crashes>>

\* The committer wakes nobody.
CommitDoneSilently(p) ==
  /\ Running /\ pc[p] = "committed"
  /\ committing' = FALSE
  /\ Goto(p, "idle")
  /\ UNCHANGED <<diskVars, cache, lh, outstanding, wrote, tail, boot, crashes>>

\* The end of end_op(): committing = 0; wakeup(&log).
CommitDone(p) ==
  /\ Running /\ pc[p] = "committed"
  /\ committing' = FALSE
  /\ pc' = wakeup([pc EXCEPT ![p] = "idle"])
  /\ UNCHANGED <<diskVars, cache, lh, outstanding, wrote, tail, boot, crashes>>

-----------------------------------------------------------------------------
(* Crash and recover_from_log().                                           *)

\* Power fails, or a panicked machine is reset: only the disk survives.
Crash ==
  /\ crashes < MaxCrashes
  /\ crashes' = crashes + 1
  /\ cache' = disk
  /\ lh' = <<>>
  /\ outstanding' = 0
  /\ committing' = FALSE
  /\ pc' = [p \in Client |-> "idle"]
  /\ wrote' = [p \in Client |-> {}]
  /\ tail' = 1
  /\ boot' = "read_head"
  /\ UNCHANGED diskVars

read_head ==
  /\ boot = "read_head"
  /\ lh' = hdr
  /\ tail' = 1
  /\ boot' = IF Len(hdr) > 0 THEN "install" ELSE "clear"
  /\ UNCHANGED <<diskVars, cache, outstanding, committing, pc, wrote, crashes>>

RecoverInstall ==
  /\ boot = "install"
  /\ InstallBlock
  /\ boot' = IF tail = Len(lh) THEN "clear" ELSE "install"
  /\ UNCHANGED <<logd, hdr, lh, outstanding, committing, pc, wrote, crashes>>

\* log.lh.n = 0; write_head(): recovery is complete.
RecoverClear ==
  /\ boot = "clear"
  /\ lh' = <<>>
  /\ hdr' = <<>>
  /\ boot' = "done"
  /\ UNCHANGED <<disk, logd, cache, outstanding, committing, pc, wrote, tail, crashes>>

-----------------------------------------------------------------------------
Progress(p) ==
  \/ BeginSleep(p) \/ begin_op(p) \/ end_op(p) \/ LogPanic(p)
  \/ CommitStart(p) \/ write_log(p) \/ write_head(p) \/ install_trans(p)
  \/ EraseLog(p) \/ CommitDone(p)

Recover == read_head \/ RecoverInstall \/ RecoverClear

Next ==
  \/ \E p \in Client : Call(p) \/ log_write(p) \/ Progress(p)
  \/ Recover \/ Crash

Spec == Init /\ [][Next]_vars

-----------------------------------------------------------------------------
(* Properties.                                                             *)

\* What recovery would make of the disk: the log, if its header names blocks,
\* over the home blocks.
Recovered ==
  [b \in Block |-> IF \E i \in 1 .. Len(hdr) : hdr[i] = b
                   THEN logd[CHOOSE i \in 1 .. Len(hdr) : hdr[i] = b]
                   ELSE disk[b]]

\* Between commits the cache is ahead of the disk exactly by the blocks of the
\* transaction, each listed once: what log_write() does not list is not lost.
CacheAheadByLog ==
  boot = "done" =>
    /\ \A b \in Block : cache[b] # disk[b] => \E i \in 1 .. Len(lh) : lh[i] = b
    /\ \A i, j \in 1 .. Len(lh) : lh[i] = lh[j] => i = j

\* What begin_op() admits is enough for the blocks of the transaction and all
\* that the calls in progress may still write, whichever of them have written
\* how much (log.c:133).  A panic of log_write() therefore comes from a log
\* that is smaller on disk than LOGSIZE, never from the reservation.
InCall == {p \in Client : pc[p] \in {"op", "panic"}}
ReservationKept ==
  /\ outstanding = Cardinality(InCall)
  /\ Len(lh) + outstanding * MAXOPBLOCKS
       <= LOGSIZE + Cardinality({x \in InCall \X Block : x[2] \in wrote[x[1]]})

\* The log implements the atomic disk: the effect of concurrent calls reaches
\* the disk in one step, between calls, wherever the machine crashes, also
\* during commit and during recovery.
Atomic == INSTANCE AtomicDisk WITH
  mem <- IF boot = "done" THEN cache ELSE Recovered,
  durable <- Recovered,
  active <- InCall,
  up <- boot = "done"
ImplementsAtomicDisk == Atomic!Spec

\* Whoever sleeps in begin_op() will be woken: a commit is in progress, which
\* ends in a wakeup(), or calls are, of which the last one commits.  Nobody
\* goes to sleep or stays asleep after the last wakeup (log.c:135, 171).
SleepersWillWake ==
  \A p \in Client : pc[p] = "asleep" => committing \/ outstanding > 0
=============================================================================
