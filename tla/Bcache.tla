------------------------------- MODULE Bcache -------------------------------
(***************************************************************************)
(* The buffer cache (kernel/bio.c) on top of the disk driver: bget with    *)
(* its recycling, bread, bwrite, brelse, bpin and bunpin.                  *)
(*                                                                         *)
(* A section under bcache.lock is one step.  b->lock is a sleep lock       *)
(* (module Sched) that a process holds from bread() to brelse().  The      *)
(* callers keep the discipline of the file system: a block that was        *)
(* changed is written with bwrite(), or pinned until a later caller has    *)
(* written it (log_write and install_trans in kernel/log.c), before its    *)
(* buffer may be recycled.                                                 *)
(***************************************************************************)
EXTENDS VirtioDisk, SequencesExt

CONSTANTS
  Buf,        \* the buffers
  Block,      \* the disk's blocks
  Value,      \* their contents
  NoBlock,    \* the block of a buffer never used
  NoBuf

ASSUME BcacheAssumption ==
  NoBlock \notin Block /\ NoBuf \notin Buf /\ IsFiniteSet(Buf)

VARIABLES
  lru,        \* the list from head.next to head.prev
  blockno, refcnt, valid,
  data,       \* b->data
  holder,     \* the process that holds b->lock
  pins,       \* auxiliary: the part of refcnt that is due to bpin()
  bpc,        \* where a caller is
  buf,        \* its buffer
  disk,       \* the contents of the disk
  latest,     \* auxiliary: what was stored in a block last
  panicked    \* bget found no buffer

cacheVars == <<lru, blockno, refcnt, valid, data, holder, pins, bpc, buf, disk, latest, panicked>>
allVars == <<vars, cacheVars>>

CacheTypeOK ==
  /\ Range(lru) = Buf /\ Len(lru) = Cardinality(Buf)
  /\ blockno \in [Buf -> Block \cup {NoBlock}]
  /\ refcnt \in [Buf -> 0 .. Cardinality(Proc) + 1]
  /\ valid \in [Buf -> BOOLEAN]
  /\ data \in [Buf -> Value]
  /\ holder \in [Buf -> Proc \cup {NoProc}]
  /\ pins \in [Buf -> 0 .. 1]
  /\ bpc \in [Proc -> {"idle", "lock", "read", "have", "changed", "write", "written", "release"}]
  /\ buf \in [Proc -> Buf \cup {NoBuf}]
  /\ disk \in [Block -> Value] /\ latest \in [Block -> Value]
  /\ panicked \in BOOLEAN

\* binit() and virtio_disk_init().
CacheInit ==
  /\ Init
  /\ lru = SetToSeq(Buf)
  /\ blockno = [b \in Buf |-> NoBlock]
  /\ refcnt = [b \in Buf |-> 0]
  /\ valid = [b \in Buf |-> FALSE]
  /\ data \in [Buf -> Value] /\ (\A b, c \in Buf : data[b] = data[c])
  /\ holder = [b \in Buf |-> NoProc]
  /\ pins = [b \in Buf |-> 0]
  /\ bpc = [p \in Proc |-> "idle"]
  /\ buf = [p \in Proc |-> NoBuf]
  /\ disk \in [Block -> Value] /\ (\A m, n \in Block : disk[m] = disk[n])
  /\ latest = disk
  /\ panicked = FALSE

GoTo(p, label) == bpc' = [bpc EXCEPT ![p] = label]
Cached(n) == {b \in Buf : blockno[b] = n}
Unused == {b \in Buf : refcnt[b] = 0}

-----------------------------------------------------------------------------
(* bget().                                                                 *)

\* The block is cached.
Hit(p, n) ==
  /\ bpc[p] = "idle"
  /\ \E b \in Cached(n) :
       /\ refcnt' = [refcnt EXCEPT ![b] = @ + 1]
       /\ buf' = [buf EXCEPT ![p] = b]
  /\ GoTo(p, "lock")
  /\ UNCHANGED <<vars, lru, blockno, valid, data, holder, pins, disk, latest, panicked>>

\* The unused buffer that is nearest to the end of the list.
Oldest == lru[Max({i \in 1 .. Len(lru) : refcnt[lru[i]] = 0})]

\* A buffer is recycled for a block that is cached: bget() that gives up
\* bcache.lock between its two loops.
RecycleUnchecked(p, n) ==
  /\ bpc[p] = "idle" /\ Unused # {}
  /\ LET b == Oldest IN
       /\ blockno' = [blockno EXCEPT ![b] = n]
       /\ valid' = [valid EXCEPT ![b] = FALSE]
       /\ refcnt' = [refcnt EXCEPT ![b] = 1]
       /\ buf' = [buf EXCEPT ![p] = b]
  /\ GoTo(p, "lock")
  /\ UNCHANGED <<vars, lru, data, holder, pins, disk, latest, panicked>>

\* A bget() that forgets b->valid = 0.
RecycleStillValid(p, n) ==
  /\ bpc[p] = "idle" /\ Cached(n) = {} /\ Unused # {}
  /\ LET b == Oldest IN
       /\ blockno' = [blockno EXCEPT ![b] = n]
       /\ refcnt' = [refcnt EXCEPT ![b] = 1]
       /\ buf' = [buf EXCEPT ![p] = b]
  /\ GoTo(p, "lock")
  /\ UNCHANGED <<vars, lru, valid, data, holder, pins, disk, latest, panicked>>

\* Not cached: recycle the least recently used unused buffer.
Recycle(p, n) ==
  /\ bpc[p] = "idle" /\ Cached(n) = {} /\ Unused # {}
  /\ LET b == Oldest IN
       /\ blockno' = [blockno EXCEPT ![b] = n]
       /\ valid' = [valid EXCEPT ![b] = FALSE]
       /\ refcnt' = [refcnt EXCEPT ![b] = 1]
       /\ buf' = [buf EXCEPT ![p] = b]
  /\ GoTo(p, "lock")
  /\ UNCHANGED <<vars, lru, data, holder, pins, disk, latest, panicked>>

\* panic("bget: no buffers").
NoBuffers(p, n) ==
  /\ bpc[p] = "idle" /\ Cached(n) = {} /\ Unused = {}
  /\ panicked' = TRUE
  /\ UNCHANGED <<vars, lru, blockno, refcnt, valid, data, holder, pins, bpc, buf, disk, latest>>

-----------------------------------------------------------------------------
(* bread(), bwrite() and the disk.                                         *)

\* acquiresleep(&b->lock); a buffer that is not valid is read.
LockBuf(p) ==
  LET b == buf[p] IN
  /\ bpc[p] = "lock" /\ holder[b] = NoProc
  /\ holder' = [holder EXCEPT ![b] = p]
  /\ IF valid[b] THEN GoTo(p, "have") /\ UNCHANGED vars
                 ELSE GoTo(p, "read") /\ virtio_disk_rw(p)
  /\ UNCHANGED <<lru, blockno, refcnt, valid, data, pins, buf, disk, latest, panicked>>

\* The caller stores a value in the block.
Store(p) ==
  LET b == buf[p] IN
  /\ bpc[p] = "have"
  /\ \E v \in Value : /\ data' = [data EXCEPT ![b] = v]
                      /\ latest' = [latest EXCEPT ![blockno[b]] = v]
  /\ GoTo(p, "changed")
  /\ UNCHANGED <<vars, lru, blockno, refcnt, valid, holder, pins, buf, disk, panicked>>

\* Also for a block that is pinned: install_trans().
bwrite(p) ==
  /\ bpc[p] = "changed" \/ (bpc[p] = "have" /\ pins[buf[p]] > 0)
  /\ virtio_disk_rw(p)
  /\ GoTo(p, "write")
  /\ UNCHANGED <<lru, blockno, refcnt, valid, data, holder, pins, buf, disk, latest, panicked>>

\* virtio_disk_rw() returns: to bread(), which marks the buffer valid, or to the
\* caller of bwrite().
Returned(p) ==
  /\ Finish(p)
  /\ IF bpc[p] = "read"
     THEN GoTo(p, "have") /\ valid' = [valid EXCEPT ![buf[p]] = TRUE]
     ELSE GoTo(p, "written") /\ UNCHANGED valid
  /\ UNCHANGED <<lru, blockno, refcnt, data, holder, pins, buf, disk, latest, panicked>>

\* The device moves the buffer of the process whose request it is.
Transfer(i) ==
  LET p == addr[next[i]]
      b == buf[p] IN
  /\ DeviceTransfer(i)
  /\ IF bpc[p] = "write"
     THEN disk' = [disk EXCEPT ![blockno[b]] = data[b]] /\ UNCHANGED data
     ELSE data' = [data EXCEPT ![b] = disk[blockno[b]]] /\ UNCHANGED disk
  /\ UNCHANGED <<lru, blockno, refcnt, valid, holder, pins, bpc, buf, latest, panicked>>

\* The other steps of the driver, the device and the interrupt handler.
DiskStep ==
  /\ \/ \E p \in Proc : AllocFail(p) \/ Submit(p) \/ SleepAgain(p) \/ Kill(p)
     \/ DeviceFetch \/ \E i \in Desc : DeviceUsed(i)
     \/ Intr
  /\ UNCHANGED cacheVars

-----------------------------------------------------------------------------
(* brelse(), bpin(), bunpin().                                             *)

\* log_write(): the first change of a block since the last commit pins it.
bpin(p) ==
  LET b == buf[p] IN
  /\ bpc[p] = "changed"
  /\ pins' = [pins EXCEPT ![b] = 1]
  /\ refcnt' = [refcnt EXCEPT ![b] = @ + 1 - pins[b]]
  /\ GoTo(p, "have")
  /\ UNCHANGED <<vars, lru, blockno, valid, data, holder, buf, disk, latest, panicked>>

\* install_trans(), after bwrite().
bunpin(p) ==
  LET b == buf[p] IN
  /\ bpc[p] = "written" /\ pins[b] = 1
  /\ pins' = [pins EXCEPT ![b] = 0]
  /\ refcnt' = [refcnt EXCEPT ![b] = @ - 1]
  /\ UNCHANGED <<vars, lru, blockno, valid, data, holder, bpc, buf, disk, latest, panicked>>

\* brelse(): releasesleep(&b->lock), before bcache.lock is taken.
brelse(p) ==
  /\ bpc[p] \in {"have", "written"}
  /\ holder' = [holder EXCEPT ![buf[p]] = NoProc]
  /\ GoTo(p, "release")
  /\ UNCHANGED <<vars, lru, blockno, refcnt, valid, data, pins, buf, disk, latest, panicked>>

\* The list with its i-th buffer moved to the head.
ToFront(l, i) == <<l[i]>> \o RemoveAt(l, i)

\* refcnt--, and a buffer nobody waits for goes to the head of the list.
Unref(p) ==
  LET b == buf[p] IN
  /\ bpc[p] = "release"
  /\ refcnt' = [refcnt EXCEPT ![b] = @ - 1]
  /\ lru' = IF refcnt[b] = 1 THEN ToFront(lru, CHOOSE i \in 1 .. Len(lru) : lru[i] = b) ELSE lru
  /\ buf' = [buf EXCEPT ![p] = NoBuf]
  /\ GoTo(p, "idle")
  /\ UNCHANGED <<vars, blockno, valid, data, holder, pins, disk, latest, panicked>>

-----------------------------------------------------------------------------
\* What a caller does without being asked.
CacheStep(p) == LockBuf(p) \/ Returned(p) \/ brelse(p) \/ Unref(p)

CacheNext ==
  /\ ~panicked
  /\ \/ \E p \in Proc, n \in Block : Hit(p, n) \/ Recycle(p, n) \/ NoBuffers(p, n)
     \/ \E p \in Proc : CacheStep(p) \/ Store(p) \/ bwrite(p) \/ bpin(p) \/ bunpin(p)
     \/ \E i \in Desc : Transfer(i)
     \/ DiskStep

CacheSpec == CacheInit /\ [][CacheNext]_allVars

-----------------------------------------------------------------------------
(* Properties.                                                             *)

\* A block is in one buffer at most, and a recycled buffer is nobody's.
OneBuffer ==
  /\ \A b, c \in Buf : b # c /\ blockno[b] # NoBlock => blockno[b] # blockno[c]
  /\ \A b \in Buf : refcnt[b] = Cardinality({p \in Proc : buf[p] = b}) + pins[b]

\* Whoever has a block, from the return of bread() on, sees what was stored in it
\* last, though buffers were recycled and requests finished in any order.
CoherentReads ==
  \A p \in Proc : bpc[p] \in {"have", "changed", "write", "written"} =>
    data[buf[p]] = latest[blockno[buf[p]]]
=============================================================================
