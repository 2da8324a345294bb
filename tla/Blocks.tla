------------------------------- MODULE Blocks -------------------------------
(***************************************************************************)
(* The blocks of the file system: the free bit map, the block addresses of *)
(* an inode, what read(), write() and truncation do with them (kernel/fs.c,*)
(* kernel/file.c), on the disk that mkfs built (mkfs/mkfs.c).              *)
(*                                                                         *)
(* A block is a row of BSIZE cells.  A cell holds a byte or a block number,*)
(* as an indirect block is a block like any other.  Programs write the     *)
(* file's own mark into a file, so that a byte in the wrong place shows.   *)
(* A process works on a file under the inode's lock; the steps of two      *)
(* processes on two files interleave at the buffer locks of the bit map.   *)
(* The log makes a transaction atomic (module Log), so a crash is not      *)
(* modelled here; which blocks a transaction logs is.                      *)
(***************************************************************************)
EXTENDS Naturals, FiniteSets

CONSTANTS
  Proc, NoProc,
  NFiles,        \* inodes 1 .. NFiles; 1 is the root directory
  NHost,         \* files 2 .. NHost + 1 are put on the disk by mkfs
  HostMax,       \* bound on their length, in cells
  FSSIZE, nmeta, \* blocks 0 .. nmeta - 1 hold no data
  BSIZE, NDIRECT, NINDIRECT,
  BPB,           \* bits in a block of the bit map
  MAXOPBLOCKS,
  Counts         \* the byte counts that programs pass to read() and write()

ASSUME BlocksAssumption ==
  /\ NoProc \notin Proc
  /\ NFiles \in Nat /\ NHost \in Nat /\ NHost < NFiles
  /\ FSSIZE \in Nat /\ nmeta \in 1 .. FSSIZE
  /\ BSIZE \in Nat \ {0} /\ NDIRECT \in Nat \ {0} /\ NINDIRECT = BSIZE
  /\ BPB \in Nat \ {0} /\ MAXOPBLOCKS \in Nat /\ MAXOPBLOCKS >= 6
  /\ HostMax \in Nat /\ Counts \subseteq Nat \ {0}

\* The root directory that mkfs makes does not end with a block: it would be
\* padded by one that has no address.
ASSUME RootAssumption == (2 + NHost) % BSIZE # 0

\* itrunc() fits a transaction: few blocks in a file or in the bit map.
ASSUME TruncAssumption ==
  NDIRECT + NINDIRECT + 2 <= MAXOPBLOCKS \/ FSSIZE <= BPB * (MAXOPBLOCKS - 1)

VARIABLES
  made,       \* mkfs has finished and the kernel runs
  freeblock,  \* mkfs: the next block to use
  bitmap,     \* the blocks marked in use
  blk,        \* the contents of the blocks
  ip,         \* the inodes in memory: addrs and size
  dinode,     \* the same on disk
  lock,       \* the holder of each inode's lock
  off,        \* f->off of the file each process has open
  th          \* where each process is

vars == <<made, freeblock, bitmap, blk, ip, dinode, lock, off, th>>

MAXFILE == NDIRECT + NINDIRECT
Block == 0 .. FSSIZE - 1
File == 1 .. NFiles
Root == 1
Cell == 0 .. FSSIZE + NFiles
Cells == 0 .. BSIZE - 1
Mark(f) == FSSIZE + f
Zeroes == [c \in Cells |-> 0]

min(a, b) == IF a < b THEN a ELSE b

\* The blocks a transaction can log.
BBLOCK(b) == <<"bitmap", b \div BPB>>
DBLOCK(b) == <<"data", b>>
IBLOCK == <<"inode", 0>>

Idle == [pc |-> "user", f |-> NFiles, left |-> 0, n1 |-> 0, tot |-> 0, logged |-> {}]
Inode == [addrs : [0 .. NDIRECT -> Block], size : Nat]

TypeOK ==
  /\ made \in BOOLEAN /\ freeblock \in 0 .. FSSIZE /\ bitmap \subseteq Block
  /\ blk \in [Block -> [Cells -> Cell]]
  /\ ip \in [File -> Inode] /\ dinode \in [File -> Inode]
  /\ lock \in [File -> Proc \cup {NoProc}]
  /\ off \in [Proc -> Nat]
  /\ th \in [Proc -> [pc : {"user", "chunk", "write", "finish", "trunc"}, f : File,
                      left : Nat, n1 : Nat, tot : Nat,
                      logged : SUBSET ({BBLOCK(b) : b \in Block} \cup
                                       {DBLOCK(b) : b \in Block} \cup {IBLOCK})]]

Init ==
  /\ made = FALSE /\ freeblock = nmeta /\ bitmap = {}
  /\ blk = [b \in Block |-> Zeroes]
  /\ ip = [f \in File |-> [addrs |-> [k \in 0 .. NDIRECT |-> 0], size |-> 0]]
  /\ dinode = ip
  /\ lock = [f \in File |-> NoProc]
  /\ off = [p \in Proc |-> 0]
  /\ th = [p \in Proc |-> Idle]

-----------------------------------------------------------------------------
(* mkfs                                                                    *)

\* One turn of the loop of iappend(): blocks are taken in order as they are
\* needed.
iappend(f, n1) ==
  LET e == dinode[f]
      fbn == e.size \div BSIZE
      direct == fbn < NDIRECT
      first == direct \/ e.addrs[NDIRECT] # 0
      ind == IF first THEN e.addrs[NDIRECT] ELSE freeblock
      old == IF direct THEN e.addrs[fbn]
             ELSE IF first THEN blk[ind][fbn - NDIRECT] ELSE 0
      free == IF first THEN freeblock ELSE freeblock + 1
      x == IF old # 0 THEN old ELSE free
      at == e.size % BSIZE
      data == [c \in Cells |-> IF c \in at .. at + n1 - 1 THEN Mark(f) ELSE blk[x][c]]
      addrs == [e.addrs EXCEPT ![IF direct THEN fbn ELSE NDIRECT] = IF direct THEN x ELSE ind]
  IN
  /\ fbn < MAXFILE /\ n1 <= BSIZE - at /\ x < FSSIZE
  /\ freeblock' = IF old # 0 THEN free ELSE free + 1
  /\ blk' = IF direct THEN [blk EXCEPT ![x] = data]
            ELSE [blk EXCEPT ![ind][fbn - NDIRECT] = x, ![x] = data]
  /\ dinode' = [dinode EXCEPT ![f] = [addrs |-> addrs, size |-> e.size + n1]]
  /\ UNCHANGED <<made, bitmap, ip, lock, off, th>>

\* An entry for ".", "..", and each file, which are then filled.
MkfsRoot ==
  /\ ~ made /\ dinode[Root].size < 2 + NHost
  /\ iappend(Root, 1)

MkfsFile(f) ==
  /\ ~ made /\ f \in 2 .. NHost + 1
  /\ dinode[Root].size = f + 1
  /\ \E n1 \in 1 .. HostMax - dinode[f].size : iappend(f, n1)

\* The root directory is padded to whole blocks, and balloc() marks what was
\* used.
MkfsEnd ==
  LET padded == [dinode EXCEPT ![Root].size = (@ \div BSIZE + 1) * BSIZE] IN
  /\ ~ made /\ dinode[Root].size = 2 + NHost
  /\ made' = TRUE
  /\ dinode' = padded /\ ip' = padded
  /\ bitmap' = 0 .. freeblock - 1
  /\ UNCHANGED <<freeblock, blk, lock, off, th>>

-----------------------------------------------------------------------------
(* Blocks of an inode                                                      *)

\* The address of block bn of inode e, 0 if it has none; slot MAXFILE is the
\* indirect block itself.
Slot(e, bn) ==
  IF bn < NDIRECT THEN e.addrs[bn]
  ELSE IF bn = MAXFILE \/ e.addrs[NDIRECT] = 0 THEN e.addrs[NDIRECT]
  ELSE blk[e.addrs[NDIRECT]][bn - NDIRECT]

\* balloc() finds the first block that is free.
Free == Block \ bitmap
balloc == CHOOSE b \in Free : \A c \in Free : b <= c

\* The block of the file that the next byte of p goes to.
Pos(p) == off[p] + th[p].tot
bn(p) == Pos(p) \div BSIZE

\* bmap() misses a block: the indirect block, or the one that the byte goes to.
Bmap(p) ==
  LET f == th[p].f
      ind == bn(p) >= NDIRECT /\ ip[f].addrs[NDIRECT] = 0
      missing == Slot(ip[f], bn(p)) = 0
      inAddrs == ind \/ bn(p) < NDIRECT
      zeroed == [blk EXCEPT ![balloc] = Zeroes] IN
  /\ th[p].pc = "write" /\ th[p].tot < th[p].n1 /\ missing
  /\ IF Free = {}
     THEN /\ th' = [th EXCEPT ![p].pc = "finish"]
          /\ UNCHANGED <<bitmap, blk, ip>>
     ELSE /\ bitmap' = bitmap \cup {balloc}
          /\ IF inAddrs
             THEN /\ ip' = [ip EXCEPT ![f].addrs[IF ind THEN NDIRECT ELSE bn(p)] = balloc]
                  /\ blk' = zeroed
             ELSE /\ blk' = [zeroed EXCEPT ![ip[f].addrs[NDIRECT]][bn(p) - NDIRECT] = balloc]
                  /\ UNCHANGED ip
          /\ th' = [th EXCEPT ![p].logged = @ \cup {BBLOCK(balloc), DBLOCK(balloc)} \cup
                      (IF inAddrs THEN {} ELSE {DBLOCK(ip[f].addrs[NDIRECT])})]
  /\ UNCHANGED <<made, freeblock, dinode, lock, off>>

-----------------------------------------------------------------------------
(* write()                                                                 *)

\* A mutant of MaxChunk: no room for a second block of a write that is not
\* aligned.
MaxChunkNoSlop == ((MAXOPBLOCKS - 1 - 1) \div 2) * BSIZE

\* The transactions of filewrite() are bounded.
MaxChunk == ((MAXOPBLOCKS - 1 - 1 - 2) \div 2) * BSIZE

Write(p, n) ==
  /\ made /\ th[p].pc = "user"
  /\ th' = [th EXCEPT ![p].pc = "chunk", ![p].left = n]
  /\ UNCHANGED <<made, freeblock, bitmap, blk, ip, dinode, lock, off>>

\* begin_op(), ilock() and the tests of writei(): behind the end of a file that
\* was truncated, or beyond the longest file, nothing is written.
WriteChunk(p) ==
  LET f == th[p].f
      n1 == min(th[p].left, MaxChunk) IN
  /\ th[p].pc = "chunk" /\ lock[f] = NoProc
  /\ IF off[p] > ip[f].size \/ off[p] + n1 > MAXFILE * BSIZE
     THEN /\ th' = [th EXCEPT ![p] = [Idle EXCEPT !.f = f]]
          /\ UNCHANGED lock
     ELSE /\ lock' = [lock EXCEPT ![f] = p]
          /\ th' = [th EXCEPT ![p].pc = "write", ![p].n1 = n1, ![p].tot = 0]
  /\ UNCHANGED <<made, freeblock, bitmap, blk, ip, dinode, off>>

\* A turn of writei() copies m bytes into the block; when either_copyin()
\* fails, some of them are in the buffer, which is not logged, and the loop
\* ends.
Copy(p) ==
  LET f == th[p].f
      b == Slot(ip[f], bn(p))
      at == Pos(p) % BSIZE
      m == min(th[p].n1 - th[p].tot, BSIZE - at)
      filled(k) == [c \in Cells |-> IF c \in at .. at + k - 1 THEN Mark(f) ELSE blk[b][c]] IN
  /\ th[p].pc = "write" /\ th[p].tot < th[p].n1 /\ b # 0
  /\ \/ /\ blk' = [blk EXCEPT ![b] = filled(m)]
        /\ th' = [th EXCEPT ![p].tot = @ + m, ![p].logged = @ \cup {DBLOCK(b)}]
     \/ \E k \in 0 .. m - 1 :
          /\ blk' = [blk EXCEPT ![b] = filled(k)]
          /\ th' = [th EXCEPT ![p].pc = "finish"]
  /\ UNCHANGED <<made, freeblock, bitmap, ip, dinode, lock, off>>

\* A mutant of WriteEnd: the size grows as if the whole chunk had been written.
WriteEndWhole(p) ==
  LET f == th[p].f
      t == th[p]
      e == [ip[f] EXCEPT !.size = IF off[p] + t.n1 > @ THEN off[p] + t.n1 ELSE @] IN
  /\ t.pc = "finish" \/ (t.pc = "write" /\ t.tot = t.n1)
  /\ ip' = [ip EXCEPT ![f] = e]
  /\ dinode' = [dinode EXCEPT ![f] = e]
  /\ off' = [off EXCEPT ![p] = Pos(p)]
  /\ lock' = [lock EXCEPT ![f] = NoProc]
  /\ th' = [th EXCEPT ![p] = [Idle EXCEPT !.f = f]]
  /\ UNCHANGED <<made, freeblock, bitmap, blk>>

\* filewrite() goes on with the next chunk unless this one was cut short.
AfterChunk(t) ==
  IF t.tot = t.n1 /\ t.left > t.n1
  THEN [Idle EXCEPT !.pc = "chunk", !.f = t.f, !.left = t.left - t.n1]
  ELSE [Idle EXCEPT !.f = t.f]

\* writei() ends: the size, iupdate(), iunlock(), end_op().
WriteEnd(p) ==
  LET f == th[p].f
      t == th[p]
      e == [ip[f] EXCEPT !.size = IF Pos(p) > @ THEN Pos(p) ELSE @] IN
  /\ t.pc = "finish" \/ (t.pc = "write" /\ t.tot = t.n1)
  /\ ip' = [ip EXCEPT ![f] = e]
  /\ dinode' = [dinode EXCEPT ![f] = e]
  /\ off' = [off EXCEPT ![p] = Pos(p)]
  /\ lock' = [lock EXCEPT ![f] = NoProc]
  /\ th' = [th EXCEPT ![p] = AfterChunk(t)]
  /\ UNCHANGED <<made, freeblock, bitmap, blk>>

-----------------------------------------------------------------------------
(* read(), and open() with and without O_TRUNC                             *)

\* What readi() returns: it ends at the end of the file.  bmap() finds every block
\* it asks for, see ContentKept.
readi(e, o, n) == IF o > e.size THEN 0 ELSE min(n, e.size - o)

\* fileread(): the offset moves by what was read, and not at all if
\* either_copyout() fails.
Read(p, n) ==
  LET r == readi(ip[th[p].f], off[p], n) IN
  /\ made /\ th[p].pc = "user" /\ lock[th[p].f] = NoProc
  /\ r > 0
  /\ off' = [off EXCEPT ![p] = @ + r]
  /\ UNCHANGED <<made, freeblock, bitmap, blk, ip, dinode, lock, th>>

Open(p, f) ==
  /\ made /\ th[p].pc = "user"
  /\ th' = [th EXCEPT ![p] = [Idle EXCEPT !.f = f]]
  /\ off' = [off EXCEPT ![p] = 0]
  /\ UNCHANGED <<made, freeblock, bitmap, blk, ip, dinode, lock>>

OpenTrunc(p, f) ==
  /\ made /\ th[p].pc = "user" /\ lock[f] = NoProc
  /\ lock' = [lock EXCEPT ![f] = p]
  /\ th' = [th EXCEPT ![p] = [Idle EXCEPT !.pc = "trunc", !.f = f]]
  /\ off' = [off EXCEPT ![p] = 0]
  /\ UNCHANGED <<made, freeblock, bitmap, blk, ip, dinode>>

\* The blocks that itrunc() has yet to free, in its order: direct blocks, the
\* blocks the indirect block names (tot counts how far it is), the indirect
\* block.
Pending(p) ==
  {k \in th[p].tot .. MAXFILE : Slot(ip[th[p].f], k) # 0}

\* A mutant of Bfree: the indirect block is freed before the blocks it names.
BfreeIndirectFirst(p) ==
  LET f == th[p].f
      k == IF MAXFILE \in Pending(p) THEN MAXFILE
           ELSE CHOOSE i \in Pending(p) : \A j \in Pending(p) : i <= j
      b == Slot(ip[f], k) IN
  /\ th[p].pc = "trunc" /\ Pending(p) # {}
  /\ bitmap' = bitmap \ {b}
  /\ ip' = [ip EXCEPT ![f].addrs[min(k, NDIRECT)] = 0]
  /\ th' = [th EXCEPT ![p].tot = IF k = MAXFILE THEN @ ELSE k + 1]
  /\ UNCHANGED <<made, freeblock, blk, dinode, lock, off>>

\* bfree() of the next block; only an address that is in the inode is cleared.
Bfree(p) ==
  LET f == th[p].f
      k == CHOOSE i \in Pending(p) : \A j \in Pending(p) : i <= j
      b == Slot(ip[f], k) IN
  /\ th[p].pc = "trunc" /\ Pending(p) # {}
  /\ bitmap' = bitmap \ {b}
  /\ ip' = IF k \in NDIRECT .. MAXFILE - 1 THEN ip
           ELSE [ip EXCEPT ![f].addrs[min(k, NDIRECT)] = 0]
  /\ th' = [th EXCEPT ![p].tot = k + 1, ![p].logged = @ \cup {BBLOCK(b)}]
  /\ UNCHANGED <<made, freeblock, blk, dinode, lock, off>>

\* size = 0, iupdate()
TruncEnd(p) ==
  LET f == th[p].f
      e == [ip[f] EXCEPT !.size = 0] IN
  /\ th[p].pc = "trunc" /\ Pending(p) = {}
  /\ ip' = [ip EXCEPT ![f] = e]
  /\ dinode' = [dinode EXCEPT ![f] = e]
  /\ lock' = [lock EXCEPT ![f] = NoProc]
  /\ th' = [th EXCEPT ![p] = [Idle EXCEPT !.f = f]]
  /\ UNCHANGED <<made, freeblock, bitmap, blk, off>>

-----------------------------------------------------------------------------
Step(p) ==
  \/ Bmap(p) \/ WriteChunk(p) \/ Copy(p) \/ WriteEnd(p) \/ Bfree(p) \/ TruncEnd(p)

Next ==
  \/ MkfsRoot \/ MkfsEnd
  \/ \E f \in File : MkfsFile(f)
  \/ \E p \in Proc :
       \/ Step(p)
       \/ \E n \in Counts : Write(p, n)
       \/ \E n \in Counts : Read(p, n)
       \/ \E f \in File \ {Root} : Open(p, f) \/ OpenTrunc(p, f)

Spec == Init /\ [][Next]_vars

-----------------------------------------------------------------------------
(* Properties                                                              *)

Truncating(f) == \E p \in Proc : th[p].f = f /\ th[p].pc = "trunc"
Current(f) == IF made THEN ip[f] ELSE dinode[f]

\* The slots of inodes that name a block, without those that itrunc() is done
\* with.
Owners(b) ==
  {x \in File \X (0 .. MAXFILE) :
     /\ Slot(Current(x[1]), x[2]) = b
     /\ \A p \in Proc : th[p].pc = "trunc" /\ th[p].f = x[1] => x[2] >= th[p].tot}

\* A block is marked in the bit map exactly if one inode owns it, and none is
\* owned twice, while processes allocate and free at the same time and wherever
\* a write ends early (fs.c: balloc, bfree, bmap, itrunc); mkfs and the kernel
\* agree on this.  An inode that nobody has locked is on the disk as it is in
\* memory.
BlocksOwned ==
  /\ \A b \in nmeta .. FSSIZE - 1 :
       Cardinality(Owners(b)) = IF (made /\ b \in bitmap) \/ (~ made /\ b < freeblock)
                                THEN 1 ELSE 0
  /\ made => 0 .. nmeta - 1 \subseteq bitmap
  /\ made => \A f \in File : lock[f] = NoProc => dinode[f] = ip[f]

\* A file has a block for every byte below its size, so that readi(), which is
\* in no transaction, never allocates one, and the byte is one that was written
\* to the file: a size is never ahead of the data, whichever copy or allocation
\* failed (fs.c:506).
ContentKept ==
  \A f \in File : ~ Truncating(f) => \A i \in 0 .. Current(f).size - 1 :
    LET b == Slot(Current(f), i \div BSIZE) IN
    /\ b # 0
    /\ blk[b][i % BSIZE] \in {Mark(f)} \cup (IF f = Root THEN {0} ELSE {})

\* One call of writei() by filewrite() logs at most MAXOPBLOCKS blocks, the
\* inode that iupdate() adds included: the share of the log that begin_op()
\* reserved (file.c:149).
OpFits == \A p \in Proc : Cardinality(th[p].logged \cup {IBLOCK}) <= MAXOPBLOCKS
=============================================================================
