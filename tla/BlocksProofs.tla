---------------------------- MODULE BlocksProofs ----------------------------
(***************************************************************************)
(* Proofs about Blocks, for any number of processes and files and any      *)
(* sizes of disk, blocks and inodes: every block has one owner, a file has *)
(* the bytes below its size, and a write fits its transaction.             *)
(***************************************************************************)
EXTENDS Blocks, Integers, FiniteSetTheorems, TLAPS

USE BlocksAssumption

-----------------------------------------------------------------------------
(* Control.                                                                *)

\* Processes that hold the lock of their file.
Inside == {"write", "finish", "trunc"}

\* A lock is held by the process that works on the file; mkfs runs alone.
LocksHeld ==
  /\ \A p \in Proc : th[p].pc \in Inside => lock[th[p].f] = p
  /\ \A f \in File : lock[f] # NoProc => th[lock[f]].f = f /\ th[lock[f]].pc \in Inside
  /\ ~ made => \A p \in Proc : th[p].pc = "user"

\* What a process at t, with its file at offset o and inode e, has before it.
CallOk(t, o, e) ==
  /\ t.pc \in {"user", "chunk"} => t.logged = {}
  /\ t.pc = "chunk" => t.left > 0
  /\ t.pc \in {"write", "finish"} =>
       /\ t.n1 \in 1 .. MaxChunk /\ t.tot <= t.n1
       /\ o + t.n1 <= MAXFILE * BSIZE
  /\ t.pc = "trunc" =>
       /\ t.tot <= MAXFILE + 1
       /\ \A k \in 0 .. NDIRECT - 1 : k < t.tot => e.addrs[k] = 0
       /\ t.tot = MAXFILE + 1 => e.addrs[NDIRECT] = 0

\* An inode that nobody has locked is on the disk.
Synced == made => \A f \in File : lock[f] = NoProc => dinode[f] = ip[f]

CtlInv == TypeOK /\ LocksHeld /\ (\A p \in Proc : CallOk(th[p], off[p], ip[th[p].f])) /\ Synced

-----------------------------------------------------------------------------
(* Ownership.                                                              *)

\* Slot for contents m of the blocks.
SlotAt(m, e, k) ==
  IF k < NDIRECT THEN e.addrs[k]
  ELSE IF k = MAXFILE \/ e.addrs[NDIRECT] = 0 THEN e.addrs[NDIRECT]
  ELSE m[e.addrs[NDIRECT]][k - NDIRECT]

\* itrunc() is not yet done with slot k of f.
Live(f, k) == \A p \in Proc : th[p].pc = "trunc" /\ th[p].f = f => k >= th[p].tot

\* The blocks that the inodes own.
Names == [f \in File |-> [k \in 0 .. MAXFILE |->
            IF Live(f, k) THEN SlotAt(blk, Current(f), k) ELSE 0]]

\* N gives every block of U behind the metadata one owner, and nobody another.
Owned(N, U) ==
  /\ \A f \in File, k \in 0 .. MAXFILE : N[f][k] # 0 => N[f][k] \in U /\ N[f][k] >= nmeta
  /\ \A f, g \in File, k, j \in 0 .. MAXFILE :
       N[f][k] # 0 /\ N[f][k] = N[g][j] => f = g /\ k = j
  /\ \A b \in U : b >= nmeta => \E f \in File, k \in 0 .. MAXFILE : N[f][k] = b

\* The blocks in use.
InUse == IF made THEN bitmap ELSE 0 .. freeblock - 1

\* mkfs takes blocks in order and has written nothing behind them.
Fresh ==
  /\ freeblock >= nmeta
  /\ ~ made => \A b \in Block : b >= freeblock => blk[b] = Zeroes

OwnInv ==
  /\ Owned(Names, InUse)
  /\ made => 0 .. nmeta - 1 \subseteq bitmap
  /\ Fresh

-----------------------------------------------------------------------------
(* Contents.                                                               *)

\* Byte i of f, whose inode is e, is there.
Good(f) == {Mark(f)} \cup (IF f = Root THEN {0} ELSE {})
WrittenAt(m, e, f, i) ==
  /\ SlotAt(m, e, i \div BSIZE) # 0
  /\ m[SlotAt(m, e, i \div BSIZE)][i % BSIZE] \in Good(f)

DataInv ==
  /\ \A f \in File : Current(f).size <= MAXFILE * BSIZE
  /\ \A f \in File : ~ Truncating(f) => \A i \in 0 .. Current(f).size - 1 :
       WrittenAt(blk, Current(f), f, i)
  /\ \A p \in Proc : th[p].pc \in {"write", "finish"} =>
       \A i \in 0 .. Pos(p) - 1 : WrittenAt(blk, ip[th[p].f], th[p].f, i)
  /\ ~ made => \A f \in File, k \in 0 .. MAXFILE - 1 :
       SlotAt(blk, dinode[f], k) # 0 =>
         \A c \in Cells : blk[SlotAt(blk, dinode[f], k)][c] \in {0, Mark(f)}

-----------------------------------------------------------------------------
(* What a transaction logs.                                                *)

\* The slots of the file that a chunk of n1 bytes at o touches, and those that it
\* may have to fill: the first is there if the chunk starts inside the block.
\* The indirect block may be among them.
Touched(o, n1) == (o \div BSIZE .. (o + n1 - 1) \div BSIZE) \cup {MAXFILE}
Filled(o, n1) ==
  ((IF o % BSIZE = 0 THEN o \div BSIZE ELSE o \div BSIZE + 1) .. (o + n1 - 1) \div BSIZE)
    \cup {MAXFILE}

LogOk(t, o, m, e) ==
  /\ t.pc \in {"write", "finish"} => \A x \in t.logged :
       \/ \E k \in Touched(o, t.n1) : SlotAt(m, e, k) # 0 /\ x = DBLOCK(SlotAt(m, e, k))
       \/ \E k \in Filled(o, t.n1) : SlotAt(m, e, k) # 0 /\ x = BBLOCK(SlotAt(m, e, k))
  /\ t.pc = "trunc" =>
       /\ \A x \in t.logged : \E b \in Block : x = BBLOCK(b)
       /\ IsFiniteSet(t.logged) /\ Cardinality(t.logged) <= t.tot

LogInv == \A p \in Proc : LogOk(th[p], off[p], blk, ip[th[p].f])

Inv == CtlInv /\ OwnInv /\ DataInv /\ LogInv

-----------------------------------------------------------------------------
(* Arithmetic: bytes, blocks and offsets.                                  *)

LEMMA DivMod ==
  ASSUME NEW a \in Nat
  PROVE  /\ a \div BSIZE \in Nat /\ a % BSIZE \in Nat /\ a % BSIZE < BSIZE
         /\ a = BSIZE * (a \div BSIZE) + (a % BSIZE)
OBVIOUS

LEMMA MulStep ==
  ASSUME NEW q \in Int, NEW r \in Int, q < r
  PROVE  BSIZE * q + BSIZE <= BSIZE * r
<1>1. BSIZE * (q + 1) <= BSIZE * r
  BY q + 1 <= r
<1> QED
  BY <1>1

LEMMA DivUnique ==
  ASSUME NEW q \in Nat, NEW c \in Nat, c < BSIZE
  PROVE  (BSIZE * q + c) \div BSIZE = q /\ (BSIZE * q + c) % BSIZE = c
<1> DEFINE a == BSIZE * q + c
           d == a \div BSIZE
           e == a % BSIZE
<1>1. a \in Nat
  OBVIOUS
<1>2. d \in Nat /\ e \in Nat /\ e < BSIZE /\ a = BSIZE * d + e
  BY <1>1, DivMod
<1> HIDE DEF d, e
<1>3. ~ (d < q) /\ ~ (q < d)
  BY <1>2, MulStep
<1>4. d = q
  BY <1>2, <1>3
<1> QED
  BY <1>2, <1>4 DEF d, e

LEMMA DivBound ==
  ASSUME NEW a \in Nat, NEW n \in Nat, a < n * BSIZE
  PROVE  a \div BSIZE \in 0 .. n - 1
<1> DEFINE d == a \div BSIZE
<1>1. d \in Nat /\ BSIZE * d <= a
  BY DivMod
<1> HIDE DEF d
<1>2. ~ (n <= d)
  <2>1. SUFFICES ASSUME n <= d PROVE FALSE
    OBVIOUS
  <2>2. n * BSIZE <= BSIZE * d
    BY <1>1, <2>1
  <2> QED
    BY <1>1, <2>2
<1> QED
  BY <1>1, <1>2 DEF d

\* Bytes behind byte a in the same block.
LEMMA SameBlock ==
  ASSUME NEW a \in Nat, NEW j \in Nat, (a % BSIZE) + j < BSIZE
  PROVE  (a + j) \div BSIZE = a \div BSIZE /\ (a + j) % BSIZE = (a % BSIZE) + j
<1> DEFINE q == a \div BSIZE
           c == a % BSIZE
<1>1. q \in Nat /\ c \in Nat /\ c + j < BSIZE /\ a + j = BSIZE * q + (c + j)
  BY DivMod
<1> HIDE DEF q, c
<1>2. (BSIZE * q + (c + j)) \div BSIZE = q /\ (BSIZE * q + (c + j)) % BSIZE = c + j
  BY <1>1, DivUnique
<1> QED
  BY <1>1, <1>2 DEF q, c

-----------------------------------------------------------------------------
(* Ownership: a block gets an owner, or loses it.                          *)

LEMMA OwnedSame ==
  ASSUME NEW N, NEW M, NEW U, Owned(N, U),
         \A f \in File, k \in 0 .. MAXFILE : M[f][k] = N[f][k]
  PROVE  Owned(M, U)
BY DEF Owned

LEMMA OwnedGain ==
  ASSUME NEW N, NEW M, NEW U, Owned(N, U),
         NEW f \in File, NEW k \in 0 .. MAXFILE, NEW a, a # 0, a \notin U, a >= nmeta,
         N[f][k] = 0, M[f][k] = a,
         \A g \in File, j \in 0 .. MAXFILE : g # f \/ j # k => M[g][j] = N[g][j]
  PROVE  Owned(M, U \cup {a})
<1>1. \A g \in File, j \in 0 .. MAXFILE : M[g][j] # 0 => M[g][j] \in U \cup {a} /\ M[g][j] >= nmeta
  BY DEF Owned
<1>2. ASSUME NEW g \in File, NEW h \in File, NEW i \in 0 .. MAXFILE, NEW j \in 0 .. MAXFILE,
             M[g][i] # 0, M[g][i] = M[h][j]
      PROVE  g = h /\ i = j
  BY <1>2 DEF Owned
<1>3. ASSUME NEW b \in U \cup {a}, b >= nmeta
      PROVE  \E g \in File, j \in 0 .. MAXFILE : M[g][j] = b
  <2>1. CASE b = a
    BY <2>1
  <2>2. CASE b \in U
    <3>1. PICK g \in File, j \in 0 .. MAXFILE : N[g][j] = b
      BY <1>3, <2>2 DEF Owned
    <3>2. g # f \/ j # k
      BY <1>3, <3>1
    <3> QED
      BY <3>1, <3>2
  <2> QED
    BY <2>1, <2>2
<1> QED
  BY <1>1, <1>2, <1>3 DEF Owned

LEMMA OwnedLose ==
  ASSUME NEW N, NEW M, NEW U, Owned(N, U),
         NEW f \in File, NEW k \in 0 .. MAXFILE, N[f][k] # 0, M[f][k] = 0,
         \A g \in File, j \in 0 .. MAXFILE : g # f \/ j # k => M[g][j] = N[g][j]
  PROVE  Owned(M, U \ {N[f][k]})
<1> DEFINE a == N[f][k]
<1>1. \A g \in File, j \in 0 .. MAXFILE : M[g][j] # 0 => M[g][j] \in U \ {a} /\ M[g][j] >= nmeta
  BY DEF Owned
<1>2. ASSUME NEW g \in File, NEW h \in File, NEW i \in 0 .. MAXFILE, NEW j \in 0 .. MAXFILE,
             M[g][i] # 0, M[g][i] = M[h][j]
      PROVE  g = h /\ i = j
  BY <1>2 DEF Owned
<1>3. ASSUME NEW b \in U \ {a}, b >= nmeta
      PROVE  \E g \in File, j \in 0 .. MAXFILE : M[g][j] = b
  <2>1. PICK g \in File, j \in 0 .. MAXFILE : N[g][j] = b
    BY <1>3 DEF Owned
  <2>2. g # f \/ j # k
    BY <2>1
  <2> QED
    BY <2>1, <2>2
<1> QED
  BY <1>1, <1>2, <1>3 DEF Owned

-----------------------------------------------------------------------------
(* Slots.                                                                  *)

LogIds == {BBLOCK(b) : b \in Block} \cup {DBLOCK(b) : b \in Block} \cup {IBLOCK}
Thread == [pc : {"user", "chunk", "write", "finish", "trunc"}, f : File,
           left : Nat, n1 : Nat, tot : Nat, logged : SUBSET LogIds]

LEMMA SlotIs == ASSUME NEW e, NEW k PROVE Slot(e, k) = SlotAt(blk, e, k)
BY DEF Slot, SlotAt

LEMMA SlotSame ==
  ASSUME NEW m, NEW m2, NEW e, NEW e2, NEW k, e2.addrs = e.addrs,
         e.addrs[NDIRECT] # 0 => m2[e.addrs[NDIRECT]] = m[e.addrs[NDIRECT]]
  PROVE  SlotAt(m2, e2, k) = SlotAt(m, e, k)
BY DEF SlotAt

LEMMA NamesIs ==
  ASSUME NEW f \in File, NEW k \in 0 .. MAXFILE
  PROVE  /\ Names[f][k] = IF Live(f, k) THEN SlotAt(blk, Current(f), k) ELSE 0
         /\ Names'[f][k] = IF Live(f, k)'
                           THEN SlotAt(blk', IF made' THEN ip'[f] ELSE dinode'[f], k) ELSE 0
BY DEF Names, Current, Live, SlotAt

LEMMA Sizes ==
  /\ NDIRECT \in Nat /\ MAXFILE \in Nat /\ NDIRECT < MAXFILE /\ NDIRECT > 0
  /\ MAXFILE \in 0 .. MAXFILE /\ NDIRECT \in 0 .. NDIRECT
BY DEF MAXFILE

LEMMA UsedBlocks == ASSUME Inv PROVE InUse \subseteq Block
BY DEF Inv, CtlInv, TypeOK, InUse, Block

\* What an inode owns.
LEMMA NamesOwned ==
  ASSUME Inv, NEW f \in File, NEW k \in 0 .. MAXFILE, Names[f][k] # 0
  PROVE  /\ Names[f][k] \in InUse /\ Names[f][k] >= nmeta /\ Names[f][k] \in Block
         /\ \A g \in File, j \in 0 .. MAXFILE : Names[g][j] = Names[f][k] => g = f /\ j = k
BY UsedBlocks DEF Inv, OwnInv, Owned

\* A process inside writei() or itrunc() is alone with its file.
LEMMA InsideAlone ==
  ASSUME Inv, NEW p \in Proc, th[p].pc \in Inside
  PROVE  /\ made /\ th[p].f \in File /\ lock[th[p].f] = p
         /\ \A q \in Proc : th[q].pc \in Inside /\ th[q].f = th[p].f => q = p
<1>1. th[p].f \in File /\ lock[th[p].f] = p
  BY DEF Inv, CtlInv, TypeOK, LocksHeld
<1>2. made
  BY DEF Inv, CtlInv, LocksHeld, Inside
<1>3. \A q \in Proc : th[q].pc \in Inside => lock[th[q].f] = q
  BY DEF Inv, CtlInv, LocksHeld
<1> QED
  BY <1>1, <1>2, <1>3

LEMMA WriterNames ==
  ASSUME Inv, NEW p \in Proc, th[p].pc \in {"write", "finish"}
  PROVE  /\ made /\ th[p].f \in File /\ lock[th[p].f] = p /\ ip[th[p].f] \in Inode
         /\ ~ Truncating(th[p].f) /\ \A k : Live(th[p].f, k)
         /\ \A k \in 0 .. MAXFILE : Names[th[p].f][k] = SlotAt(blk, ip[th[p].f], k)
<1>1. th[p].pc \in Inside
  BY DEF Inside
<1>2. /\ made /\ th[p].f \in File /\ lock[th[p].f] = p
      /\ \A q \in Proc : th[q].pc \in Inside /\ th[q].f = th[p].f => q = p
  BY <1>1, InsideAlone
<1>3. ~ Truncating(th[p].f) /\ \A k : Live(th[p].f, k)
  BY <1>2 DEF Truncating, Live, Inside
<1>4. Current(th[p].f) = ip[th[p].f]
  BY <1>2 DEF Current
<1>5. \A k \in 0 .. MAXFILE : Names[th[p].f][k] = SlotAt(blk, ip[th[p].f], k)
  BY <1>2, <1>3, <1>4, NamesIs
<1>6. ip[th[p].f] \in Inode
  BY <1>2 DEF Inv, CtlInv, TypeOK
<1> QED
  BY <1>2, <1>3, <1>5, <1>6

\* An indirect block is owned through slot MAXFILE.
LEMMA IndirectOwned ==
  ASSUME Inv, made, NEW g \in File, ip[g].addrs[NDIRECT] # 0
  PROVE  Names[g][MAXFILE] = ip[g].addrs[NDIRECT]
<1>1. Live(g, MAXFILE)
  <2> SUFFICES ASSUME NEW p \in Proc, th[p].pc = "trunc", th[p].f = g
               PROVE  MAXFILE >= th[p].tot
    BY DEF Live
  <2>1. CallOk(th[p], off[p], ip[g]) /\ th[p].tot \in Nat
    BY DEF Inv, CtlInv, TypeOK
  <2>2. th[p].tot <= MAXFILE + 1 /\ (th[p].tot = MAXFILE + 1 => ip[g].addrs[NDIRECT] = 0)
    BY <2>1 DEF CallOk
  <2> QED
    BY <2>1, <2>2, Sizes
<1>2. SlotAt(blk, ip[g], MAXFILE) = ip[g].addrs[NDIRECT]
  BY Sizes DEF SlotAt
<1> QED
  BY <1>1, <1>2, NamesIs, Sizes DEF Current

-----------------------------------------------------------------------------
(* Steps that move no address.                                             *)

\* Nobody begins, goes on with or ends a truncation.
SameTrunc ==
  \A q \in Proc :
    /\ th'[q].pc = "trunc" <=> th[q].pc = "trunc"
    /\ th[q].pc = "trunc" => th'[q].f = th[q].f /\ th'[q].tot = th[q].tot

LEMMA LiveSame ==
  ASSUME SameTrunc, NEW f, NEW k
  PROVE  (Live(f, k)' <=> Live(f, k)) /\ (Truncating(f)' <=> Truncating(f))
BY DEF SameTrunc, Live, Truncating

LEMMA SteadyOwn ==
  ASSUME Inv, made, UNCHANGED <<made, freeblock, bitmap>>, SameTrunc,
         \A g \in File : ip'[g].addrs = ip[g].addrs,
         \A g \in File : ip[g].addrs[NDIRECT] # 0 =>
           blk'[ip[g].addrs[NDIRECT]] = blk[ip[g].addrs[NDIRECT]]
  PROVE  OwnInv' /\ \A g \in File, k \in 0 .. MAXFILE : SlotAt(blk', ip'[g], k) = SlotAt(blk, ip[g], k)
<1>1. \A g \in File, k \in 0 .. MAXFILE : SlotAt(blk', ip'[g], k) = SlotAt(blk, ip[g], k)
  BY SlotSame
<1>2. \A g \in File, k \in 0 .. MAXFILE : Names'[g][k] = Names[g][k]
  BY <1>1, NamesIs, LiveSame DEF Current
<1>3. Owned(Names', InUse') 
  <2>1. InUse' = InUse /\ Owned(Names, InUse)
    BY DEF InUse, Inv, OwnInv
  <2> QED
    BY <1>2, <2>1, OwnedSame
<1> QED
  BY <1>1, <1>3 DEF Inv, OwnInv, Fresh

\* What was written stays.
LEMMA WrittenKept ==
  ASSUME NEW m, NEW m2, NEW e, NEW e2, NEW f, NEW i, WrittenAt(m, e, f, i),
         SlotAt(m2, e2, i \div BSIZE) = SlotAt(m, e, i \div BSIZE),
         \/ m2[SlotAt(m, e, i \div BSIZE)][i % BSIZE] = m[SlotAt(m, e, i \div BSIZE)][i % BSIZE]
         \/ m2[SlotAt(m, e, i \div BSIZE)][i % BSIZE] \in Good(f)
  PROVE  WrittenAt(m2, e2, f, i)
BY DEF WrittenAt

LEMMA LogKept ==
  ASSUME NEW t, NEW o \in Nat, NEW m, NEW m2, NEW e, NEW e2, LogOk(t, o, m, e),
         t.n1 \in Nat, t.pc \in {"write", "finish"} => o + t.n1 <= MAXFILE * BSIZE /\ t.n1 > 0,
         \A k \in 0 .. MAXFILE : SlotAt(m, e, k) # 0 => SlotAt(m2, e2, k) = SlotAt(m, e, k)
  PROVE  LogOk(t, o, m2, e2)
<1>1. ASSUME t.pc \in {"write", "finish"}
      PROVE  Touched(o, t.n1) \subseteq 0 .. MAXFILE /\ Filled(o, t.n1) \subseteq 0 .. MAXFILE
  <2>1. o \div BSIZE \in Nat
    BY DivMod
  <2>2. (o + t.n1 - 1) \div BSIZE \in 0 .. MAXFILE - 1
    BY <1>1, DivBound, Sizes
  <2> HIDE DEF MAXFILE
  <2> QED
    BY <2>1, <2>2, Sizes DEF Touched, Filled
<1>2. ASSUME t.pc \in {"write", "finish"}, NEW x \in t.logged
      PROVE  \/ \E k \in Touched(o, t.n1) : SlotAt(m2, e2, k) # 0 /\ x = DBLOCK(SlotAt(m2, e2, k))
             \/ \E k \in Filled(o, t.n1) : SlotAt(m2, e2, k) # 0 /\ x = BBLOCK(SlotAt(m2, e2, k))
  <2>1. CASE \E k \in Touched(o, t.n1) : SlotAt(m, e, k) # 0 /\ x = DBLOCK(SlotAt(m, e, k))
    BY <1>1, <1>2, <2>1
  <2>2. CASE \E k \in Filled(o, t.n1) : SlotAt(m, e, k) # 0 /\ x = BBLOCK(SlotAt(m, e, k))
    BY <1>1, <1>2, <2>2
  <2> QED
    BY <1>2, <2>1, <2>2 DEF LogOk
<1> QED
  BY <1>2 DEF LogOk

-----------------------------------------------------------------------------
(* Control: a process of the kernel moves.                                 *)

\* Process p is at t afterwards; only p's file may change.
Moves(p, t) ==
  /\ made /\ UNCHANGED <<made, freeblock>>
  /\ th' = [th EXCEPT ![p] = t]
  /\ \A q \in Proc \ {p} : off'[q] = off[q]
  /\ \A g \in File : ip'[g] = ip[g] \/ (th[p].pc \in Inside /\ g = th[p].f)

LEMMA CtlStep ==
  ASSUME Inv, NEW p \in Proc, NEW t \in Thread, Moves(p, t),
         bitmap' \subseteq Block, blk' \in [Block -> [Cells -> Cell]],
         ip' \in [File -> Inode], dinode' \in [File -> Inode],
         off' \in [Proc -> Nat], lock' \in [File -> Proc \cup {NoProc}],
         t.pc \in Inside => lock'[t.f] = p,
         \A g \in File : lock'[g] = p => t.f = g /\ t.pc \in Inside,
         \A g \in File, q \in Proc \ {p} : lock'[g] = q <=> lock[g] = q,
         CallOk(t, off'[p], ip'[t.f]),
         \A g \in File : lock'[g] = NoProc => dinode'[g] = ip'[g]
  PROVE  CtlInv'
<1>1. th \in [Proc -> Thread] /\ th' \in [Proc -> Thread] /\ freeblock \in 0 .. FSSIZE
  BY DEF Inv, CtlInv, TypeOK, Thread, LogIds, Moves
<1>2. /\ th'[p] = t /\ \A q \in Proc \ {p} : th'[q] = th[q]
      /\ made /\ made' = made /\ freeblock' = freeblock
  BY <1>1 DEF Moves
<1>3. TypeOK'
  BY <1>1, <1>2 DEF TypeOK, Thread, LogIds
<1>4. LocksHeld'
  <2>1. ASSUME NEW q \in Proc, th'[q].pc \in Inside PROVE lock'[th'[q].f] = q
    <3>1. CASE q = p
      BY <1>2, <2>1, <3>1
    <3>2. CASE q # p
      <4>1. lock[th[q].f] = q /\ th[q].f \in File
        BY <1>1, <1>2, <2>1, <3>2 DEF Inv, CtlInv, LocksHeld, Thread
      <4> QED
        BY <1>2, <3>2, <4>1
    <3> QED
      BY <3>1, <3>2
  <2>2. ASSUME NEW g \in File, lock'[g] # NoProc
        PROVE  th'[lock'[g]].f = g /\ th'[lock'[g]].pc \in Inside
    <3>1. lock'[g] \in Proc
      BY <2>2
    <3>2. CASE lock'[g] = p
      BY <1>2, <3>2
    <3>3. CASE lock'[g] # p
      <4>1. lock[g] = lock'[g] /\ th'[lock[g]] = th[lock[g]]
        BY <1>2, <3>1, <3>3
      <4> QED
        BY <2>2, <4>1 DEF Inv, CtlInv, LocksHeld
    <3> QED
      BY <3>2, <3>3
  <2> QED
    BY <1>2, <2>1, <2>2 DEF LocksHeld
<1>5. ASSUME NEW q \in Proc PROVE CallOk(th'[q], off'[q], ip'[th'[q].f])
  <2>1. CASE q = p
    BY <1>2, <2>1
  <2>2. CASE q # p
    <3>1. /\ CallOk(th[q], off[q], ip[th[q].f]) /\ th'[q] = th[q] /\ off'[q] = off[q]
          /\ th[q].f \in File
      BY <1>1, <1>2, <2>2 DEF Inv, CtlInv, Moves, Thread
    <3>2. th[q].pc = "trunc" => ip'[th[q].f] = ip[th[q].f]
      BY <2>2, <3>1, InsideAlone DEF Moves, Inside
    <3> QED
      BY <3>1, <3>2 DEF CallOk
  <2> QED
    BY <2>1, <2>2
<1>6. Synced'
  BY DEF Synced
<1> QED
  BY <1>3, <1>4, <1>5, <1>6 DEF CtlInv

\* The other processes' logs and data.
LEMMA OthersLog ==
  ASSUME Inv, NEW p \in Proc, NEW t \in Thread, Moves(p, t),
         \A g \in File, k \in 0 .. MAXFILE :
           SlotAt(blk, ip[g], k) # 0 /\ ~ (th[p].pc = "trunc" /\ g = th[p].f) =>
             SlotAt(blk', ip'[g], k) = SlotAt(blk, ip[g], k),
         LogOk(t, off'[p], blk', ip'[t.f])
  PROVE  LogInv'
<1>1. th \in [Proc -> Thread] /\ off \in [Proc -> Nat]
  BY DEF Inv, CtlInv, TypeOK, Thread, LogIds
<1>2. th'[p] = t /\ \A q \in Proc \ {p} : th'[q] = th[q] /\ off'[q] = off[q]
  BY <1>1 DEF Moves
<1>3. ASSUME NEW q \in Proc PROVE LogOk(th'[q], off'[q], blk', ip'[th'[q].f])
  <2>1. CASE q = p
    BY <1>2, <2>1
  <2>2. CASE q # p
    <3>1. /\ LogOk(th[q], off[q], blk, ip[th[q].f]) /\ CallOk(th[q], off[q], ip[th[q].f])
          /\ th[q].f \in File /\ th[q].n1 \in Nat /\ off[q] \in Nat
      BY <1>1 DEF Inv, LogInv, CtlInv, Thread
    <3>2. CASE th[q].pc \in {"write", "finish"}
      <4>1. ~ (th[p].pc = "trunc" /\ th[q].f = th[p].f)
        BY <2>2, <3>2, InsideAlone DEF Inside
      <4>2. \A k \in 0 .. MAXFILE : SlotAt(blk, ip[th[q].f], k) # 0 =>
              SlotAt(blk', ip'[th[q].f], k) = SlotAt(blk, ip[th[q].f], k)
        BY <3>1, <4>1
      <4>3. off[q] + th[q].n1 <= MAXFILE * BSIZE /\ th[q].n1 > 0
        BY <3>1, <3>2 DEF CallOk
      <4> QED
        BY <1>2, <2>2, <3>1, <4>2, <4>3, LogKept
    <3>3. CASE th[q].pc \notin {"write", "finish"}
      BY <1>2, <2>2, <3>1, <3>3 DEF LogOk
    <3> QED
      BY <3>2, <3>3
  <2> QED
    BY <2>1, <2>2
<1> QED
  BY <1>3 DEF LogInv

\* The files that p does not work on keep their bytes.
LEMMA DataStep ==
  ASSUME Inv, NEW p \in Proc, NEW t \in Thread, Moves(p, t),
         th[p].pc \in Inside => th[p].f = t.f,
         \A g \in File \ {t.f}, k \in 0 .. MAXFILE - 1 :
           ~ Truncating(g) /\ SlotAt(blk, ip[g], k) # 0 =>
             /\ SlotAt(blk', ip'[g], k) = SlotAt(blk, ip[g], k)
             /\ blk'[SlotAt(blk, ip[g], k)] = blk[SlotAt(blk, ip[g], k)],
         ip'[t.f].size <= MAXFILE * BSIZE,
         ~ Truncating(t.f)' => \A i \in 0 .. ip'[t.f].size - 1 : WrittenAt(blk', ip'[t.f], t.f, i),
         \A q \in Proc : th'[q].pc \in {"write", "finish"} /\ th'[q].f = t.f =>
           \A i \in 0 .. (off'[q] + th'[q].tot) - 1 : WrittenAt(blk', ip'[t.f], t.f, i)
  PROVE  DataInv'
<1>1. /\ th \in [Proc -> Thread] /\ off \in [Proc -> Nat] /\ ip \in [File -> Inode]
      /\ \A q \in Proc : CallOk(th[q], off[q], ip[th[q].f])
  BY DEF Inv, CtlInv, TypeOK, Thread, LogIds
<1>2. /\ th'[p] = t /\ (\A q \in Proc \ {p} : th'[q] = th[q] /\ off'[q] = off[q])
      /\ made /\ made'
  BY <1>1 DEF Moves
<1>3. \A g \in File \ {t.f} : ip'[g] = ip[g]
  BY DEF Moves
<1>4. \A f \in File : Current(f)' = ip'[f] /\ Current(f) = ip[f]
  BY <1>2 DEF Current
<1>5. \A g \in File \ {t.f} : Truncating(g)' <=> Truncating(g)
  <2> SUFFICES ASSUME NEW g \in File \ {t.f} PROVE Truncating(g)' <=> Truncating(g)
    OBVIOUS
  <2>1. \A q \in Proc : (th'[q].f = g /\ th'[q].pc = "trunc") <=> (th[q].f = g /\ th[q].pc = "trunc")
    BY <1>2 DEF Inside
  <2> QED
    BY <2>1 DEF Truncating
<1>6. ASSUME NEW g \in File \ {t.f}, ~ Truncating(g), NEW i \in Nat, i < MAXFILE * BSIZE,
             WrittenAt(blk, ip[g], g, i)
      PROVE  WrittenAt(blk', ip'[g], g, i)
  <2>1. i \div BSIZE \in 0 .. MAXFILE - 1
    BY <1>6, DivBound, Sizes
  <2>2. SlotAt(blk, ip[g], i \div BSIZE) # 0
    BY <1>6 DEF WrittenAt
  <2>3. /\ SlotAt(blk', ip'[g], i \div BSIZE) = SlotAt(blk, ip[g], i \div BSIZE)
        /\ blk'[SlotAt(blk, ip[g], i \div BSIZE)] = blk[SlotAt(blk, ip[g], i \div BSIZE)]
    BY <1>6, <2>1, <2>2
  <2> QED
    BY <1>6, <2>3, WrittenKept
<1>7. \A f \in File : Current(f)'.size <= MAXFILE * BSIZE
  BY <1>2, <1>3, <1>4 DEF Inv, DataInv
<1>8. ASSUME NEW f \in File, ~ Truncating(f)', NEW i \in 0 .. Current(f)'.size - 1
      PROVE  WrittenAt(blk', Current(f)', f, i)
  <2>1. CASE f = t.f
    BY <1>4, <1>8, <2>1
  <2>2. CASE f # t.f
    <3>1. ~ Truncating(f) /\ ip'[f] = ip[f] /\ ip[f].size \in Nat
      BY <1>1, <1>3, <1>5, <1>8, <2>2 DEF Inode
    <3>2. WrittenAt(blk, ip[f], f, i) /\ ip[f].size <= MAXFILE * BSIZE
      BY <1>4, <1>8, <3>1 DEF Inv, DataInv
    <3>3. i \in Nat /\ i < MAXFILE * BSIZE
      BY <1>4, <1>8, <3>1, <3>2, Sizes
    <3> QED
      BY <1>4, <1>6, <2>2, <3>1, <3>2, <3>3
  <2> QED
    BY <2>1, <2>2
<1>9. ASSUME NEW q \in Proc, th'[q].pc \in {"write", "finish"}, NEW i \in 0 .. (off'[q] + th'[q].tot) - 1
      PROVE  WrittenAt(blk', ip'[th'[q].f], th'[q].f, i)
  <2>1. CASE th'[q].f = t.f
    BY <1>9, <2>1
  <2>2. CASE th'[q].f # t.f
    <3>1. q # p /\ th'[q] = th[q] /\ off'[q] = off[q]
      BY <1>2, <2>2
    <3>2. /\ th[q].f \in File \ {t.f} /\ ~ Truncating(th[q].f)
          /\ off[q] \in Nat /\ th[q].tot \in Nat /\ th[q].n1 \in Nat
      BY <1>1, <1>9, <2>2, <3>1, WriterNames DEF Thread
    <3>3. th[q].tot <= th[q].n1 /\ off[q] + th[q].n1 <= MAXFILE * BSIZE
      BY <1>1, <1>9, <3>1 DEF CallOk
    <3>4. i \in Nat /\ i < MAXFILE * BSIZE
      BY <1>9, <3>1, <3>2, <3>3, Sizes
    <3>5. WrittenAt(blk, ip[th[q].f], th[q].f, i)
      BY <1>9, <3>1 DEF Inv, DataInv, Pos
    <3> QED
      BY <1>6, <3>1, <3>2, <3>4, <3>5
  <2> QED
    BY <2>1, <2>2
<1> QED
  BY <1>2, <1>7, <1>8, <1>9 DEF DataInv, Pos

\* A step that only moves the process.
LEMMA SteadyStep ==
  ASSUME Inv, NEW p \in Proc, NEW t \in Thread, Moves(p, t),
         UNCHANGED <<bitmap, blk, ip, dinode>>, off' \in [Proc -> Nat],
         th[p].pc \notin Inside, t.logged = {}, t.pc # "finish",
         t.pc = "trunc" => t.tot = 0,
         t.pc = "write" => ~ Truncating(t.f) /\ off'[p] + t.tot <= ip[t.f].size
  PROVE  OwnInv' /\ DataInv' /\ LogInv'
<1>1. th \in [Proc -> Thread] /\ off \in [Proc -> Nat] /\ ip \in [File -> Inode] /\ t.f \in File
  BY DEF Inv, CtlInv, TypeOK, Thread, LogIds
<1>2. /\ th'[p] = t /\ (\A q \in Proc \ {p} : th'[q] = th[q] /\ off'[q] = off[q])
      /\ made /\ made'
  BY <1>1 DEF Moves
<1>3. OwnInv'
  <2>1. \A g \in File, k \in 0 .. MAXFILE : Live(g, k)' <=> Live(g, k)
    <3>1. th[p].pc # "trunc" /\ (t.pc = "trunc" => t.tot = 0)
      BY DEF Inside
    <3>2. \A k \in 0 .. MAXFILE : k >= 0
      OBVIOUS
    <3> QED
      BY <1>2, <3>1, <3>2 DEF Live
  <2>2. \A g \in File, k \in 0 .. MAXFILE : Names'[g][k] = Names[g][k]
    BY <1>2, <2>1, NamesIs DEF Current
  <2>3. InUse' = InUse /\ Owned(Names, InUse)
    BY <1>2 DEF InUse, Inv, OwnInv
  <2>4. Owned(Names', InUse')
    BY <2>2, <2>3, OwnedSame
  <2> QED
    BY <1>2, <2>4 DEF Inv, OwnInv, Fresh, Moves
<1>4. LogInv'
  <2>1. LogOk(t, off'[p], blk', ip'[t.f])
    <3>1. IsFiniteSet({}) /\ Cardinality({}) = 0
      BY FS_EmptySet
    <3> QED
      BY <3>1 DEF LogOk
  <2> QED
    BY <2>1, OthersLog
<1>5. DataInv'
  <2>1. ip'[t.f].size <= MAXFILE * BSIZE
    BY <1>1, <1>2 DEF Inv, DataInv, Current
  <2>2. ASSUME ~ Truncating(t.f)', NEW i \in 0 .. ip'[t.f].size - 1
        PROVE  WrittenAt(blk', ip'[t.f], t.f, i)
    <3>1. ~ Truncating(t.f)
      BY <1>2, <2>2 DEF Truncating, Inside
    <3> QED
      BY <1>1, <1>2, <2>2, <3>1 DEF Inv, DataInv, Current
  <2>3. ASSUME NEW q \in Proc, th'[q].pc \in {"write", "finish"}, th'[q].f = t.f,
               NEW i \in 0 .. (off'[q] + th'[q].tot) - 1
        PROVE  WrittenAt(blk', ip'[t.f], t.f, i)
    <3>1. CASE q = p
      <4>1. ~ Truncating(t.f) /\ off'[p] + t.tot <= ip[t.f].size /\ ip[t.f].size \in Nat /\ t.tot \in Nat
        BY <1>1, <1>2, <2>3, <3>1 DEF Thread, Inode
      <4>2. i \in 0 .. ip[t.f].size - 1
        BY <1>2, <2>3, <3>1, <4>1
      <4> QED
        BY <1>1, <1>2, <4>1, <4>2 DEF Inv, DataInv, Current
    <3>2. CASE q # p
      BY <1>2, <2>3, <3>2 DEF Inv, DataInv, Pos
    <3> QED
      BY <3>1, <3>2
  <2> QED
    BY <2>1, <2>2, <2>3, DataStep
<1> QED
  BY <1>3, <1>4, <1>5

-----------------------------------------------------------------------------
(* Calls that begin, end early, or only read.                              *)

LEMMA IdleType == ASSUME NEW f \in File PROVE [Idle EXCEPT !.f = f] \in Thread /\ Idle \in Thread
BY DEF Idle, Thread, File

LEMMA ChunkType ==
  ASSUME NEW f \in File, NEW n \in Nat,
         NEW c, c = [pc |-> "chunk", f |-> f, left |-> n, n1 |-> 0, tot |-> 0, logged |-> {}]
  PROVE  c \in Thread /\ c.f = f /\ c.pc = "chunk" /\ c.logged = {} /\ c.left = n
BY DEF Idle, Thread, File

LEMMA ChunkPos == MaxChunk \in Nat /\ MaxChunk > 0
<1> DEFINE K == (MAXOPBLOCKS - 1 - 1 - 2) \div 2
<1>1. K \in Nat /\ K >= 1
  OBVIOUS
<1> HIDE DEF K
<1>2. K * BSIZE \in Nat /\ K * BSIZE > 0
  BY <1>1
<1> QED
  BY <1>2 DEF MaxChunk, K

\* The state that the proofs of the steps of a process start from.
LEMMA Before ==
  ASSUME Inv, NEW p \in Proc
  PROVE  /\ th \in [Proc -> Thread] /\ th[p] \in Thread /\ th[p].f \in File
         /\ off \in [Proc -> Nat] /\ off[p] \in Nat
         /\ ip \in [File -> Inode] /\ dinode \in [File -> Inode]
         /\ blk \in [Block -> [Cells -> Cell]] /\ bitmap \subseteq Block
         /\ lock \in [File -> Proc \cup {NoProc}]
         /\ CallOk(th[p], off[p], ip[th[p].f])
         /\ made => \A f \in File : lock[f] = NoProc => dinode[f] = ip[f]
         /\ \A f \in File : lock[f] = p => th[p].f = f /\ th[p].pc \in Inside
         /\ th[p].pc # "user" => made
BY DEF Inv, CtlInv, TypeOK, Thread, LogIds, LocksHeld, Synced

LEMMA WriteStep ==
  ASSUME Inv, NEW p \in Proc, NEW n \in Counts, Write(p, n)
  PROVE  Inv'
<1> DEFINE t == [th[p] EXCEPT !.pc = "chunk", !.left = n]
<1>1. t \in Thread /\ t.pc = "chunk" /\ t.f = th[p].f /\ t.logged = {} /\ t.left > 0
  <2>1. th[p] \in Thread /\ th[p].logged = {} /\ n \in Nat /\ n > 0
    BY Before DEF Write, CallOk
  <2> QED
    BY <2>1 DEF Thread
<1>2. Moves(p, t)
  BY Before DEF Write, Moves
<1>3. CallOk(t, off'[p], ip'[t.f])
  BY <1>1 DEF CallOk
<1> HIDE DEF t
<1>4. CtlInv'
  BY <1>1, <1>2, <1>3, Before, CtlStep DEF Write, Inside
<1>5. OwnInv' /\ DataInv' /\ LogInv'
  BY <1>1, <1>2, Before, SteadyStep DEF Write, Inside
<1> QED
  BY <1>4, <1>5 DEF Inv

LEMMA ReadStep ==
  ASSUME Inv, NEW p \in Proc, NEW n \in Counts, Read(p, n)
  PROVE  Inv'
<1> DEFINE t == th[p]
<1>1. t \in Thread /\ t.pc = "user" /\ t.logged = {}
  BY Before DEF Read, CallOk
<1>2. readi(ip[th[p].f], off[p], n) \in Nat
  BY Before DEF readi, min, Inode
<1>3. off' \in [Proc -> Nat] /\ \A q \in Proc \ {p} : off'[q] = off[q]
  BY <1>2, Before DEF Read
<1>4. Moves(p, t)
  BY <1>3, Before DEF Read, Moves
<1>5. CallOk(t, off'[p], ip'[t.f])
  BY <1>1 DEF CallOk
<1>6. CtlInv'
  BY <1>1, <1>3, <1>4, <1>5, Before, CtlStep DEF Read, Inside
<1>7. OwnInv' /\ DataInv' /\ LogInv'
  BY <1>1, <1>3, <1>4, Before, SteadyStep DEF Read, Inside
<1> QED
  BY <1>6, <1>7 DEF Inv

LEMMA OpenStep ==
  ASSUME Inv, NEW p \in Proc, NEW f \in File, Open(p, f)
  PROVE  Inv'
<1> DEFINE t == [Idle EXCEPT !.f = f]
<1>1. t \in Thread /\ t.pc = "user" /\ t.logged = {} /\ t.f = f
  BY IdleType DEF Idle
<1>2. off' \in [Proc -> Nat] /\ \A q \in Proc \ {p} : off'[q] = off[q]
  BY Before DEF Open
<1>3. Moves(p, t)
  BY <1>2, Before DEF Open, Moves
<1>4. CallOk(t, off'[p], ip'[t.f])
  BY <1>1 DEF CallOk
<1> HIDE DEF t
<1>5. CtlInv'
  BY <1>1, <1>2, <1>3, <1>4, Before, CtlStep DEF Open, Inside
<1>6. OwnInv' /\ DataInv' /\ LogInv'
  BY <1>1, <1>2, <1>3, Before, SteadyStep DEF Open, Inside
<1> QED
  BY <1>5, <1>6 DEF Inv

LEMMA OpenTruncStep ==
  ASSUME Inv, NEW p \in Proc, NEW f \in File, OpenTrunc(p, f)
  PROVE  Inv'
<1> DEFINE t == [Idle EXCEPT !.pc = "trunc", !.f = f]
<1>1. t \in Thread /\ t.pc = "trunc" /\ t.logged = {} /\ t.f = f /\ t.tot = 0
  BY DEF Idle, Thread
<1>2. off' \in [Proc -> Nat] /\ \A q \in Proc \ {p} : off'[q] = off[q]
  BY Before DEF OpenTrunc
<1>3. Moves(p, t)
  BY <1>2, Before DEF OpenTrunc, Moves
<1>4. CallOk(t, off'[p], ip'[t.f])
  BY <1>1, Sizes DEF CallOk
<1> HIDE DEF t
<1>5. lock' \in [File -> Proc \cup {NoProc}] /\ lock' = [lock EXCEPT ![f] = p] /\ lock[f] = NoProc
  BY Before DEF OpenTrunc
<1>6. CtlInv'
  <2>1. \A g \in File : lock'[g] = p => t.f = g /\ t.pc \in Inside
    BY <1>1, <1>5, Before DEF OpenTrunc, Inside
  <2>2. \A g \in File, q \in Proc \ {p} : lock'[g] = q <=> lock[g] = q
    BY <1>5, Before
  <2>3. \A g \in File : lock'[g] = NoProc => dinode'[g] = ip'[g]
    BY <1>5, Before DEF OpenTrunc
  <2>4. lock'[t.f] = p
    BY <1>1, <1>5, Before
  <2> QED
    BY <1>1, <1>2, <1>3, <1>4, <1>5, <2>1, <2>2, <2>3, <2>4, Before, CtlStep DEF OpenTrunc
<1>7. OwnInv' /\ DataInv' /\ LogInv'
  BY <1>1, <1>2, <1>3, Before, SteadyStep DEF OpenTrunc, Inside
<1> QED
  BY <1>6, <1>7 DEF Inv

LEMMA WriteChunkStep ==
  ASSUME Inv, NEW p \in Proc, WriteChunk(p)
  PROVE  Inv'
<1> DEFINE f == th[p].f
           n1 == min(th[p].left, MaxChunk)
           early == off[p] > ip[f].size \/ off[p] + n1 > MAXFILE * BSIZE
           t == IF early THEN [Idle EXCEPT !.f = f]
                ELSE [th[p] EXCEPT !.pc = "write", !.n1 = n1, !.tot = 0]
<1>1. /\ th[p] \in Thread /\ th[p].logged = {} /\ th[p].left > 0 /\ th[p].pc = "chunk" /\ f \in File
      /\ lock[f] = NoProc /\ off[p] \in Nat /\ made
  BY Before DEF WriteChunk, CallOk
<1>2. n1 \in Nat /\ n1 \in 1 .. MaxChunk
  BY <1>1, ChunkPos DEF min, Thread
<1>3. /\ t \in Thread /\ t.logged = {} /\ t.f = f /\ t.pc = IF early THEN "user" ELSE "write"
      /\ ~ early => t.n1 = n1 /\ t.tot = 0
  <2>1. CASE early
    BY <1>1, <2>1, IdleType DEF Idle
  <2>2. CASE ~ early
    BY <1>1, <1>2, <2>2 DEF Thread
  <2> QED
    BY <2>1, <2>2
<1>4. Moves(p, t)
  <2>1. th' = [th EXCEPT ![p] = t]
    BY Before DEF WriteChunk
  <2> QED
    BY <1>1, <2>1 DEF WriteChunk, Moves
<1>5. CallOk(t, off'[p], ip'[t.f])
  <2>1. CASE early
    BY <1>3, <2>1 DEF CallOk
  <2>2. CASE ~ early
    <3>1. MAXFILE * BSIZE \in Nat
      BY Sizes
    <3>2. off[p] + n1 <= MAXFILE * BSIZE /\ off'[p] = off[p]
      BY <1>1, <1>2, <2>2, <3>1 DEF WriteChunk
    <3> QED
      BY <1>2, <1>3, <2>2, <3>2 DEF CallOk
  <2> QED
    BY <2>1, <2>2
<1>6. lock' = IF early THEN lock ELSE [lock EXCEPT ![f] = p]
  BY DEF WriteChunk
<1> HIDE DEF t
<1>7. CtlInv'
  <2>1. t.pc \in Inside => lock'[t.f] = p
    BY <1>1, <1>3, <1>6, Before DEF Inside
  <2>2. \A g \in File : lock'[g] = p => t.f = g /\ t.pc \in Inside
    BY <1>1, <1>3, <1>6, Before DEF Inside
  <2>3. \A g \in File, q \in Proc \ {p} : lock'[g] = q <=> lock[g] = q
    BY <1>1, <1>6, Before
  <2>4. \A g \in File : lock'[g] = NoProc => dinode'[g] = ip'[g]
    BY <1>1, <1>6, Before DEF WriteChunk
  <2>5. lock' \in [File -> Proc \cup {NoProc}]
    BY <1>6, Before
  <2> QED
    BY <1>3, <1>4, <1>5, <2>1, <2>2, <2>3, <2>4, <2>5, Before, CtlStep DEF WriteChunk
<1>8. OwnInv' /\ DataInv' /\ LogInv'
  <2>1. ~ Truncating(f)
    <3>1. \A q \in Proc : th[q].pc = "trunc" => lock[th[q].f] = q
      BY DEF Inv, CtlInv, LocksHeld, Inside
    <3> QED
      BY <1>1, <3>1 DEF Truncating
  <2>2. ~ early => off'[p] + t.tot <= ip[t.f].size
    BY <1>1, <1>3, Before DEF WriteChunk, Inode
  <2> QED
    BY <1>1, <1>3, <1>4, <2>1, <2>2, Before, SteadyStep DEF WriteChunk, Inside
<1> QED
  BY <1>7, <1>8 DEF Inv

-----------------------------------------------------------------------------
(* writei().                                                               *)

\* Nobody else works on the file of a writer.
LEMMA WriterAlone ==
  ASSUME Inv, NEW p \in Proc, th[p].pc \in {"write", "finish"}, NEW q \in Proc, q # p
  PROVE  ~ (th[q].pc \in Inside /\ th[q].f = th[p].f)
BY InsideAlone DEF Inside

LEMMA WriterBounds ==
  ASSUME Inv, NEW p \in Proc, th[p].pc \in {"write", "finish"}
  PROVE  /\ off[p] \in Nat /\ th[p].tot \in Nat /\ th[p].n1 \in Nat /\ th[p].n1 > 0
         /\ th[p].tot <= th[p].n1 /\ off[p] + th[p].n1 <= MAXFILE * BSIZE
         /\ Pos(p) = off[p] + th[p].tot /\ Pos(p) \in Nat
         /\ MAXFILE * BSIZE \in Nat
<1>1. MAXFILE * BSIZE \in Nat
  BY Sizes
<1>2. th[p] \in Thread /\ off[p] \in Nat /\ CallOk(th[p], off[p], ip[th[p].f])
  BY Before
<1>3. th[p].tot \in Nat /\ th[p].n1 \in Nat
  BY <1>2 DEF Thread
<1>4. th[p].n1 > 0 /\ th[p].tot <= th[p].n1 /\ off[p] + th[p].n1 <= MAXFILE * BSIZE
  BY <1>2, ChunkPos DEF CallOk
<1> QED
  BY <1>1, <1>2, <1>3, <1>4 DEF Pos

LEMMA WriteEndStep ==
  ASSUME Inv, NEW p \in Proc, WriteEnd(p)
  PROVE  Inv'
<1> DEFINE f == th[p].f
           t == AfterChunk(th[p])
           e == [ip[f] EXCEPT !.size = IF Pos(p) > @ THEN Pos(p) ELSE @]
<1>1. /\ th[p].pc \in {"write", "finish"} /\ th[p] \in Thread /\ f \in File
      /\ ip' = [ip EXCEPT ![f] = e] /\ dinode' = [dinode EXCEPT ![f] = e]
      /\ off' = [off EXCEPT ![p] = Pos(p)] /\ lock' = [lock EXCEPT ![f] = NoProc]
      /\ th' = [th EXCEPT ![p] = t] /\ UNCHANGED <<made, freeblock, bitmap, blk>>
  BY Before DEF WriteEnd
<1>2. /\ t \in Thread /\ t.f = f /\ t.pc \in {"user", "chunk"} /\ t.logged = {}
      /\ t.pc = "chunk" => t.left > 0
  <2>1. CASE th[p].tot = th[p].n1 /\ th[p].left > th[p].n1
    <3>1. t = [Idle EXCEPT !.pc = "chunk", !.f = th[p].f, !.left = th[p].left - th[p].n1]
      BY <2>1 DEF AfterChunk
    <3>2. th[p].left - th[p].n1 \in Nat /\ th[p].left - th[p].n1 > 0
      BY <1>1, <2>1 DEF Thread
    <3> QED
      <4> DEFINE n == th[p].left - th[p].n1
      <4>1. f \in File /\ n \in Nat /\ n > 0 
        BY <1>1, <3>2
      <4>3. t = [pc |-> "chunk", f |-> f, left |-> n, n1 |-> 0, tot |-> 0, logged |-> {}]
        BY <3>1 DEF Idle
      <4> HIDE DEF t, f, n
      <4>2. t \in Thread /\ t.f = f /\ t.pc = "chunk" /\ t.logged = {} /\ t.left = n
        BY <4>1, <4>3, ChunkType
      <4> QED
        BY <4>1, <4>2
  <2>2. CASE ~ (th[p].tot = th[p].n1 /\ th[p].left > th[p].n1)
    <3>1. t = [Idle EXCEPT !.f = th[p].f]
      BY <2>2 DEF AfterChunk
    <3> QED
      BY <1>1, <3>1, IdleType DEF Idle
  <2> QED
    BY <2>1, <2>2
<1>3. /\ Pos(p) \in Nat /\ Pos(p) <= MAXFILE * BSIZE /\ MAXFILE * BSIZE \in Nat
  BY <1>1, WriterBounds
<1>4. ip[f] \in Inode /\ ~ Truncating(f) /\ made /\ lock[f] = p
  BY <1>1, WriterNames
<1>5. e \in Inode /\ e.addrs = ip[f].addrs /\ e.size = IF Pos(p) > ip[f].size THEN Pos(p) ELSE ip[f].size
  BY <1>3, <1>4 DEF Inode
<1> HIDE DEF e, t
<1>6. /\ ip' \in [File -> Inode] /\ dinode' \in [File -> Inode] /\ off' \in [Proc -> Nat]
      /\ lock' \in [File -> Proc \cup {NoProc}]
      /\ ip'[f] = e /\ dinode'[f] = e /\ lock'[f] = NoProc
      /\ \A g \in File \ {f} : ip'[g] = ip[g] /\ dinode'[g] = dinode[g] /\ lock'[g] = lock[g]
      /\ \A q \in Proc \ {p} : off'[q] = off[q] /\ th'[q] = th[q]
      /\ th'[p] = t
  BY <1>1, <1>3, <1>5, Before
<1>7. Moves(p, t)
  BY <1>1, <1>4, <1>6 DEF Moves, Inside
<1>8. CtlInv'
  <2>1. CallOk(t, off'[p], ip'[t.f])
    BY <1>2 DEF CallOk
  <2>2. \A g \in File : lock'[g] = p => t.f = g /\ t.pc \in Inside
    BY <1>1, <1>6, Before
  <2>3. \A g \in File, q \in Proc \ {p} : lock'[g] = q <=> lock[g] = q
    BY <1>4, <1>6
  <2>4. \A g \in File : lock'[g] = NoProc => dinode'[g] = ip'[g]
    BY <1>4, <1>6, Before
  <2>5. bitmap' \subseteq Block /\ blk' \in [Block -> [Cells -> Cell]]
    BY <1>1, Before
  <2> QED
    BY <1>2, <1>6, <1>7, <2>1, <2>2, <2>3, <2>4, <2>5, CtlStep DEF Inside
<1>9. SameTrunc
  BY <1>1, <1>2, <1>6 DEF SameTrunc
<1>10. \A g \in File : ip'[g].addrs = ip[g].addrs
  BY <1>5, <1>6
<1>11. OwnInv' /\ \A g \in File, k \in 0 .. MAXFILE : SlotAt(blk', ip'[g], k) = SlotAt(blk, ip[g], k)
  BY <1>1, <1>4, <1>9, <1>10, SteadyOwn
<1>12. LogInv'
  <2>1. LogOk(t, off'[p], blk', ip'[t.f])
    BY <1>2 DEF LogOk
  <2> QED
    BY <1>2, <1>7, <1>11, <2>1, OthersLog
<1>13. DataInv'
  <2>1. \A g \in File \ {t.f}, k \in 0 .. MAXFILE - 1 :
          /\ SlotAt(blk', ip'[g], k) = SlotAt(blk, ip[g], k)
          /\ blk'[SlotAt(blk, ip[g], k)] = blk[SlotAt(blk, ip[g], k)]
    BY <1>1, <1>11, Sizes
  <2>2. ip'[t.f].size <= MAXFILE * BSIZE
    <3>1. ip[f].size <= MAXFILE * BSIZE
      BY <1>1, <1>4 DEF Inv, DataInv, Current
    <3> QED
      BY <1>2, <1>3, <1>5, <1>6, <3>1
  <2>3. ASSUME NEW i \in 0 .. ip'[t.f].size - 1
        PROVE  WrittenAt(blk', ip'[t.f], t.f, i)
    <3>1. i \in 0 .. ip[f].size - 1 \/ i \in 0 .. Pos(p) - 1
      BY <1>2, <1>5, <1>6, <2>3
    <3>2. WrittenAt(blk, ip[f], f, i)
      BY <1>1, <1>4, <3>1 DEF Inv, DataInv, Current
    <3>3. SlotAt(blk', ip'[f], i \div BSIZE) = SlotAt(blk, ip[f], i \div BSIZE)
      BY <1>1, <1>10, SlotSame
    <3> QED
      BY <1>1, <1>2, <3>2, <3>3, WrittenKept
  <2>4. \A q \in Proc : ~ (th'[q].pc \in {"write", "finish"} /\ th'[q].f = t.f)
    BY <1>1, <1>2, <1>6, WriterAlone DEF Inside
  <2> QED
    BY <1>2, <1>7, <2>1, <2>2, <2>3, <2>4, DataStep
<1> QED
  BY <1>8, <1>11, <1>12, <1>13 DEF Inv

LEMMA DivMono ==
  ASSUME NEW a \in Nat, NEW b \in Nat, a <= b
  PROVE  a \div BSIZE <= b \div BSIZE
<1> DEFINE q == a \div BSIZE
           s == b \div BSIZE
<1>1. /\ q \in Nat /\ BSIZE * q <= a
      /\ s \in Nat /\ b < BSIZE * s + BSIZE
  BY DivMod
<1> HIDE DEF q, s
<1>2. ~ (s < q)
  <2>1. SUFFICES ASSUME s < q PROVE FALSE
    OBVIOUS
  <2>2. BSIZE * s + BSIZE <= BSIZE * q
    BY <1>1, <2>1, MulStep
  <2> QED
    BY <1>1, <2>2
<1> QED
  BY <1>1, <1>2 DEF q, s

\* The block that the next byte of a writer goes to.
LEMMA NextByte ==
  ASSUME Inv, NEW p \in Proc, th[p].pc \in {"write", "finish"}, th[p].tot < th[p].n1
  PROVE  /\ bn(p) \in 0 .. MAXFILE - 1 /\ bn(p) \in Touched(off[p], th[p].n1)
         /\ Slot(ip[th[p].f], bn(p)) = SlotAt(blk, ip[th[p].f], bn(p))
<1>1. /\ off[p] \in Nat /\ th[p].tot \in Nat /\ th[p].n1 \in Nat
      /\ off[p] + th[p].n1 <= MAXFILE * BSIZE
      /\ Pos(p) = off[p] + th[p].tot /\ Pos(p) \in Nat /\ MAXFILE * BSIZE \in Nat
  BY WriterBounds
<1>2. bn(p) \in 0 .. MAXFILE - 1
  <2>1. Pos(p) \in Nat /\ Pos(p) < MAXFILE * BSIZE
    BY <1>1
  <2> QED
    BY <2>1, Sizes, DivBound DEF bn
<1>3. off[p] \div BSIZE <= bn(p) /\ bn(p) <= (off[p] + th[p].n1 - 1) \div BSIZE
  <2>1. off[p] <= Pos(p) /\ Pos(p) <= off[p] + th[p].n1 - 1 /\ off[p] + th[p].n1 - 1 \in Nat
    BY <1>1
  <2>2. off[p] \div BSIZE <= Pos(p) \div BSIZE
    BY <1>1, <2>1, DivMono
  <2>3. Pos(p) \div BSIZE <= (off[p] + th[p].n1 - 1) \div BSIZE
    BY <1>1, <2>1, DivMono
  <2> QED
    BY <2>2, <2>3 DEF bn
<1>4. off[p] \div BSIZE \in Nat /\ (off[p] + th[p].n1 - 1) \div BSIZE \in Nat
  <2>1. off[p] \in Nat /\ off[p] + th[p].n1 - 1 \in Nat
    BY <1>1
  <2> QED
    BY <2>1, DivMod
<1> QED
  BY <1>2, <1>3, <1>4, SlotIs DEF Touched

\* The block of a byte is no indirect block.
LEMMA DataBlock ==
  ASSUME Inv, NEW p \in Proc, th[p].pc \in {"write", "finish"}, NEW k \in 0 .. MAXFILE - 1,
         NEW b, b = SlotAt(blk, ip[th[p].f], k), b # 0
  PROVE  /\ b \in Block
         /\ \A g \in File : ip[g].addrs[NDIRECT] # 0 => ip[g].addrs[NDIRECT] # b
         /\ \A g \in File, j \in 0 .. MAXFILE :
              ~ Truncating(g) /\ SlotAt(blk, ip[g], j) = b => g = th[p].f /\ j = k
<1>1. /\ made /\ th[p].f \in File /\ k \in 0 .. MAXFILE /\ k # MAXFILE
      /\ \A j \in 0 .. MAXFILE : Names[th[p].f][j] = SlotAt(blk, ip[th[p].f], j)
  BY WriterNames, Sizes
<1>2. /\ b \in Block
      /\ \A g \in File, j \in 0 .. MAXFILE : Names[g][j] = b => g = th[p].f /\ j = k
  BY <1>1, NamesOwned
<1>3. \A g \in File : ip[g].addrs[NDIRECT] # 0 => ip[g].addrs[NDIRECT] # b
  BY <1>1, <1>2, IndirectOwned, Sizes
<1>4. ASSUME NEW g \in File, NEW j \in 0 .. MAXFILE, ~ Truncating(g), SlotAt(blk, ip[g], j) = b
      PROVE  g = th[p].f /\ j = k
  <2>1. Live(g, j)
    BY <1>4 DEF Truncating, Live
  <2>2. Names[g][j] = b
    BY <1>1, <1>4, <2>1, NamesIs DEF Current
  <2> QED
    BY <1>2, <2>2
<1> QED
  BY <1>2, <1>3, <1>4

LEMMA CopyStep ==
  ASSUME Inv, NEW p \in Proc, Copy(p)
  PROVE  Inv'
<1> DEFINE f == th[p].f
           b == Slot(ip[f], bn(p))
           at == Pos(p) % BSIZE
           m == min(th[p].n1 - th[p].tot, BSIZE - at)
           filled(k) == [c \in Cells |-> IF c \in at .. at + k - 1 THEN Mark(f) ELSE blk[b][c]]
           t == th'[p]
<1>1. /\ th[p].pc = "write" /\ th[p].tot < th[p].n1 /\ b # 0 /\ th[p] \in Thread /\ f \in File
      /\ UNCHANGED <<made, freeblock, bitmap, ip, dinode, lock, off>>
      /\ th \in [Proc -> Thread]
  BY Before DEF Copy
<1>2. /\ off[p] \in Nat /\ th[p].tot \in Nat /\ th[p].n1 \in Nat
      /\ off[p] + th[p].n1 <= MAXFILE * BSIZE /\ MAXFILE * BSIZE \in Nat
      /\ Pos(p) = off[p] + th[p].tot /\ Pos(p) \in Nat
  BY <1>1, WriterBounds
<1>3. at \in Nat /\ at < BSIZE
  BY <1>2, DivMod
<1>4. m \in Nat /\ m > 0 /\ at + m <= BSIZE /\ th[p].tot + m <= th[p].n1
  BY <1>1, <1>2, <1>3 DEF min
<1>5. /\ bn(p) \in 0 .. MAXFILE - 1 /\ bn(p) \in Touched(off[p], th[p].n1)
      /\ b = SlotAt(blk, ip[f], bn(p))
  BY <1>1, NextByte
<1>6. /\ b \in Block
      /\ \A g \in File : ip[g].addrs[NDIRECT] # 0 => ip[g].addrs[NDIRECT] # b
      /\ \A g \in File, j \in 0 .. MAXFILE : ~ Truncating(g) /\ SlotAt(blk, ip[g], j) = b => g = f
  BY <1>1, <1>5, DataBlock
<1>7. /\ blk[b] \in [Cells -> Cell] /\ Mark(f) \in Cell /\ blk \in [Block -> [Cells -> Cell]]
      /\ Mark(f) \in Good(f)
  BY <1>1, <1>6, Before DEF Mark, File, Cell, Good
<1> HIDE DEF filled, m
<1>8. PICK k \in 0 .. m :
        /\ blk' = [blk EXCEPT ![b] = filled(k)]
        /\ \/ th' = [th EXCEPT ![p].tot = @ + m, ![p].logged = @ \cup {DBLOCK(b)}] /\ k = m
           \/ th' = [th EXCEPT ![p].pc = "finish"]
  <2>1. CASE /\ blk' = [blk EXCEPT ![b] = filled(m)]
             /\ th' = [th EXCEPT ![p].tot = @ + m, ![p].logged = @ \cup {DBLOCK(b)}]
    <3>1. m \in 0 .. m
      BY <1>4
    <3> QED
      BY <2>1, <3>1, Zenon
  <2>2. CASE \E k \in 0 .. m - 1 :
               /\ blk' = [blk EXCEPT ![b] = filled(k)]
               /\ th' = [th EXCEPT ![p].pc = "finish"]
    <3>1. \A k \in 0 .. m - 1 : k \in 0 .. m
      BY <1>4
    <3> QED
      BY <2>2, <3>1, Zenon
  <2> QED
    BY <2>1, <2>2 DEF Copy, filled, m
<1>9. blk'[b] = filled(k) /\ \A a \in Block \ {b} : blk'[a] = blk[a]
  BY <1>6, <1>7, <1>8
<1>10. filled(k) \in [Cells -> Cell]
  BY <1>7 DEF filled
<1>11. blk' \in [Block -> [Cells -> Cell]]
  BY <1>6, <1>7, <1>8, <1>10
<1>12. \A c \in Cells : /\ c \in at .. at + k - 1 => blk'[b][c] = Mark(f)
                        /\ c \notin at .. at + k - 1 => blk'[b][c] = blk[b][c]
  BY <1>9 DEF filled
<1> HIDE DEF at, b
<1>13. /\ t \in Thread /\ t.f = f /\ t.n1 = th[p].n1 /\ t.pc \in {"write", "finish"}
       /\ t.tot <= th[p].tot + k /\ t.tot <= t.n1 /\ t.tot \in Nat
       /\ t.logged \subseteq th[p].logged \cup {DBLOCK(b)}
       /\ th' = [th EXCEPT ![p] = t]
  <2>0. DBLOCK(b) \in LogIds
    BY <1>6 DEF LogIds
  <2>1. CASE th' = [th EXCEPT ![p].tot = @ + m, ![p].logged = @ \cup {DBLOCK(b)}] /\ k = m
    <3>1. t = [th[p] EXCEPT !.tot = @ + m, !.logged = @ \cup {DBLOCK(b)}]
      BY <1>1, <2>1
    <3>2. th[p].tot + m \in Nat /\ th[p].logged \cup {DBLOCK(b)} \in SUBSET LogIds
      BY <1>1, <1>2, <1>4, <2>0 DEF Thread
    <3>3. /\ t \in Thread /\ t.f = f /\ t.n1 = th[p].n1 /\ t.pc = "write" /\ t.tot = th[p].tot + m
          /\ t.logged = th[p].logged \cup {DBLOCK(b)}
      BY <1>1, <3>1, <3>2 DEF Thread
    <3>4. th' = [th EXCEPT ![p] = t]
      BY <1>1, <2>1
    <3>5. k = m /\ t.tot \in Nat /\ t.tot <= t.n1 /\ t.tot <= th[p].tot + k
      BY <1>2, <1>4, <2>1, <3>3
    <3> HIDE DEF t
    <3> QED
      BY <3>3, <3>4, <3>5
  <2>2. CASE th' = [th EXCEPT ![p].pc = "finish"]
    BY <1>1, <1>2, <1>4, <2>2 DEF Thread
  <2> QED
    BY <1>8, <2>1, <2>2
<1> HIDE DEF t
<1>14. th'[p] = t /\ \A q \in Proc \ {p} : th'[q] = th[q]
  BY <1>1, <1>13
<1>15. Moves(p, t)
  BY <1>1, <1>13, Before DEF Moves
<1>16. CtlInv'
  <2>1. CallOk(th[p], off[p], ip[f])
    BY Before
  <2>2. CallOk(t, off'[p], ip'[t.f])
    BY <1>1, <1>13, <2>1 DEF CallOk
  <2>3. lock[f] = p /\ made
    BY <1>1, WriterNames
  <2> QED
    BY <1>1, <1>11, <1>13, <1>15, <2>2, <2>3, Before, CtlStep DEF Inside
<1>17. SameTrunc
  BY <1>1, <1>13, <1>14 DEF SameTrunc
<1>18. /\ made
       /\ \A g \in File : ip[g].addrs[NDIRECT] # 0 =>
            blk'[ip[g].addrs[NDIRECT]] = blk[ip[g].addrs[NDIRECT]]
  <2>1. \A g \in File : ip[g].addrs[NDIRECT] \in Block
    BY Before, Sizes DEF Inode
  <2> QED
    BY <1>1, <1>6, <1>9, <2>1, Before
<1>19. OwnInv' /\ \A g \in File, j \in 0 .. MAXFILE : SlotAt(blk', ip'[g], j) = SlotAt(blk, ip[g], j)
  BY <1>1, <1>17, <1>18, SteadyOwn
<1>20. LogInv'
  <2>1. LogOk(th[p], off[p], blk, ip[f])
    BY DEF Inv, LogInv
  <2>2. LogOk(th[p], off[p], blk', ip'[f])
    BY <1>1, <1>2, <1>19, <2>1, LogKept
  <2>3. \E j \in Touched(off[p], t.n1) : SlotAt(blk', ip'[f], j) # 0 /\ DBLOCK(b) = DBLOCK(SlotAt(blk', ip'[f], j))
    BY <1>1, <1>5, <1>13, <1>19, Sizes
  <2>4. LogOk(t, off'[p], blk', ip'[t.f])
    BY <1>1, <1>13, <2>2, <2>3 DEF LogOk
  <2> QED
    BY <1>13, <1>15, <1>19, <2>4, OthersLog
<1>21. ASSUME NEW i \in Nat, i < MAXFILE * BSIZE, WrittenAt(blk, ip[f], f, i)
       PROVE  WrittenAt(blk', ip'[f], f, i)
  <2> DEFINE j == i \div BSIZE
             a == SlotAt(blk, ip[f], j)
  <2>1. j \in 0 .. MAXFILE /\ i % BSIZE \in Cells
    <3>1. j \in 0 .. MAXFILE - 1
      BY <1>21, Sizes, DivBound
    <3>2. i % BSIZE \in Nat /\ i % BSIZE < BSIZE
      BY <1>21, DivMod
    <3> HIDE DEF j
    <3> QED
      BY <3>1, <3>2, Sizes DEF Cells
  <2>2. SlotAt(blk', ip'[f], j) = a
    BY <1>1, <1>19, <2>1
  <2>3. a \in Block
    <3>1. Names[f][j] = a /\ a # 0
      BY <1>1, <1>21, <2>1, WriterNames DEF WrittenAt
    <3> QED
      BY <1>1, <2>1, <3>1, NamesOwned
  <2>4. blk'[a][i % BSIZE] = blk[a][i % BSIZE] \/ blk'[a][i % BSIZE] \in Good(f)
    BY <1>7, <1>9, <1>12, <2>1, <2>3
  <2> HIDE DEF a, j
  <2> QED
    BY <1>21, <2>2, <2>4 DEF WrittenAt, a, j
<1>22. ASSUME NEW i \in Nat, i >= Pos(p), i < Pos(p) + k
       PROVE  WrittenAt(blk', ip'[f], f, i)
  <2> DEFINE j == i - Pos(p)
  <2>1. j \in Nat /\ j < k /\ i = Pos(p) + j
    BY <1>2, <1>22
  <2>2. at + j < BSIZE
    BY <1>3, <1>4, <2>1
  <2>3. i \div BSIZE = bn(p) /\ i % BSIZE = at + j
    BY <1>2, <2>1, <2>2, SameBlock DEF bn, at
  <2>4. SlotAt(blk', ip'[f], i \div BSIZE) = b
    BY <1>1, <1>5, <1>19, <2>3, Sizes
  <2>5. blk'[b][i % BSIZE] = Mark(f)
    BY <1>3, <1>12, <2>1, <2>2, <2>3 DEF Cells
  <2> QED
    BY <1>1, <1>7, <2>4, <2>5 DEF WrittenAt
<1>23. DataInv'
  <2>1. \A g \in File \ {t.f}, j \in 0 .. MAXFILE - 1 :
          ~ Truncating(g) /\ SlotAt(blk, ip[g], j) # 0 =>
            /\ SlotAt(blk', ip'[g], j) = SlotAt(blk, ip[g], j)
            /\ blk'[SlotAt(blk, ip[g], j)] = blk[SlotAt(blk, ip[g], j)]
    <3> SUFFICES ASSUME NEW g \in File \ {f}, NEW j \in 0 .. MAXFILE - 1,
                        ~ Truncating(g), SlotAt(blk, ip[g], j) # 0
                 PROVE  /\ SlotAt(blk', ip'[g], j) = SlotAt(blk, ip[g], j)
                        /\ blk'[SlotAt(blk, ip[g], j)] = blk[SlotAt(blk, ip[g], j)]
      BY <1>13
    <3>1. j \in 0 .. MAXFILE
      BY Sizes
    <3>2. Names[g][j] = SlotAt(blk, ip[g], j)
      <4>1. Live(g, j)
        BY DEF Truncating, Live
      <4> QED
        BY <1>18, <3>1, <4>1, NamesIs DEF Current
    <3>3. SlotAt(blk, ip[g], j) \in Block
      BY <3>1, <3>2, NamesOwned
    <3>4. SlotAt(blk, ip[g], j) # b
      BY <1>6, <3>1
    <3> QED
      BY <1>9, <1>19, <3>1, <3>3, <3>4
  <2>2. ip'[t.f].size <= MAXFILE * BSIZE /\ ip[f].size \in Nat
    BY <1>1, <1>13, <1>18, Before DEF Inv, DataInv, Current, Inode
  <2>3. ASSUME NEW i \in 0 .. ip'[t.f].size - 1
        PROVE  WrittenAt(blk', ip'[t.f], t.f, i)
    <3>1. i \in Nat /\ i < MAXFILE * BSIZE /\ i \in 0 .. ip[f].size - 1
      BY <1>1, <1>2, <1>13, <2>2, <2>3
    <3>2. WrittenAt(blk, ip[f], f, i)
      <4>1. ~ Truncating(f)
        BY <1>1, WriterNames
      <4> QED
        BY <1>1, <1>18, <3>1, <4>1 DEF Inv, DataInv, Current
    <3> QED
      BY <1>13, <1>21, <3>1, <3>2
  <2>4. ASSUME NEW q \in Proc, th'[q].pc \in {"write", "finish"}, th'[q].f = t.f,
               NEW i \in 0 .. (off'[q] + th'[q].tot) - 1
        PROVE  WrittenAt(blk', ip'[t.f], t.f, i)
    <3>1. q = p
      BY <1>1, <1>13, <1>14, <2>4, WriterAlone DEF Inside
    <3>2. i \in Nat /\ i < Pos(p) + k
      BY <1>1, <1>2, <1>4, <1>13, <1>14, <2>4, <3>1
    <3>3. CASE i < Pos(p)
      <4>1. WrittenAt(blk, ip[f], f, i)
        <5>1. i \in 0 .. Pos(p) - 1
          BY <1>2, <3>2, <3>3
        <5> QED
          BY <1>1, <5>1 DEF Inv, DataInv
      <4>2. i < MAXFILE * BSIZE
        BY <1>1, <1>2, <3>2, <3>3
      <4> QED
        BY <1>13, <1>21, <3>2, <4>1, <4>2
    <3>4. CASE i >= Pos(p)
      BY <1>13, <1>22, <3>2, <3>4
    <3> QED
      BY <1>2, <3>2, <3>3, <3>4
  <2> QED
    BY <1>13, <1>15, <2>1, <2>2, <2>3, <2>4, DataStep
<1> QED
  BY <1>16, <1>19, <1>20, <1>23 DEF Inv

-----------------------------------------------------------------------------
(* bmap().                                                                 *)

LEMMA NatWellFounded == IsWellFoundedOn({x \in Nat \X Nat : x[1] < x[2]}, Nat)
BY NatLessThanWellFounded, Zenon DEF OpToRel

LEMMA Least ==
  ASSUME NEW S, S \subseteq Nat, S # {}
  PROVE  \E x \in S : \A y \in S : x <= y
<1> DEFINE R == {x \in Nat \X Nat : x[1] < x[2]}
<1>1. \E x \in S : \A y \in S : ~ (<<y, x>> \in R)
  <2> HIDE DEF R
  <2>1. IsWellFoundedOn(R, Nat)
    BY NatWellFounded DEF R
  <2> QED
    BY <2>1, WFMin
<1>2. PICK x \in S : \A y \in S : <<y, x>> \notin R
  BY <1>1
<1>3. \A y \in S : ~ (y < x)
  BY <1>2
<1> QED
  BY <1>3

LEMMA BallocFree ==
  ASSUME Inv, made, Free # {}
  PROVE  balloc \in Block /\ balloc \notin bitmap /\ balloc >= nmeta /\ balloc # 0 /\ balloc \in Cell
<1>1. Free \subseteq Nat
  BY DEF Free, Block
<1>2. \E b \in Free : \A c \in Free : b <= c
  BY <1>1, Least
<1>3. balloc \in Free
  BY <1>2 DEF balloc
<1>4. balloc \in Block /\ balloc \notin bitmap
  BY <1>3 DEF Free
<1>5. 0 .. nmeta - 1 \subseteq bitmap
  BY DEF Inv, OwnInv
<1>6. balloc \in Nat /\ balloc >= nmeta
  BY <1>4, <1>5 DEF Block
<1> QED
  BY <1>4, <1>6 DEF Block, Cell

\* The indirect block of an inode is in use.
LEMMA IndirectUsed ==
  ASSUME Inv, made, NEW g \in File
  PROVE  /\ ip[g].addrs[NDIRECT] \in Block
         /\ ip[g].addrs[NDIRECT] # 0 => ip[g].addrs[NDIRECT] \in bitmap
<1>1. ip[g].addrs[NDIRECT] \in Block
  BY DEF Inv, CtlInv, TypeOK, Inode
<1>2. ASSUME ip[g].addrs[NDIRECT] # 0 PROVE ip[g].addrs[NDIRECT] \in bitmap
  <2>1. Names[g][MAXFILE] = ip[g].addrs[NDIRECT]
    BY <1>2, IndirectOwned
  <2>2. Names[g][MAXFILE] \in InUse
    BY <1>2, <2>1, NamesOwned, Sizes
  <2> QED
    BY <2>1, <2>2 DEF InUse
<1> QED
  BY <1>1, <1>2

\* Slot s of p's file gets the free block a; d is its indirect block, if that is
\* written.
GainsBlock(p, s, a, d) ==
  /\ s \in {bn(p), MAXFILE} /\ SlotAt(blk, ip[th[p].f], s) = 0
  /\ SlotAt(blk', ip'[th[p].f], s) = a
  /\ \A g \in File, j \in 0 .. MAXFILE : g # th[p].f \/ j # s =>
       SlotAt(blk', ip'[g], j) = SlotAt(blk, ip[g], j)
  /\ \A b \in Block \ {a, d} : blk'[b] = blk[b]
  /\ d \in {0, ip[th[p].f].addrs[NDIRECT]}
  /\ ip' \in [File -> Inode] /\ blk' \in [Block -> [Cells -> Cell]]
  /\ \A g \in File : ip'[g].size = ip[g].size
  /\ \A g \in File : g # th[p].f => ip'[g] = ip[g]

\* What the allocation does to the inode's addresses.
LEMMA BmapAddrs ==
  ASSUME Inv, NEW p \in Proc, Bmap(p), Free # {},
         NEW x \in 0 .. NDIRECT,
         bn(p) < NDIRECT => x = bn(p),
         bn(p) >= NDIRECT => x = NDIRECT /\ ip[th[p].f].addrs[NDIRECT] = 0,
         ip' = [ip EXCEPT ![th[p].f].addrs[x] = balloc],
         blk' = [blk EXCEPT ![balloc] = Zeroes]
  PROVE  GainsBlock(p, IF x = NDIRECT THEN MAXFILE ELSE bn(p), balloc, 0)
<1> DEFINE f == th[p].f
           a == balloc
           s == IF x = NDIRECT THEN MAXFILE ELSE bn(p)
<1>1. /\ th[p].pc = "write" /\ f \in File /\ ip \in [File -> Inode] /\ ip[f] \in Inode
      /\ blk \in [Block -> [Cells -> Cell]] /\ made
      /\ th[p].tot < th[p].n1 /\ Slot(ip[f], bn(p)) = 0
  BY Before DEF Bmap
<1>2. /\ a \in Block /\ a \notin bitmap /\ a # 0
  BY <1>1, BallocFree
<1>3. bn(p) \in 0 .. MAXFILE - 1 /\ SlotAt(blk, ip[f], bn(p)) = 0
  BY <1>1, NextByte
<1>4. Zeroes \in [Cells -> Cell] /\ \A c \in Cells : Zeroes[c] = 0
  BY DEF Zeroes, Cell
<1> HIDE DEF a
<1>5. /\ blk' \in [Block -> [Cells -> Cell]] /\ blk'[a] = Zeroes
      /\ \A b \in Block \ {a} : blk'[b] = blk[b]
  BY <1>1, <1>2, <1>4 DEF a
<1>6. /\ ip[f].addrs \in [0 .. NDIRECT -> Block] /\ ip[f].size \in Nat
      /\ ip'[f] = [ip[f] EXCEPT !.addrs = [ip[f].addrs EXCEPT ![x] = a]]
      /\ \A g \in File : g # f => ip'[g] = ip[g]
  BY <1>1 DEF a, Inode
<1>7. /\ ip'[f].addrs = [ip[f].addrs EXCEPT ![x] = a] /\ ip'[f].size = ip[f].size
      /\ ip'[f] \in Inode
  <2> DEFINE A == [ip[f].addrs EXCEPT ![x] = a]
  <2>1. A \in [0 .. NDIRECT -> Block]
    BY <1>2, <1>6
  <2>2. ip'[f] = [ip[f] EXCEPT !.addrs = A]
    BY <1>6
  <2> HIDE DEF A
  <2>3. ip'[f].addrs = A /\ ip'[f].size = ip[f].size /\ ip'[f] \in Inode
    BY <1>1, <2>1, <2>2 DEF Inode
  <2> QED
    BY <2>3 DEF A
<1>8. ip' \in [File -> Inode]
  BY <1>1, <1>2 DEF a, Inode
<1>9. ip'[f].addrs[x] = a /\ \A y \in 0 .. NDIRECT : y # x => ip'[f].addrs[y] = ip[f].addrs[y]
  <2> DEFINE A == ip[f].addrs
             B == ip'[f].addrs
  <2>1. A \in [0 .. NDIRECT -> Block] /\ B = [A EXCEPT ![x] = a]
    BY <1>6, <1>7
  <2> HIDE DEF A, B
  <2>2. B[x] = a /\ \A y \in 0 .. NDIRECT : y # x => B[y] = A[y]
    BY <2>1
  <2> QED
    BY <2>2 DEF A, B
<1>10. \A g \in File : ip[g].addrs[NDIRECT] # 0 =>
         blk'[ip[g].addrs[NDIRECT]] = blk[ip[g].addrs[NDIRECT]]
  BY <1>1, <1>2, <1>5, IndirectUsed
<1>11. \A g \in File, j \in 0 .. MAXFILE : g # f => SlotAt(blk', ip'[g], j) = SlotAt(blk, ip[g], j)
  <2> SUFFICES ASSUME NEW g \in File, NEW j \in 0 .. MAXFILE, g # f
               PROVE  SlotAt(blk', ip'[g], j) = SlotAt(blk, ip[g], j)
    OBVIOUS
  <2>1. ip'[g].addrs = ip[g].addrs
    BY <1>6
  <2>2. ip[g].addrs[NDIRECT] # 0 => blk'[ip[g].addrs[NDIRECT]] = blk[ip[g].addrs[NDIRECT]]
    BY <1>10
  <2> QED
    BY <2>1, <2>2 DEF SlotAt
<1>12. /\ SlotAt(blk, ip[f], s) = 0 /\ SlotAt(blk', ip'[f], s) = a
       /\ \A j \in 0 .. MAXFILE : j # s => SlotAt(blk', ip'[f], j) = SlotAt(blk, ip[f], j)
  <2>1. CASE bn(p) < NDIRECT
    <3>1. x = bn(p) /\ s = bn(p) /\ x # NDIRECT
      BY <2>1, Sizes
    <3>2. SlotAt(blk', ip'[f], s) = a
      BY <1>9, <2>1, <3>1 DEF SlotAt
    <3>3. ip'[f].addrs[NDIRECT] = ip[f].addrs[NDIRECT]
      BY <1>9, <3>1, Sizes
    <3>4. ASSUME NEW j \in 0 .. MAXFILE, j # s PROVE SlotAt(blk', ip'[f], j) = SlotAt(blk, ip[f], j)
      <4>1. CASE j < NDIRECT
        <5>1. j \in 0 .. NDIRECT
          BY <4>1, Sizes
        <5> QED
          BY <1>9, <3>1, <3>4, <4>1, <5>1 DEF SlotAt
      <4>2. CASE ~ (j < NDIRECT)
        BY <1>1, <1>10, <3>3, <4>2 DEF SlotAt
      <4> QED
        BY <4>1, <4>2
    <3> QED
      BY <1>3, <3>1, <3>2, <3>4
  <2>2. CASE bn(p) >= NDIRECT
    <3>1. x = NDIRECT /\ s = MAXFILE /\ ip[f].addrs[NDIRECT] = 0 /\ ip'[f].addrs[NDIRECT] = a
      BY <1>9, <2>2
    <3>2. SlotAt(blk', ip'[f], s) = a /\ SlotAt(blk, ip[f], s) = 0
      BY <3>1, Sizes DEF SlotAt
    <3>3. ASSUME NEW j \in 0 .. MAXFILE, j # s PROVE SlotAt(blk', ip'[f], j) = SlotAt(blk, ip[f], j)
      <4>1. CASE j < NDIRECT
        <5>1. j \in 0 .. NDIRECT /\ j # x
          BY <3>1, <4>1, Sizes
        <5> QED
          BY <1>9, <4>1, <5>1 DEF SlotAt
      <4>2. CASE ~ (j < NDIRECT)
        <5>1. j - NDIRECT \in Cells
          BY <3>1, <3>3, <4>2 DEF MAXFILE, Cells
        <5>2. SlotAt(blk', ip'[f], j) = Zeroes[j - NDIRECT] /\ SlotAt(blk, ip[f], j) = 0
          BY <1>2, <1>5, <3>1, <3>3, <4>2 DEF SlotAt
        <5> QED
          BY <1>4, <5>1, <5>2
      <4> QED
        BY <4>1, <4>2
    <3> QED
      BY <3>1, <3>2, <3>3
  <2>3. bn(p) < NDIRECT \/ bn(p) >= NDIRECT
    BY <1>3, Sizes
  <2> HIDE DEF s
  <2> QED
    BY <2>1, <2>2, <2>3
<1> HIDE DEF s
<1>13. s \in {bn(p), MAXFILE}
  BY DEF s
<1>14. GainsBlock(p, s, a, 0)
  BY <1>5, <1>6, <1>7, <1>8, <1>11, <1>12, <1>13 DEF GainsBlock
<1> QED
  BY <1>14 DEF s, a

\* Block a is cleared and its address goes into cell c of block d.
Entered(m, a, d, c) == [[m EXCEPT ![a] = Zeroes] EXCEPT ![d][c] = a]

LEMMA IndirectCell ==
  ASSUME NEW k \in 0 .. MAXFILE - 1, k >= NDIRECT
  PROVE  k - NDIRECT \in Cells
BY DEF MAXFILE, Cells

LEMMA BlockBelow ==
  ASSUME NEW b \in Nat, b < FSSIZE
  PROVE  b \in Block /\ b \in Cell
BY DEF Block, Cell

LEMMA ZeroBlock == Zeroes \in [Cells -> Cell] /\ \A c \in Cells : Zeroes[c] = 0
BY DEF Zeroes, Cell

\* The address goes into the indirect block.
LEMMA BmapIndirect ==
  ASSUME Inv, NEW p \in Proc, Bmap(p), Free # {},
         bn(p) >= NDIRECT, NEW d, d = ip[th[p].f].addrs[NDIRECT], d # 0, UNCHANGED ip,
         blk' = Entered(blk, balloc, d, bn(p) - NDIRECT)
  PROVE  GainsBlock(p, bn(p), balloc, d)
<1> DEFINE f == th[p].f
           a == balloc
           c0 == bn(p) - NDIRECT
<1>1. /\ th[p].pc = "write" /\ f \in File /\ ip \in [File -> Inode] /\ ip[f] \in Inode
      /\ blk \in [Block -> [Cells -> Cell]] /\ made
      /\ th[p].tot < th[p].n1 /\ Slot(ip[f], bn(p)) = 0
  BY Before DEF Bmap
<1>2. a \in Block /\ a \notin bitmap /\ a # 0 /\ a \in Cell
  BY <1>1, BallocFree
<1>3. bn(p) \in 0 .. MAXFILE - 1 /\ SlotAt(blk, ip[f], bn(p)) = 0
  BY <1>1, NextByte
<1>4. d \in Block /\ d \in bitmap /\ d # a
  BY <1>1, <1>2, IndirectUsed
<1>5. c0 \in Cells
  BY <1>3, IndirectCell
<1>6. Zeroes \in [Cells -> Cell]
  BY ZeroBlock
<1> HIDE DEF a
<1>7. /\ blk' \in [Block -> [Cells -> Cell]] /\ blk'[d] = [blk[d] EXCEPT ![c0] = a]
      /\ \A b \in Block \ {a, d} : blk'[b] = blk[b]
  <2> DEFINE z == [blk EXCEPT ![a] = Zeroes]
  <2>1. z \in [Block -> [Cells -> Cell]] /\ z[d] = blk[d] /\ \A b \in Block \ {a} : z[b] = blk[b]
    BY <1>1, <1>2, <1>4, <1>6
  <2>2. blk' = [z EXCEPT ![d] = [z[d] EXCEPT ![c0] = a]]
    BY DEF a, Entered
  <2> HIDE DEF z, c0
  <2> DEFINE w == [z[d] EXCEPT ![c0] = a]
  <2>3. w \in [Cells -> Cell] /\ w = [blk[d] EXCEPT ![c0] = a]
    BY <1>2, <1>4, <1>5, <2>1
  <2>4. blk' = [z EXCEPT ![d] = w]
    BY <2>2
  <2> HIDE DEF w
  <2>5. blk' \in [Block -> [Cells -> Cell]] /\ blk'[d] = w /\ \A b \in Block \ {d} : blk'[b] = z[b]
    <3>1. z \in [Block -> [Cells -> Cell]] /\ d \in Block /\ w \in [Cells -> Cell]
      BY <1>4, <2>1, <2>3
    <3> DEFINE n == blk'
    <3>2. n = [z EXCEPT ![d] = w]
      BY <2>4
    <3> HIDE DEF n
    <3>3. n \in [Block -> [Cells -> Cell]] /\ n[d] = w /\ \A b \in Block \ {d} : n[b] = z[b]
      BY <3>1, <3>2
    <3> QED
      BY <3>3 DEF n
  <2> QED
    BY <2>1, <2>3, <2>5
<1>8. blk'[d][c0] = a /\ \A c \in Cells : c # c0 => blk'[d][c] = blk[d][c]
  <2>1. blk[d] \in [Cells -> Cell]
    BY <1>1, <1>4
  <2> DEFINE u == blk[d]
             v == blk'[d]
  <2>2. u \in [Cells -> Cell] /\ v = [u EXCEPT ![c0] = a]
    BY <1>7, <2>1
  <2> HIDE DEF c0, u, v
  <2>3. v[c0] = a /\ \A c \in Cells : c # c0 => v[c] = u[c]
    BY <1>5, <2>2
  <2> QED
    BY <2>3 DEF u, v
<1>9. \A g \in File, j \in 0 .. MAXFILE : g # f => SlotAt(blk', ip'[g], j) = SlotAt(blk, ip[g], j)
  <2> SUFFICES ASSUME NEW g \in File, NEW j \in 0 .. MAXFILE, g # f
               PROVE  SlotAt(blk', ip'[g], j) = SlotAt(blk, ip[g], j)
    OBVIOUS
  <2>1. ip[g].addrs[NDIRECT] # 0 => ip[g].addrs[NDIRECT] \in Block \ {a, d}
    <3> SUFFICES ASSUME ip[g].addrs[NDIRECT] # 0 PROVE ip[g].addrs[NDIRECT] \in Block \ {a, d}
      OBVIOUS
    <3>1. Names[g][MAXFILE] = ip[g].addrs[NDIRECT] /\ Names[f][MAXFILE] = d
      BY <1>1, IndirectOwned
    <3>2. ip[g].addrs[NDIRECT] # d
      <4>1. MAXFILE \in 0 .. MAXFILE /\ Names[g][MAXFILE] # 0
        BY <3>1, Sizes
      <4>2. \A i \in 0 .. MAXFILE : Names[f][i] # Names[g][MAXFILE]
        BY <1>1, <4>1, NamesOwned
      <4> QED
        BY <3>1, <4>1, <4>2
    <3> QED
      BY <1>1, <1>2, <3>2, IndirectUsed
  <2>2. ip[g].addrs[NDIRECT] # 0 => blk'[ip[g].addrs[NDIRECT]] = blk[ip[g].addrs[NDIRECT]]
    BY <1>7, <2>1
  <2> QED
    BY <2>2 DEF SlotAt
<1>10. SlotAt(blk', ip'[f], bn(p)) = a
  <2>1. bn(p) # MAXFILE /\ ~ (bn(p) < NDIRECT)
    BY <1>3, Sizes
  <2> QED
    BY <1>8, <2>1 DEF SlotAt
<1>11. ASSUME NEW j \in 0 .. MAXFILE, j # bn(p)
       PROVE  SlotAt(blk', ip'[f], j) = SlotAt(blk, ip[f], j)
  <2>1. CASE j < NDIRECT \/ j = MAXFILE
    BY <2>1 DEF SlotAt
  <2>2. CASE ~ (j < NDIRECT \/ j = MAXFILE)
    <3>1. j - NDIRECT \in Cells /\ j - NDIRECT # c0
      <4>1. j \in 0 .. MAXFILE - 1 /\ j >= NDIRECT
        BY <2>2, Sizes
      <4>2. j - NDIRECT \in Cells
        BY <4>1, IndirectCell
      <4> QED
        BY <1>3, <1>11, <4>1, <4>2, Sizes
    <3>2. SlotAt(blk', ip'[f], j) = blk'[d][j - NDIRECT] /\ SlotAt(blk, ip[f], j) = blk[d][j - NDIRECT]
      BY <2>2 DEF SlotAt
    <3> QED
      BY <1>8, <3>1, <3>2
  <2> QED
    BY <2>1, <2>2
<1>12. GainsBlock(p, bn(p), a, d)
  <2>1. \A g \in File, j \in 0 .. MAXFILE : g # f \/ j # bn(p) =>
          SlotAt(blk', ip'[g], j) = SlotAt(blk, ip[g], j)
    BY <1>9, <1>11
  <2>2. ip' \in [File -> Inode] /\ \A g \in File : ip'[g] = ip[g]
    BY <1>1
  <2> QED
    BY <1>3, <1>7, <1>10, <2>1, <2>2 DEF GainsBlock
<1> QED
  BY <1>12 DEF a

LEMMA BmapGains ==
  ASSUME Inv, NEW p \in Proc, Bmap(p), Free # {}
  PROVE  \E s, d :
           /\ GainsBlock(p, s, balloc, d)
           /\ bitmap' = bitmap \cup {balloc}
           /\ th' = [th EXCEPT ![p].logged = @ \cup {BBLOCK(balloc), DBLOCK(balloc)} \cup
                                             (IF d = 0 THEN {} ELSE {DBLOCK(d)})]
<1> DEFINE f == th[p].f
           ind == bn(p) >= NDIRECT /\ ip[f].addrs[NDIRECT] = 0
           inAddrs == ind \/ bn(p) < NDIRECT
           x == IF ind THEN NDIRECT ELSE bn(p)
           d == IF inAddrs THEN 0 ELSE ip[f].addrs[NDIRECT]
<1>1. bn(p) \in 0 .. MAXFILE - 1 /\ th[p].pc = "write"
  BY NextByte DEF Bmap
<1>2. bitmap' = bitmap \cup {balloc}
  BY DEF Bmap
<1>3. th' = [th EXCEPT ![p].logged = @ \cup {BBLOCK(balloc), DBLOCK(balloc)} \cup
                                     (IF inAddrs THEN {} ELSE {DBLOCK(ip[f].addrs[NDIRECT])})]
  BY DEF Bmap
<1>4. CASE inAddrs
  <2>1. ip' = [ip EXCEPT ![f].addrs[x] = balloc] /\ blk' = [blk EXCEPT ![balloc] = Zeroes]
    BY <1>4 DEF Bmap
  <2>2. x \in 0 .. NDIRECT
    BY <1>1, <1>4, Sizes
  <2>3. GainsBlock(p, IF x = NDIRECT THEN MAXFILE ELSE bn(p), balloc, 0)
    <3>1. bn(p) < NDIRECT => x = bn(p)
      BY <1>1, Sizes
    <3>2. bn(p) >= NDIRECT => x = NDIRECT /\ ip[f].addrs[NDIRECT] = 0
      BY <1>1, <1>4, Sizes
    <3> HIDE DEF x
    <3> QED
      BY <2>1, <2>2, <3>1, <3>2, BmapAddrs
  <2>4. th' = [th EXCEPT ![p].logged = @ \cup {BBLOCK(balloc), DBLOCK(balloc)} \cup
                                       (IF 0 = 0 THEN {} ELSE {DBLOCK(0)})]
    BY <1>3, <1>4
  <2> HIDE DEF x
  <2> QED
    BY <1>2, <2>3, <2>4, Zenon
<1>5. CASE ~ inAddrs
  <2>1. bn(p) >= NDIRECT /\ ip[f].addrs[NDIRECT] # 0
    BY <1>1, <1>5, Sizes
  <2>2. /\ UNCHANGED ip
        /\ blk' = Entered(blk, balloc, ip[f].addrs[NDIRECT], bn(p) - NDIRECT)
    BY <1>5 DEF Bmap, Entered
  <2>3. GainsBlock(p, bn(p), balloc, ip[f].addrs[NDIRECT])
    BY <2>1, <2>2, BmapIndirect
  <2>4. th' = [th EXCEPT ![p].logged = @ \cup {BBLOCK(balloc), DBLOCK(balloc)} \cup
                 (IF ip[f].addrs[NDIRECT] = 0 THEN {} ELSE {DBLOCK(ip[f].addrs[NDIRECT])})]
    BY <1>3, <1>5, <2>1
  <2> QED
    BY <1>2, <2>3, <2>4, Zenon
<1> QED
  BY <1>4, <1>5

\* The disk is full.
LEMMA BmapFull ==
  ASSUME Inv, NEW p \in Proc, Bmap(p), Free = {}
  PROVE  Inv'
<1> DEFINE f == th[p].f
           t == [th[p] EXCEPT !.pc = "finish"]
<1>1. /\ th[p].pc = "write" /\ th[p] \in Thread /\ f \in File /\ th \in [Proc -> Thread] /\ made
      /\ th' = [th EXCEPT ![p] = t]
      /\ UNCHANGED <<made, freeblock, bitmap, blk, ip, dinode, lock, off>>
  BY Before DEF Bmap
<1>2. /\ t \in Thread /\ t.f = f /\ t.pc = "finish" /\ t.n1 = th[p].n1 /\ t.tot = th[p].tot
      /\ t.logged = th[p].logged
  BY <1>1 DEF Thread
<1> HIDE DEF t
<1>3. th'[p] = t /\ \A q \in Proc \ {p} : th'[q] = th[q]
  BY <1>1
<1>4. Moves(p, t)
  BY <1>1 DEF Moves
<1>5. CtlInv'
  <2>1. CallOk(th[p], off[p], ip[f]) /\ lock[f] = p
    BY <1>1, Before, WriterNames
  <2>2. CallOk(t, off'[p], ip'[t.f])
    BY <1>1, <1>2, <2>1 DEF CallOk
  <2> QED
    BY <1>1, <1>2, <1>4, <2>1, <2>2, Before, CtlStep DEF Inside
<1>6. OwnInv'
  <2>1. SameTrunc
    BY <1>1, <1>2, <1>3 DEF SameTrunc
  <2> QED
    BY <1>1, <2>1, SteadyOwn
<1>7. LogInv'
  <2>1. LogOk(t, off'[p], blk', ip'[t.f])
    BY <1>1, <1>2 DEF Inv, LogInv, LogOk
  <2> QED
    BY <1>1, <1>2, <1>4, <2>1, OthersLog
<1>8. DataInv'
  <2>1. ip'[t.f].size <= MAXFILE * BSIZE
    BY <1>1, <1>2 DEF Inv, DataInv, Current
  <2>2. \A i \in 0 .. ip'[t.f].size - 1 : WrittenAt(blk', ip'[t.f], t.f, i)
    BY <1>1, <1>2, WriterNames DEF Inv, DataInv, Current
  <2>3. ASSUME NEW q \in Proc, th'[q].pc \in {"write", "finish"}, th'[q].f = t.f
        PROVE  \A i \in 0 .. (off'[q] + th'[q].tot) - 1 : WrittenAt(blk', ip'[t.f], t.f, i)
    <3>1. th[q].pc \in {"write", "finish"} /\ th[q].f = f /\ off'[q] = off[q] /\ th'[q].tot = th[q].tot
      BY <1>1, <1>2, <1>3, <2>3
    <3> QED
      BY <1>1, <1>2, <3>1 DEF Inv, DataInv, Pos
  <2> QED
    BY <1>1, <1>2, <1>4, <2>1, <2>2, <2>3, DataStep
<1> QED
  BY <1>5, <1>6, <1>7, <1>8 DEF Inv

\* A block that is missing is one that the chunk fills: the first block of a
\* chunk that starts inside it is there.
LEMMA MissingFilled ==
  ASSUME Inv, NEW p \in Proc, th[p].pc = "write", th[p].tot < th[p].n1,
         SlotAt(blk, ip[th[p].f], bn(p)) = 0
  PROVE  bn(p) \in Filled(off[p], th[p].n1)
<1> DEFINE o == off[p]
           q == o \div BSIZE
           e == o % BSIZE
           l == (o + th[p].n1 - 1) \div BSIZE
<1>1. /\ o \in Nat /\ th[p].tot \in Nat /\ Pos(p) = o + th[p].tot /\ Pos(p) \in Nat
      /\ th[p].n1 \in Nat /\ th[p].n1 > 0
  BY WriterBounds
<1>2. q \in Nat /\ e \in Nat /\ o = BSIZE * q + e
  BY <1>1, DivMod
<1>3. l \in Nat
  <2>1. o + th[p].n1 - 1 \in Nat
    BY <1>1
  <2> QED
    BY <2>1, DivMod
<1>4. bn(p) \in Nat /\ bn(p) \in Touched(o, th[p].n1) /\ bn(p) < MAXFILE
  BY NextByte, Sizes
<1>5. bn(p) >= q /\ bn(p) <= l
  BY <1>2, <1>3, <1>4 DEF Touched
<1>6. ASSUME e # 0 PROVE bn(p) # q
  <2> DEFINE i == BSIZE * q + 0
  <2>1. i \in Nat /\ i < Pos(p)
    BY <1>1, <1>2, <1>6
  <2>2. i \div BSIZE = q
    BY <1>2, DivUnique
  <2>3. i \in 0 .. Pos(p) - 1
    BY <1>1, <2>1
  <2> HIDE DEF i, q, e
  <2>4. WrittenAt(blk, ip[th[p].f], th[p].f, i)
    BY <2>3 DEF Inv, DataInv
  <2>5. SlotAt(blk, ip[th[p].f], q) # 0
    BY <2>2, <2>4 DEF WrittenAt
  <2> QED
    BY <2>5
<1>7. bn(p) \in (IF e = 0 THEN q ELSE q + 1) .. l
  <2> HIDE DEF q, e, l, o
  <2>1. bn(p) \in q .. l
    BY <1>2, <1>3, <1>4, <1>5
  <2> QED
    BY <1>2, <1>3, <1>4, <1>5, <1>6, <2>1
<1> QED
  BY <1>7 DEF Filled

LEMMA BmapAlloc ==
  ASSUME Inv, NEW p \in Proc, Bmap(p), Free # {}
  PROVE  Inv'
<1> DEFINE f == th[p].f
           a == balloc
           t == th'[p]
<1>1. /\ th[p].pc = "write" /\ th[p] \in Thread /\ f \in File /\ th \in [Proc -> Thread] /\ made
      /\ th[p].tot < th[p].n1 /\ Slot(ip[f], bn(p)) = 0
      /\ UNCHANGED <<made, freeblock, dinode, lock, off>>
  BY Before DEF Bmap
<1>2. a \in Block /\ a \notin bitmap /\ a # 0 /\ a >= nmeta
  BY <1>1, BallocFree
<1> HIDE DEF a
<1>3. \E s, d :
        /\ GainsBlock(p, s, a, d)
        /\ bitmap' = bitmap \cup {a}
        /\ th' = [th EXCEPT ![p].logged = @ \cup {BBLOCK(a), DBLOCK(a)} \cup
                                          (IF d = 0 THEN {} ELSE {DBLOCK(d)})]
  BY BmapGains DEF a
<1>4. PICK s, d :
        /\ GainsBlock(p, s, a, d)
        /\ bitmap' = bitmap \cup {a}
        /\ th' = [th EXCEPT ![p].logged = @ \cup {BBLOCK(a), DBLOCK(a)} \cup
                                          (IF d = 0 THEN {} ELSE {DBLOCK(d)})]
  BY <1>3
<1>5. bn(p) \in 0 .. MAXFILE - 1 /\ SlotAt(blk, ip[f], bn(p)) = 0 /\ bn(p) \in Touched(off[p], th[p].n1)
  BY <1>1, NextByte
<1>6. s \in 0 .. MAXFILE
  BY <1>4, <1>5, Sizes DEF GainsBlock
<1>7. d = 0 \/ (d = ip[f].addrs[NDIRECT] /\ d # 0 /\ d \in Block /\ Names[f][MAXFILE] = d)
  BY <1>1, <1>4, IndirectOwned, IndirectUsed DEF GainsBlock
<1> DEFINE more == {BBLOCK(a), DBLOCK(a)} \cup (IF d = 0 THEN {} ELSE {DBLOCK(d)})
<1>8. more \subseteq LogIds
  BY <1>2, <1>7 DEF LogIds
<1>9. /\ t = [th[p] EXCEPT !.logged = th[p].logged \cup more] /\ th' = [th EXCEPT ![p] = t]
      /\ \A q \in Proc \ {p} : th'[q] = th[q]
  <2>1. th[p].logged \cup {BBLOCK(a), DBLOCK(a)} \cup (IF d = 0 THEN {} ELSE {DBLOCK(d)})
          = th[p].logged \cup more
    OBVIOUS
  <2> HIDE DEF more
  <2> QED
    BY <1>1, <1>4, <2>1
<1> HIDE DEF more, t
<1>10. /\ t \in Thread /\ t.f = f /\ t.pc = "write" /\ t.n1 = th[p].n1 /\ t.tot = th[p].tot
       /\ t.logged = th[p].logged \cup more
  <2>1. th[p].logged \cup more \in SUBSET LogIds
    BY <1>1, <1>8 DEF Thread
  <2> HIDE DEF LogIds
  <2> QED
    BY <1>1, <1>9, <2>1 DEF Thread
<1>11. th'[p] = t
  BY <1>1, <1>9
<1>12. Moves(p, t)
  BY <1>1, <1>4, <1>9 DEF Moves, GainsBlock, Inside
<1>13. CtlInv'
  <2>1. CallOk(th[p], off[p], ip[f]) /\ lock[f] = p
    BY <1>1, Before, WriterNames
  <2>2. CallOk(t, off'[p], ip'[t.f])
    BY <1>1, <1>10, <2>1 DEF CallOk
  <2>3. bitmap' \subseteq Block /\ ip' \in [File -> Inode] /\ blk' \in [Block -> [Cells -> Cell]]
    BY <1>2, <1>4, Before DEF GainsBlock
  <2>4. \A g \in File : lock'[g] = NoProc => dinode'[g] = ip'[g]
    <3>1. NoProc # p
      OBVIOUS
    <3> QED
      BY <1>1, <1>4, <2>1, <3>1, Before DEF GainsBlock
  <2>5. \A g \in File : lock'[g] = p => t.f = g /\ t.pc \in Inside
    BY <1>1, <1>10, Before DEF Inside
  <2> QED
    BY <1>1, <1>10, <1>12, <2>1, <2>2, <2>3, <2>4, <2>5, Before, CtlStep DEF Inside
<1>14. SameTrunc
  BY <1>1, <1>9, <1>10, <1>11 DEF SameTrunc
<1>15. OwnInv'
  <2>1. Names[f][s] = 0 /\ Names'[f][s] = a
    <3>1. Names[f][s] = SlotAt(blk, ip[f], s)
      BY <1>1, <1>6, WriterNames
    <3>2. \A g \in File, j \in 0 .. MAXFILE : Live(g, j) => Names'[g][j] = SlotAt(blk', ip'[g], j)
      BY <1>1, <1>14, LiveSame, NamesIs
    <3>3. Names'[f][s] = SlotAt(blk', ip'[f], s)
      BY <1>1, <1>6, <3>2, WriterNames
    <3> QED
      BY <1>4, <3>1, <3>3 DEF GainsBlock
  <2>2. \A g \in File, j \in 0 .. MAXFILE : g # f \/ j # s => Names'[g][j] = Names[g][j]
    BY <1>1, <1>4, <1>14, NamesIs, LiveSame DEF Current, GainsBlock
  <2>3. Owned(Names, bitmap)
    BY <1>1 DEF Inv, OwnInv, InUse
  <2>4. Owned(Names', bitmap \cup {a})
    BY <1>1, <1>2, <1>6, <2>1, <2>2, <2>3, OwnedGain
  <2>5. InUse' = bitmap \cup {a}
    BY <1>1, <1>4 DEF InUse
  <2> QED
    BY <1>1, <1>4, <2>4, <2>5 DEF Inv, OwnInv, Fresh
<1>16. \A g \in File, j \in 0 .. MAXFILE : SlotAt(blk, ip[g], j) # 0 =>
         SlotAt(blk', ip'[g], j) = SlotAt(blk, ip[g], j)
  BY <1>4 DEF GainsBlock
<1>17. LogInv'
  <2>1. LogOk(th[p], off[p], blk, ip[f]) /\ off[p] \in Nat /\ th[p].n1 \in Nat
        /\ th[p].n1 > 0 /\ off[p] + th[p].n1 <= MAXFILE * BSIZE
    BY <1>1, WriterBounds DEF Inv, LogInv
  <2>2. LogOk(th[p], off[p], blk', ip'[f])
    BY <1>1, <1>16, <2>1, LogKept
  <2>3. s \in Touched(off[p], th[p].n1) /\ s \in Filled(off[p], th[p].n1) /\ MAXFILE \in Touched(off[p], th[p].n1)
    BY <1>1, <1>4, <1>5, MissingFilled DEF GainsBlock, Touched, Filled
  <2>4. SlotAt(blk', ip'[f], s) = a
    BY <1>4 DEF GainsBlock
  <2>5. d # 0 => SlotAt(blk', ip'[f], MAXFILE) = d
    <3>1. d # 0 => SlotAt(blk, ip[f], MAXFILE) = d
      BY <1>7, Sizes DEF SlotAt
    <3> QED
      BY <1>1, <1>16, <3>1, Sizes
  <2>6. \A x \in more :
          \/ \E k \in Touched(off[p], th[p].n1) : SlotAt(blk', ip'[f], k) # 0 /\ x = DBLOCK(SlotAt(blk', ip'[f], k))
          \/ \E k \in Filled(off[p], th[p].n1) : SlotAt(blk', ip'[f], k) # 0 /\ x = BBLOCK(SlotAt(blk', ip'[f], k))
    <3>1. \A x \in more : x = BBLOCK(a) \/ x = DBLOCK(a) \/ (d # 0 /\ x = DBLOCK(d))
      BY DEF more
    <3> QED
      BY <1>2, <2>3, <2>4, <2>5, <3>1
  <2>7. LogOk(t, off'[p], blk', ip'[t.f])
    BY <1>1, <1>10, <2>2, <2>6 DEF LogOk
  <2> QED
    BY <1>10, <1>12, <1>16, <2>7, OthersLog
\* The blocks of bytes are neither the new one nor an indirect one.
<1>18. ASSUME NEW g \in File, NEW j \in 0 .. MAXFILE - 1, ~ Truncating(g), SlotAt(blk, ip[g], j) # 0
       PROVE  /\ SlotAt(blk', ip'[g], j) = SlotAt(blk, ip[g], j)
              /\ blk'[SlotAt(blk, ip[g], j)] = blk[SlotAt(blk, ip[g], j)]
  <2>1. j \in 0 .. MAXFILE /\ j # MAXFILE
    BY Sizes
  <2>2. Names[g][j] = SlotAt(blk, ip[g], j)
    <3>1. Live(g, j)
      BY <1>18 DEF Truncating, Live
    <3> QED
      BY <1>1, <2>1, <3>1, NamesIs DEF Current
  <2>3. /\ SlotAt(blk, ip[g], j) \in Block /\ SlotAt(blk, ip[g], j) \in bitmap
        /\ Names[f][MAXFILE] # SlotAt(blk, ip[g], j)
    BY <1>1, <1>18, <2>1, <2>2, NamesOwned, Sizes DEF InUse
  <2>4. SlotAt(blk, ip[g], j) \in Block \ {a, d}
    BY <1>2, <1>7, <1>18, <2>3
  <2> QED
    BY <1>4, <1>16, <1>18, <2>1, <2>4 DEF GainsBlock
<1>19. ~ Truncating(f)
  BY <1>1, WriterNames
<1>20. ASSUME NEW i \in Nat, i < MAXFILE * BSIZE, WrittenAt(blk, ip[f], f, i)
       PROVE  WrittenAt(blk', ip'[f], f, i)
  <2>1. i \div BSIZE \in 0 .. MAXFILE - 1
    BY <1>20, DivBound, Sizes
  <2>2. SlotAt(blk, ip[f], i \div BSIZE) # 0
    BY <1>20 DEF WrittenAt
  <2>3. /\ SlotAt(blk', ip'[f], i \div BSIZE) = SlotAt(blk, ip[f], i \div BSIZE)
        /\ blk'[SlotAt(blk, ip[f], i \div BSIZE)] = blk[SlotAt(blk, ip[f], i \div BSIZE)]
    BY <1>1, <1>18, <1>19, <2>1, <2>2
  <2> QED
    BY <1>20, <2>3, WrittenKept
<1>21. DataInv'
  <2>1. \A g \in File \ {t.f}, j \in 0 .. MAXFILE - 1 :
          ~ Truncating(g) /\ SlotAt(blk, ip[g], j) # 0 =>
            /\ SlotAt(blk', ip'[g], j) = SlotAt(blk, ip[g], j)
            /\ blk'[SlotAt(blk, ip[g], j)] = blk[SlotAt(blk, ip[g], j)]
    BY <1>18
  <2>2. /\ ip'[t.f].size = ip[f].size /\ ip[f].size \in Nat /\ ip[f].size <= MAXFILE * BSIZE
    BY <1>1, <1>4, <1>10, Before DEF Inv, DataInv, Current, GainsBlock, Inode
  <2>3. ASSUME NEW i \in 0 .. ip'[t.f].size - 1
        PROVE  WrittenAt(blk', ip'[t.f], t.f, i)
    <3>1. i \in Nat /\ i < MAXFILE * BSIZE /\ i \in 0 .. ip[f].size - 1
      BY <2>2, <2>3, Sizes
    <3>2. WrittenAt(blk, ip[f], f, i)
      BY <1>1, <1>19, <3>1 DEF Inv, DataInv, Current
    <3> QED
      BY <1>10, <1>20, <3>1, <3>2
  <2>4. ASSUME NEW q \in Proc, th'[q].pc \in {"write", "finish"}, th'[q].f = t.f,
               NEW i \in 0 .. (off'[q] + th'[q].tot) - 1
        PROVE  WrittenAt(blk', ip'[t.f], t.f, i)
    <3>1. q = p
      BY <1>1, <1>9, <1>10, <2>4, WriterAlone DEF Inside
    <3>2. /\ off[p] \in Nat /\ th[p].tot \in Nat /\ th[p].tot <= th[p].n1 /\ th[p].n1 \in Nat
          /\ off[p] + th[p].n1 <= MAXFILE * BSIZE /\ MAXFILE * BSIZE \in Nat
      BY <1>1, WriterBounds
    <3>3. i \in 0 .. (off[p] + th[p].tot) - 1
      BY <1>1, <1>10, <1>11, <2>4, <3>1
    <3>4. i \in Nat /\ i < MAXFILE * BSIZE
      BY <3>2, <3>3
    <3>5. WrittenAt(blk, ip[f], f, i)
      BY <1>1, <3>3 DEF Inv, DataInv, Pos
    <3> QED
      BY <1>10, <1>20, <3>4, <3>5
  <2> QED
    BY <1>10, <1>12, <2>1, <2>2, <2>3, <2>4, DataStep
<1> QED
  BY <1>13, <1>15, <1>17, <1>21 DEF Inv

-----------------------------------------------------------------------------
(* itrunc().                                                               *)

LEMMA TruncAlone ==
  ASSUME Inv, NEW p \in Proc, th[p].pc = "trunc", NEW f, f = th[p].f
  PROVE  /\ made /\ f \in File /\ lock[f] = p /\ ip[f] \in Inode /\ th[p].tot \in Nat
         /\ \A q \in Proc : th[q].pc \in Inside /\ th[q].f = f => q = p
         /\ \A k : Live(f, k) <=> k >= th[p].tot
         /\ \A k \in 0 .. MAXFILE :
              Names[f][k] = IF k >= th[p].tot THEN SlotAt(blk, ip[f], k) ELSE 0
<1>1. /\ made /\ f \in File /\ lock[f] = p
      /\ \A q \in Proc : th[q].pc \in Inside /\ th[q].f = f => q = p
  BY InsideAlone DEF Inside
<1>2. ip[f] \in Inode /\ th[p].tot \in Nat
  BY <1>1, Before DEF Thread
<1>3. \A k : Live(f, k) <=> k >= th[p].tot
  BY <1>1 DEF Live, Inside
<1> QED
  BY <1>1, <1>2, <1>3, NamesIs DEF Current

LEMMA BfreeStep ==
  ASSUME Inv, NEW p \in Proc, Bfree(p)
  PROVE  Inv'
<1>1. PICK f \in File : f = th[p].f
  BY Before
<1>2. /\ th[p].pc = "trunc" /\ th[p] \in Thread /\ th \in [Proc -> Thread] /\ Pending(p) # {}
      /\ UNCHANGED <<made, freeblock, blk, dinode, lock, off>>
  BY Before DEF Bfree
<1>3. /\ made /\ lock[f] = p /\ ip[f] \in Inode /\ th[p].tot \in Nat
      /\ \A q \in Proc : th[q].pc \in Inside /\ th[q].f = f => q = p
      /\ \A k \in 0 .. MAXFILE :
           Names[f][k] = IF k >= th[p].tot THEN SlotAt(blk, ip[f], k) ELSE 0
  BY <1>1, <1>2, TruncAlone
<1> DEFINE least == CHOOSE i \in Pending(p) : \A j \in Pending(p) : i <= j
<1>4. least \in Pending(p) /\ \A j \in Pending(p) : least <= j
  <2>1. Pending(p) \subseteq Nat
    BY <1>3, Sizes DEF Pending
  <2> QED
    BY <1>2, <2>1, Least
<1>5. PICK k \in 0 .. MAXFILE : k = least
  BY <1>3, <1>4, Sizes DEF Pending
<1>6. PICK b \in Block : b = SlotAt(blk, ip[f], k)
  <2>1. Names[f][k] = SlotAt(blk, ip[f], k) /\ SlotAt(blk, ip[f], k) # 0
    BY <1>1, <1>3, <1>4, <1>5, SlotIs DEF Pending
  <2> QED
    BY <1>1, <2>1, NamesOwned
<1>7. k >= th[p].tot /\ b # 0 /\ \A j \in th[p].tot .. k - 1 : SlotAt(blk, ip[f], j) = 0
  <2>1. k \in Pending(p) /\ \A j \in Pending(p) : k <= j
    BY <1>4, <1>5
  <2>2. k >= th[p].tot /\ SlotAt(blk, ip[f], k) # 0
    BY <1>1, <1>3, <2>1, SlotIs DEF Pending
  <2>3. ASSUME NEW j \in th[p].tot .. k - 1 PROVE SlotAt(blk, ip[f], j) = 0
    <3>1. j \in th[p].tot .. MAXFILE /\ ~ (k <= j)
      BY <1>3, Sizes
    <3>2. j \notin Pending(p)
      BY <2>1, <3>1
    <3> QED
      BY <1>1, <3>1, <3>2, SlotIs DEF Pending
  <2> QED
    BY <1>6, <2>2, <2>3
<1>8. Names[f][k] = b /\ b >= nmeta
  <2>1. Names[f][k] = b
    BY <1>3, <1>6, <1>7
  <2> QED
    BY <1>7, <2>1, NamesOwned
<1>9. /\ bitmap' = bitmap \ {b}
      /\ ip' = IF k \in NDIRECT .. MAXFILE - 1 THEN ip
               ELSE [ip EXCEPT ![f].addrs[min(k, NDIRECT)] = 0]
      /\ th' = [th EXCEPT ![p].tot = k + 1, ![p].logged = @ \cup {BBLOCK(b)}]
  BY <1>1, <1>5, <1>6, SlotIs DEF Bfree
<1>10. 0 \in Block
  BY <1>6 DEF Block
<1>11. /\ ip' \in [File -> Inode] /\ \A g \in File : g # f => ip'[g] = ip[g]
       /\ ip'[f].size = ip[f].size
       /\ k < NDIRECT => ip'[f].addrs[k] = 0
       /\ k = MAXFILE => ip'[f].addrs[NDIRECT] = 0
       /\ \A y \in 0 .. NDIRECT : ip'[f].addrs[y] = ip[f].addrs[y] \/ ip'[f].addrs[y] = 0
       /\ \A y \in 0 .. NDIRECT : y > k => ip'[f].addrs[y] = ip[f].addrs[y]
       /\ k # MAXFILE => ip'[f].addrs[NDIRECT] = ip[f].addrs[NDIRECT]
  <2>1. CASE k \in NDIRECT .. MAXFILE - 1
    BY <1>9, <2>1, Before, Sizes
  <2>2. CASE k \notin NDIRECT .. MAXFILE - 1
    <3> DEFINE x == min(k, NDIRECT)
    <3>1. x \in 0 .. NDIRECT /\ (k < NDIRECT => x = k) /\ (k = MAXFILE => x = NDIRECT)
          /\ (k < NDIRECT \/ k = MAXFILE)
      BY <2>2, Sizes DEF min
    <3>2. ip' = [ip EXCEPT ![f].addrs[x] = 0]
      BY <1>9, <2>2
    <3> HIDE DEF x
    <3>3. /\ ip \in [File -> Inode] /\ ip[f].addrs \in [0 .. NDIRECT -> Block] /\ ip[f].size \in Nat
      BY <1>3, Before DEF Inode
    <3>4. ip' \in [File -> Inode] /\ \A g \in File : g # f => ip'[g] = ip[g]
      BY <1>10, <3>1, <3>2, <3>3 DEF Inode
    <3>5. ip'[f].addrs = [ip[f].addrs EXCEPT ![x] = 0] /\ ip'[f].size = ip[f].size
      BY <1>3, <3>2, <3>3 DEF Inode
    <3> DEFINE A == ip[f].addrs
               B == ip'[f].addrs
    <3>6. A \in [0 .. NDIRECT -> Block] /\ B = [A EXCEPT ![x] = 0]
      BY <3>3, <3>5
    <3> HIDE DEF A, B
    <3>7. B[x] = 0 /\ \A y \in 0 .. NDIRECT : y # x => B[y] = A[y]
      BY <3>1, <3>6
    <3>8. /\ k < NDIRECT => B[k] = 0
          /\ k = MAXFILE => B[NDIRECT] = 0
          /\ \A y \in 0 .. NDIRECT : B[y] = A[y] \/ B[y] = 0
      BY <3>1, <3>7
    <3>9. \A y \in 0 .. NDIRECT : y > k => B[y] = A[y]
      BY <3>1, <3>7, Sizes
    <3>10. k # MAXFILE => B[NDIRECT] = A[NDIRECT]
      BY <3>1, <3>7, Sizes
    <3> QED
      BY <3>4, <3>5, <3>8, <3>9, <3>10 DEF A, B
  <2> QED
    BY <2>1, <2>2
<1>12. PICK t : t = [th[p] EXCEPT !.tot = k + 1, !.logged = th[p].logged \cup {BBLOCK(b)}]
  OBVIOUS
<1>13. th' = [th EXCEPT ![p] = t]
  BY <1>2, <1>9, <1>12
<1>14. /\ t \in Thread /\ t.f = f /\ t.pc = "trunc" /\ t.tot = k + 1
       /\ t.logged = th[p].logged \cup {BBLOCK(b)}
  <2>1. k + 1 \in Nat /\ th[p].logged \cup {BBLOCK(b)} \in SUBSET LogIds
    BY <1>2 DEF Thread, LogIds
  <2> QED
    BY <1>1, <1>2, <1>12, <2>1 DEF Thread
<1>15. th'[p] = t /\ \A q \in Proc \ {p} : th'[q] = th[q]
  BY <1>2, <1>13
<1>16. Moves(p, t)
  BY <1>1, <1>2, <1>3, <1>11, <1>13 DEF Moves, Inside
<1>17. CtlInv'
  <2>1. CallOk(th[p], off[p], ip[f])
    BY <1>1, Before
  <2>2. ASSUME NEW j \in 0 .. NDIRECT - 1, j < k + 1 PROVE ip'[f].addrs[j] = 0
    <3>1. j \in 0 .. NDIRECT /\ j \in Nat
      BY Sizes
    <3>2. CASE j < th[p].tot
      <4>1. ip[f].addrs[j] = 0
        BY <1>2, <2>1, <3>2 DEF CallOk
      <4> QED
        BY <1>11, <3>1, <4>1
    <3>3. CASE th[p].tot <= j /\ j < k
      <4>1. SlotAt(blk, ip[f], j) = 0
        BY <1>3, <1>7, <3>1, <3>3
      <4>2. ip[f].addrs[j] = 0
        BY <4>1, Sizes DEF SlotAt
      <4> QED
        BY <1>11, <3>1, <4>2
    <3>4. CASE j = k
      BY <1>11, <3>4, Sizes
    <3> QED
      BY <1>3, <2>2, <3>1, <3>2, <3>3, <3>4
  <2>3. CallOk(t, off'[p], ip'[t.f])
    BY <1>11, <1>14, <2>2, Sizes DEF CallOk
  <2>4. bitmap' \subseteq Block
    BY <1>9, Before
  <2>5. \A g \in File : lock'[g] = NoProc => dinode'[g] = ip'[g]
    BY <1>2, <1>3, <1>11, Before
  <2>6. \A g \in File : lock'[g] = p => t.f = g /\ t.pc \in Inside
    BY <1>1, <1>2, <1>14, Before DEF Inside
  <2> QED
    BY <1>2, <1>3, <1>11, <1>14, <1>16, <2>3, <2>4, <2>5, <2>6, Before, CtlStep
<1>18. \A g \in File, j \in 0 .. MAXFILE : g # f => SlotAt(blk', ip'[g], j) = SlotAt(blk, ip[g], j)
  BY <1>2, <1>11
<1>19. \A j \in 0 .. MAXFILE : j > k => SlotAt(blk', ip'[f], j) = SlotAt(blk, ip[f], j)
  <2> SUFFICES ASSUME NEW j \in 0 .. MAXFILE, j > k
               PROVE  SlotAt(blk', ip'[f], j) = SlotAt(blk, ip[f], j)
    OBVIOUS
  <2>1. ip'[f].addrs[NDIRECT] = ip[f].addrs[NDIRECT]
    BY <1>11, Sizes
  <2>2. CASE j < NDIRECT
    <3>1. ip'[f].addrs[j] = ip[f].addrs[j]
      BY <1>11, <2>2, Sizes
    <3> QED
      BY <2>2, <3>1 DEF SlotAt
  <2>3. CASE ~ (j < NDIRECT)
    BY <1>2, <2>1, <2>3 DEF SlotAt
  <2> QED
    BY <2>2, <2>3
<1>20. /\ \A g \in File, j \in 0 .. MAXFILE : g # f => (Live(g, j)' <=> Live(g, j))
       /\ \A j \in 0 .. MAXFILE : Live(f, j)' <=> j >= k + 1
       /\ Truncating(f)'
  <2>1. \A q \in Proc : th'[q].pc = "trunc" <=> th[q].pc = "trunc"
    BY <1>2, <1>14, <1>15
  <2>2. \A q \in Proc : th'[q].f = th[q].f
    BY <1>1, <1>14, <1>15
  <2>3. \A q \in Proc : th'[q].pc = "trunc" /\ th'[q].f = f <=> q = p
    BY <1>1, <1>2, <1>3, <2>1, <2>2 DEF Inside
  <2>4. \A q \in Proc \ {p} : th'[q].tot = th[q].tot
    BY <1>15
  <2>5. \A j \in 0 .. MAXFILE : Live(f, j)' <=> j >= k + 1
    BY <1>14, <1>15, <2>3 DEF Live
  <2>6. Truncating(f)'
    BY <2>3 DEF Truncating
  <2>7. ASSUME NEW g \in File, NEW j \in 0 .. MAXFILE, g # f PROVE Live(g, j)' <=> Live(g, j)
    BY <1>1, <2>1, <2>2, <2>4, <2>7 DEF Live
  <2> QED
    BY <2>5, <2>6, <2>7
<1>21. OwnInv'
  <2>1. \A g \in File, j \in 0 .. MAXFILE : g # f => Names'[g][j] = Names[g][j]
    BY <1>2, <1>3, <1>18, <1>20, NamesIs DEF Current
  <2>2. ASSUME NEW j \in 0 .. MAXFILE PROVE Names'[f][j] = IF j >= k + 1 THEN SlotAt(blk', ip'[f], j) ELSE 0
    BY <1>2, <1>3, <1>20, NamesIs
  <2>3. ASSUME NEW j \in 0 .. MAXFILE, j # k PROVE Names'[f][j] = Names[f][j]
    <3>1. CASE j > k
      <4>1. j >= k + 1 /\ j >= th[p].tot
        BY <1>3, <1>7, <3>1
      <4> QED
        BY <1>3, <1>19, <2>2, <3>1, <4>1
    <3>2. CASE j < k
      <4>1. ~ (j >= k + 1)
        BY <3>2
      <4>2. Names[f][j] = 0
        <5>1. CASE j >= th[p].tot
          BY <1>3, <1>7, <3>2, <5>1
        <5>2. CASE ~ (j >= th[p].tot)
          BY <1>3, <5>2
        <5> QED
          BY <5>1, <5>2
      <4> QED
        BY <2>2, <4>1, <4>2
    <3> QED
      BY <2>3, <3>1, <3>2
  <2>4. Names'[f][k] = 0
    BY <2>2
  <2>5. Owned(Names, bitmap) /\ 0 .. nmeta - 1 \subseteq bitmap
    BY <1>3 DEF Inv, OwnInv, InUse
  <2>6. \A g \in File, j \in 0 .. MAXFILE : g # f \/ j # k => Names'[g][j] = Names[g][j]
    BY <2>1, <2>3
  <2>7. Owned(Names', bitmap \ {b})
    BY <1>7, <1>8, <2>4, <2>5, <2>6, OwnedLose
  <2>8. InUse' = bitmap \ {b} /\ 0 .. nmeta - 1 \subseteq bitmap'
    BY <1>2, <1>3, <1>8, <1>9, <2>5 DEF InUse
  <2> QED
    BY <1>2, <1>3, <2>7, <2>8 DEF Inv, OwnInv, Fresh
<1>22. LogInv'
  <2>1. LogOk(th[p], off[p], blk, ip[f])
    BY <1>1 DEF Inv, LogInv
  <2>2. /\ \A x \in th[p].logged : \E a \in Block : x = BBLOCK(a)
        /\ IsFiniteSet(th[p].logged) /\ Cardinality(th[p].logged) <= th[p].tot
    BY <1>2, <2>1 DEF LogOk
  <2>3. IsFiniteSet(t.logged) /\ Cardinality(t.logged) <= Cardinality(th[p].logged) + 1
        /\ Cardinality(th[p].logged) \in Nat /\ Cardinality(t.logged) \in Nat
    <3> DEFINE L == th[p].logged
               x == BBLOCK(b)
    <3>1. IsFiniteSet(L) /\ Cardinality(L) \in Nat
      BY <2>2, FS_CardinalityType
    <3> HIDE DEF L, x
    <3>2. /\ IsFiniteSet(L \cup {x})
          /\ Cardinality(L \cup {x}) = IF x \in L THEN Cardinality(L) ELSE Cardinality(L) + 1
      BY <3>1, FS_AddElement
    <3>3. t.logged = L \cup {x}
      BY <1>14 DEF L, x
    <3>4. Cardinality(t.logged) <= Cardinality(L) + 1 /\ Cardinality(t.logged) \in Nat
      BY <3>1, <3>2, <3>3
    <3> QED
      BY <3>1, <3>2, <3>3, <3>4 DEF L
  <2>4. Cardinality(t.logged) <= t.tot
    BY <1>3, <1>7, <1>14, <2>2, <2>3
  <2>5. LogOk(t, off'[p], blk', ip'[t.f])
    BY <1>14, <2>2, <2>3, <2>4 DEF LogOk
  <2> QED
    BY <1>1, <1>2, <1>14, <1>16, <1>18, <2>5, OthersLog
<1>23. DataInv'
  <2>1. \A g \in File \ {t.f}, j \in 0 .. MAXFILE - 1 :
          /\ SlotAt(blk', ip'[g], j) = SlotAt(blk, ip[g], j)
          /\ blk'[SlotAt(blk, ip[g], j)] = blk[SlotAt(blk, ip[g], j)]
    BY <1>2, <1>14, <1>18, Sizes
  <2>2. ip'[t.f].size <= MAXFILE * BSIZE
    BY <1>3, <1>11, <1>14 DEF Inv, DataInv, Current
  <2>3. Truncating(t.f)'
    BY <1>14, <1>20
  <2>4. \A q \in Proc : ~ (th'[q].pc \in {"write", "finish"} /\ th'[q].f = t.f)
    BY <1>2, <1>3, <1>14, <1>15 DEF Inside
  <2> QED
    BY <1>1, <1>14, <1>16, <2>1, <2>2, <2>3, <2>4, DataStep
<1> QED
  BY <1>17, <1>21, <1>22, <1>23 DEF Inv

LEMMA TruncEndStep ==
  ASSUME Inv, NEW p \in Proc, TruncEnd(p)
  PROVE  Inv'
<1>1. PICK f \in File : f = th[p].f
  BY Before
<1>2. /\ th[p].pc = "trunc" /\ th[p] \in Thread /\ th \in [Proc -> Thread] /\ Pending(p) = {}
      /\ UNCHANGED <<made, freeblock, bitmap, blk, off>>
  BY Before DEF TruncEnd
<1>3. /\ made /\ lock[f] = p /\ ip[f] \in Inode /\ th[p].tot \in Nat
      /\ \A q \in Proc : th[q].pc \in Inside /\ th[q].f = f => q = p
      /\ \A k \in 0 .. MAXFILE :
           Names[f][k] = IF k >= th[p].tot THEN SlotAt(blk, ip[f], k) ELSE 0
  BY <1>1, <1>2, TruncAlone
<1>4. PICK e : e = [ip[f] EXCEPT !.size = 0]
  OBVIOUS
<1>5. PICK t : t = [Idle EXCEPT !.f = f]
  OBVIOUS
<1>6. /\ ip' = [ip EXCEPT ![f] = e] /\ dinode' = [dinode EXCEPT ![f] = e]
      /\ lock' = [lock EXCEPT ![f] = NoProc] /\ th' = [th EXCEPT ![p] = t]
  BY <1>1, <1>4, <1>5 DEF TruncEnd
<1>7. t \in Thread /\ t.pc = "user" /\ t.f = f /\ t.logged = {}
  BY <1>5, IdleType DEF Idle
<1>8. e \in Inode /\ e.size = 0 /\ e.addrs = ip[f].addrs
  BY <1>3, <1>4 DEF Inode
<1>9. /\ ip' \in [File -> Inode] /\ dinode' \in [File -> Inode]
      /\ lock' \in [File -> Proc \cup {NoProc}]
      /\ ip'[f] = e /\ dinode'[f] = e /\ lock'[f] = NoProc
      /\ \A g \in File \ {f} : ip'[g] = ip[g] /\ dinode'[g] = dinode[g] /\ lock'[g] = lock[g]
      /\ th'[p] = t /\ \A q \in Proc \ {p} : th'[q] = th[q]
  BY <1>2, <1>6, <1>8, Before
<1>10. \A k \in 0 .. MAXFILE : SlotAt(blk, ip[f], k) = 0 \/ k < th[p].tot
  BY <1>1, <1>2, <1>3, SlotIs DEF Pending
<1>11. /\ \A k \in 0 .. NDIRECT - 1 : ip[f].addrs[k] = 0
       /\ ip[f].addrs[NDIRECT] = 0
  <2>1. CallOk(th[p], off[p], ip[f])
    BY <1>1, Before
  <2>2. /\ th[p].tot <= MAXFILE + 1
        /\ \A k \in 0 .. NDIRECT - 1 : k < th[p].tot => ip[f].addrs[k] = 0
        /\ th[p].tot = MAXFILE + 1 => ip[f].addrs[NDIRECT] = 0
    BY <1>2, <2>1 DEF CallOk
  <2>3. ASSUME NEW k \in 0 .. NDIRECT - 1 PROVE ip[f].addrs[k] = 0
    <3>1. k \in 0 .. MAXFILE /\ k < NDIRECT
      BY Sizes
    <3>2. SlotAt(blk, ip[f], k) = ip[f].addrs[k]
      BY <3>1 DEF SlotAt
    <3> QED
      BY <1>10, <2>2, <3>1, <3>2
  <2>4. ip[f].addrs[NDIRECT] = 0
    <3>1. SlotAt(blk, ip[f], MAXFILE) = ip[f].addrs[NDIRECT]
      BY Sizes DEF SlotAt
    <3>2. SlotAt(blk, ip[f], MAXFILE) = 0 \/ MAXFILE < th[p].tot
      BY <1>10, Sizes
    <3>3. CASE MAXFILE < th[p].tot
      BY <1>3, <2>2, <3>3, Sizes
    <3> QED
      BY <3>1, <3>2, <3>3
  <2> QED
    BY <2>3, <2>4
<1>12. \A k \in 0 .. MAXFILE : SlotAt(blk', ip'[f], k) = 0 /\ Names[f][k] = 0
  <2>1. ASSUME NEW k \in 0 .. MAXFILE PROVE SlotAt(blk', ip'[f], k) = 0
    <3>1. k < NDIRECT => k \in 0 .. NDIRECT - 1
      BY Sizes
    <3> QED
      BY <1>8, <1>9, <1>11, <3>1 DEF SlotAt
  <2>2. \A k \in 0 .. MAXFILE : Names[f][k] = 0
    BY <1>3, <1>10
  <2> QED
    BY <2>1, <2>2
<1>13. \A g \in File, j \in 0 .. MAXFILE : g # f => SlotAt(blk', ip'[g], j) = SlotAt(blk, ip[g], j)
  BY <1>2, <1>9
<1>14. Moves(p, t)
  BY <1>1, <1>2, <1>3, <1>6, <1>9 DEF Moves, Inside
<1>15. CtlInv'
  <2>1. CallOk(t, off'[p], ip'[t.f])
    BY <1>7 DEF CallOk
  <2>2. \A g \in File : lock'[g] = p => t.f = g /\ t.pc \in Inside
    BY <1>1, <1>9, Before
  <2>3. \A g \in File, q \in Proc \ {p} : lock'[g] = q <=> lock[g] = q
    BY <1>3, <1>9
  <2>4. \A g \in File : lock'[g] = NoProc => dinode'[g] = ip'[g]
    BY <1>3, <1>9, Before
  <2>5. t.pc \notin Inside
    BY <1>7 DEF Inside
  <2> QED
    BY <1>2, <1>7, <1>9, <1>14, <2>1, <2>2, <2>3, <2>4, <2>5, Before, CtlStep
<1>16. OwnInv'
  <2>1. \A g \in File, j \in 0 .. MAXFILE : g # f => (Live(g, j)' <=> Live(g, j))
    <3> SUFFICES ASSUME NEW g \in File, NEW j \in 0 .. MAXFILE, g # f
                 PROVE  Live(g, j)' <=> Live(g, j)
      OBVIOUS
    <3>1. \A q \in Proc : (th'[q].pc = "trunc" /\ th'[q].f = g) <=> (th[q].pc = "trunc" /\ th[q].f = g)
      BY <1>1, <1>7, <1>9
    <3>2. \A q \in Proc \ {p} : th'[q].tot = th[q].tot
      BY <1>9
    <3>3. ~ (th[p].pc = "trunc" /\ th[p].f = g)
      BY <1>1
    <3> QED
      BY <3>1, <3>2, <3>3 DEF Live
  <2>2. \A g \in File, j \in 0 .. MAXFILE : g # f => Names'[g][j] = Names[g][j]
    BY <1>2, <1>3, <1>13, <2>1, NamesIs DEF Current
  <2>3. \A j \in 0 .. MAXFILE : Names'[f][j] = Names[f][j]
    BY <1>2, <1>3, <1>12, NamesIs
  <2>4. InUse' = InUse /\ Owned(Names, InUse)
    BY <1>2 DEF InUse, Inv, OwnInv
  <2>5. Owned(Names', InUse')
    BY <2>2, <2>3, <2>4, OwnedSame
  <2> QED
    BY <1>2, <1>3, <2>5 DEF Inv, OwnInv, Fresh
<1>17. LogInv'
  <2>1. LogOk(t, off'[p], blk', ip'[t.f])
    BY <1>7 DEF LogOk
  <2> QED
    BY <1>1, <1>2, <1>7, <1>13, <1>14, <2>1, OthersLog
<1>18. DataInv'
  <2>1. \A g \in File \ {t.f}, j \in 0 .. MAXFILE - 1 :
          /\ SlotAt(blk', ip'[g], j) = SlotAt(blk, ip[g], j)
          /\ blk'[SlotAt(blk, ip[g], j)] = blk[SlotAt(blk, ip[g], j)]
    BY <1>2, <1>7, <1>13, Sizes
  <2>2. ip'[t.f].size = 0 /\ 0 <= MAXFILE * BSIZE
    BY <1>7, <1>8, <1>9, Sizes
  <2>3. \A i \in 0 .. ip'[t.f].size - 1 : FALSE
    BY <2>2
  <2>4. \A q \in Proc : ~ (th'[q].pc \in {"write", "finish"} /\ th'[q].f = t.f)
    BY <1>2, <1>3, <1>7, <1>9 DEF Inside
  <2> QED
    BY <1>1, <1>7, <1>14, <2>1, <2>2, <2>3, <2>4, DataStep
<1> QED
  BY <1>15, <1>16, <1>17, <1>18 DEF Inv

-----------------------------------------------------------------------------
(* mkfs.                                                                   *)

\* iappend() has put n1 bytes into block x of f.
Appends(f, n1, x) ==
  LET e == dinode[f]
      k == e.size \div BSIZE
      at == e.size % BSIZE
      new(j) == SlotAt(blk', dinode'[f], j)
      old(j) == SlotAt(blk, e, j) IN
  /\ k \in 0 .. MAXFILE - 1 /\ n1 <= BSIZE - at /\ x \in Block /\ x # 0
  /\ freeblock' \in Nat /\ freeblock' <= FSSIZE
  /\ blk' \in [Block -> [Cells -> Cell]] /\ dinode' \in [File -> Inode]
  /\ dinode'[f].size = e.size + n1 /\ \A g \in File : g # f => dinode'[g] = dinode[g]
  /\ \A c \in Cells : blk'[x][c] = IF c \in at .. at + n1 - 1 THEN Mark(f) ELSE blk[x][c]
  /\ \A b \in Block : b # x /\ b # new(MAXFILE) => blk'[b] = blk[b]
  /\ new(k) = x
  /\ \A j \in 0 .. MAXFILE : j \notin {k, MAXFILE} => new(j) = old(j)
  /\ \A g \in File, j \in 0 .. MAXFILE : g # f => SlotAt(blk', dinode'[g], j) = SlotAt(blk, dinode[g], j)
  /\ \/ freeblock' = freeblock /\ old(k) = x /\ new(MAXFILE) = old(MAXFILE)
     \/ freeblock' = freeblock + 1 /\ x = freeblock /\ old(k) = 0 /\ new(MAXFILE) = old(MAXFILE)
     \/ /\ freeblock' = freeblock + 2 /\ x = freeblock + 1 /\ old(k) = 0
        /\ old(MAXFILE) = 0 /\ new(MAXFILE) = freeblock

LEMMA MkfsBefore ==
  ASSUME Inv, ~ made
  PROVE  /\ freeblock \in Nat /\ freeblock <= FSSIZE /\ freeblock >= nmeta /\ freeblock > 0
         /\ dinode \in [File -> Inode] /\ blk \in [Block -> [Cells -> Cell]]
         /\ \A b \in Block : b >= freeblock => blk[b] = Zeroes
         /\ \A g \in File, j \in 0 .. MAXFILE : Names[g][j] = SlotAt(blk, dinode[g], j)
         /\ \A g \in File, j \in 0 .. MAXFILE : SlotAt(blk, dinode[g], j) # 0 =>
              /\ SlotAt(blk, dinode[g], j) \in Block /\ SlotAt(blk, dinode[g], j) < freeblock
              /\ \A h \in File, i \in 0 .. MAXFILE :
                   SlotAt(blk, dinode[h], i) = SlotAt(blk, dinode[g], j) => h = g /\ i = j
         /\ \A g \in File : SlotAt(blk, dinode[g], MAXFILE) = dinode[g].addrs[NDIRECT]
<1>1. freeblock \in Nat /\ freeblock <= FSSIZE /\ freeblock >= nmeta /\ freeblock > 0
  BY DEF Inv, CtlInv, TypeOK, OwnInv, Fresh
<1>2. /\ dinode \in [File -> Inode] /\ blk \in [Block -> [Cells -> Cell]]
      /\ \A b \in Block : b >= freeblock => blk[b] = Zeroes
  BY DEF Inv, CtlInv, TypeOK, OwnInv, Fresh
<1>3. \A g, j : Live(g, j)
  BY DEF Inv, CtlInv, LocksHeld, Live
<1>4. \A g \in File, j \in 0 .. MAXFILE : Names[g][j] = SlotAt(blk, dinode[g], j)
  BY <1>3, NamesIs DEF Current
<1>5. ASSUME NEW g \in File, NEW j \in 0 .. MAXFILE, SlotAt(blk, dinode[g], j) # 0
      PROVE  /\ SlotAt(blk, dinode[g], j) \in Block /\ SlotAt(blk, dinode[g], j) < freeblock
             /\ \A h \in File, i \in 0 .. MAXFILE :
                  SlotAt(blk, dinode[h], i) = SlotAt(blk, dinode[g], j) => h = g /\ i = j
  <2>1. /\ Names[g][j] \in InUse /\ Names[g][j] \in Block
        /\ \A h \in File, i \in 0 .. MAXFILE : Names[h][i] = Names[g][j] => h = g /\ i = j
    BY <1>4, <1>5, NamesOwned
  <2>2. Names[g][j] < freeblock
    BY <1>1, <2>1 DEF InUse
  <2> QED
    BY <1>4, <2>1, <2>2
<1>6. \A g \in File : SlotAt(blk, dinode[g], MAXFILE) = dinode[g].addrs[NDIRECT]
  BY Sizes DEF SlotAt
<1> QED
  BY <1>1, <1>2, <1>4, <1>5, <1>6

LEMMA MarkCell == ASSUME NEW f \in File PROVE Mark(f) \in Cell
BY DEF Mark, Cell, File

LEMMA AppendDirect ==
  ASSUME Inv, ~ made, NEW f \in File, NEW n1 \in Nat, iappend(f, n1),
         dinode[f].size \div BSIZE < NDIRECT
  PROVE  \E x : Appends(f, n1, x)
<1> DEFINE e == dinode[f]
           k == e.size \div BSIZE
           at == e.size % BSIZE
           old == e.addrs[k]
           x == IF old # 0 THEN old ELSE freeblock
           data == [c \in Cells |-> IF c \in at .. at + n1 - 1 THEN Mark(f) ELSE blk[x][c]]
           ad == [e.addrs EXCEPT ![k] = x]
<1>1. /\ freeblock \in Nat /\ freeblock <= FSSIZE /\ freeblock >= nmeta /\ freeblock > 0
      /\ dinode \in [File -> Inode] /\ blk \in [Block -> [Cells -> Cell]]
      /\ e \in Inode /\ e.size \in Nat /\ e.addrs \in [0 .. NDIRECT -> Block]
  BY MkfsBefore DEF Inode
<1>2. k \in Nat /\ at \in Nat /\ at < BSIZE
  BY <1>1, DivMod
<1>3. k \in 0 .. MAXFILE - 1 /\ k \in 0 .. NDIRECT /\ k \in 0 .. MAXFILE /\ k # MAXFILE /\ k # NDIRECT
  BY <1>2, Sizes
<1>4. /\ n1 <= BSIZE - at /\ x < FSSIZE
      /\ freeblock' = IF old # 0 THEN freeblock ELSE freeblock + 1
      /\ blk' = [blk EXCEPT ![x] = data]
      /\ dinode' = [dinode EXCEPT ![f] = [addrs |-> ad, size |-> e.size + n1]]
  BY DEF iappend
<1>5. SlotAt(blk, e, k) = old /\ SlotAt(blk, e, MAXFILE) = e.addrs[NDIRECT]
  BY Sizes DEF SlotAt
<1>6. /\ x \in Block /\ x # 0
      /\ \A g \in File, j \in 0 .. MAXFILE : SlotAt(blk, dinode[g], j) = x => g = f /\ j = k
  <2>1. CASE old # 0
    BY <1>3, <1>5, <2>1, MkfsBefore
  <2>2. CASE old = 0
    <3>1. x = freeblock /\ x \in Block
      BY <1>1, <1>4, <2>2 DEF Block
    <3> QED
      BY <1>1, <3>1, MkfsBefore
  <2> QED
    BY <2>1, <2>2
<1> HIDE DEF x
<1>7. data \in [Cells -> Cell] /\ \A c \in Cells : data[c] = IF c \in at .. at + n1 - 1 THEN Mark(f) ELSE blk[x][c]
  <2>1. blk[x] \in [Cells -> Cell] /\ Mark(f) \in Cell
    BY <1>1, <1>6, MarkCell
  <2> HIDE DEF at
  <2> QED
    BY <2>1
<1> HIDE DEF data
<1>8. blk' \in [Block -> [Cells -> Cell]] /\ blk'[x] = data /\ \A b \in Block : b # x => blk'[b] = blk[b]
  BY <1>1, <1>4, <1>6, <1>7
<1>9. ad \in [0 .. NDIRECT -> Block] /\ ad[k] = x /\ \A y \in 0 .. NDIRECT : y # k => ad[y] = e.addrs[y]
  <2> DEFINE A == e.addrs
  <2>1. A \in [0 .. NDIRECT -> Block]
    BY <1>1
  <2> HIDE DEF A, k
  <2>2. [A EXCEPT ![k] = x] \in [0 .. NDIRECT -> Block] /\ [A EXCEPT ![k] = x][k] = x
        /\ \A y \in 0 .. NDIRECT : y # k => [A EXCEPT ![k] = x][y] = A[y]
    BY <1>3, <1>6, <2>1
  <2> QED
    BY <2>2 DEF A
<1> HIDE DEF ad
<1>10. /\ dinode' \in [File -> Inode] /\ dinode'[f].addrs = ad /\ dinode'[f].size = e.size + n1
       /\ \A g \in File : g # f => dinode'[g] = dinode[g]
  <2>1. [addrs |-> ad, size |-> e.size + n1] \in Inode
    BY <1>1, <1>9 DEF Inode
  <2> QED
    BY <1>1, <1>4, <2>1
<1>11. \A g \in File : dinode[g].addrs[NDIRECT] # x
  <2> SUFFICES ASSUME NEW g \in File PROVE dinode[g].addrs[NDIRECT] # x
    OBVIOUS
  <2>1. SlotAt(blk, dinode[g], MAXFILE) = dinode[g].addrs[NDIRECT]
    BY MkfsBefore
  <2> QED
    BY <1>3, <1>6, <2>1, Sizes
<1>12. \A g \in File : blk'[dinode[g].addrs[NDIRECT]] = blk[dinode[g].addrs[NDIRECT]]
  <2>1. \A g \in File : dinode[g].addrs[NDIRECT] \in Block
    BY <1>1, Sizes DEF Inode
  <2> QED
    BY <1>8, <1>11, <2>1
<1>13. \A g \in File, j \in 0 .. MAXFILE : g # f => SlotAt(blk', dinode'[g], j) = SlotAt(blk, dinode[g], j)
  BY <1>10, <1>12 DEF SlotAt
<1>14. ad[NDIRECT] = e.addrs[NDIRECT]
  BY <1>3, <1>9, Sizes
<1>15. SlotAt(blk', dinode'[f], k) = x
  BY <1>9, <1>10 DEF SlotAt
<1>16. ASSUME NEW j \in 0 .. MAXFILE, j # k PROVE SlotAt(blk', dinode'[f], j) = SlotAt(blk, e, j)
  <2>1. CASE j < NDIRECT
    <3>1. ad[j] = e.addrs[j]
      BY <1>9, <1>16, <2>1, Sizes
    <3> QED
      BY <1>10, <2>1, <3>1 DEF SlotAt
  <2>2. CASE ~ (j < NDIRECT)
    BY <1>10, <1>12, <1>14, <2>2 DEF SlotAt
  <2> QED
    BY <2>1, <2>2
<1>17. /\ freeblock' \in Nat /\ freeblock' <= FSSIZE
       /\ \/ freeblock' = freeblock /\ SlotAt(blk, e, k) = x
          \/ freeblock' = freeblock + 1 /\ x = freeblock /\ SlotAt(blk, e, k) = 0
  <2>1. CASE old # 0
    <3>1. x = old /\ freeblock' = freeblock
      BY <1>4, <2>1 DEF x
    <3> QED
      BY <1>1, <1>5, <3>1
  <2>2. CASE old = 0
    <3>1. x = freeblock /\ freeblock' = freeblock + 1
      BY <1>4, <2>2 DEF x
    <3>2. freeblock < FSSIZE
      BY <1>4, <3>1
    <3>3. freeblock' \in Nat /\ freeblock' <= FSSIZE
      BY <1>1, <3>1, <3>2
    <3> QED
      BY <1>5, <2>2, <3>1, <3>3
  <2> QED
    BY <2>1, <2>2
<1>18. SlotAt(blk', dinode'[f], MAXFILE) = SlotAt(blk, e, MAXFILE)
  BY <1>3, <1>16, Sizes
<1>19. Appends(f, n1, x)
  <2> HIDE DEF e, k, at
  <2>1. \A c \in Cells : blk'[x][c] = IF c \in at .. at + n1 - 1 THEN Mark(f) ELSE blk[x][c]
    BY <1>7, <1>8
  <2> QED
    BY <1>3, <1>4, <1>6, <1>8, <1>10, <1>13, <1>15, <1>16, <1>17, <1>18, <2>1 DEF Appends, e, k, at
<1> QED
  BY <1>19

LEMMA AppendIndirect ==
  ASSUME Inv, ~ made, NEW f \in File, NEW n1 \in Nat, iappend(f, n1),
         ~ (dinode[f].size \div BSIZE < NDIRECT)
  PROVE  \E x : Appends(f, n1, x)
<1> DEFINE e == dinode[f]
           k == e.size \div BSIZE
           at == e.size % BSIZE
           first == e.addrs[NDIRECT] # 0
           ind == IF first THEN e.addrs[NDIRECT] ELSE freeblock
           old == IF first THEN blk[ind][k - NDIRECT] ELSE 0
           free == IF first THEN freeblock ELSE freeblock + 1
           x == IF old # 0 THEN old ELSE free
           data == [c \in Cells |-> IF c \in at .. at + n1 - 1 THEN Mark(f) ELSE blk[x][c]]
           ad == [e.addrs EXCEPT ![NDIRECT] = ind]
           c0 == k - NDIRECT
<1>1. /\ freeblock \in Nat /\ freeblock <= FSSIZE /\ freeblock >= nmeta /\ freeblock > 0
      /\ dinode \in [File -> Inode] /\ blk \in [Block -> [Cells -> Cell]]
      /\ e \in Inode /\ e.size \in Nat /\ e.addrs \in [0 .. NDIRECT -> Block]
  BY MkfsBefore DEF Inode
<1>2. k \in Nat /\ at \in Nat /\ at < BSIZE
  BY <1>1, DivMod
<1>3. /\ n1 <= BSIZE - at /\ x < FSSIZE /\ k < MAXFILE
      /\ freeblock' = IF old # 0 THEN free ELSE free + 1
      /\ blk' = [blk EXCEPT ![ind][c0] = x, ![x] = data]
      /\ dinode' = [dinode EXCEPT ![f] = [addrs |-> ad, size |-> e.size + n1]]
  BY DEF iappend
<1>4. x < FSSIZE /\ k < MAXFILE
  BY <1>3
<1>5. /\ k \in 0 .. MAXFILE - 1 /\ k \in 0 .. MAXFILE /\ k # MAXFILE /\ ~ (k < NDIRECT)
      /\ c0 \in Cells
  <2> HIDE DEF k
  <2>1. k \in 0 .. MAXFILE - 1 /\ k \in 0 .. MAXFILE /\ k # MAXFILE /\ ~ (k < NDIRECT)
    <3>1. ~ (k < NDIRECT)
      BY DEF k
    <3> QED
      BY <1>2, <1>4, <3>1, Sizes
  <2>2. c0 \in Cells
    BY <2>1 DEF MAXFILE, Cells
  <2> QED
    BY <2>1, <2>2
<1>6. /\ SlotAt(blk, e, k) = old
      /\ SlotAt(blk, e, MAXFILE) = e.addrs[NDIRECT]
  BY <1>5, Sizes DEF SlotAt
<1>7. /\ first => ind = e.addrs[NDIRECT] /\ free = freeblock
      /\ ~ first => ind = freeblock /\ free = freeblock + 1 /\ old = 0
      /\ x = IF old # 0 THEN old ELSE free
  OBVIOUS
<1> HIDE DEF x, ind, old, free
\* The indirect block is f's or fresh, and so is the other.
<1>8. /\ ind \in Block /\ ind # 0 /\ x \in Block /\ x # 0 /\ x # ind /\ x \in Cell
      /\ \A g \in File, j \in 0 .. MAXFILE : SlotAt(blk, dinode[g], j) = ind => g = f /\ j = MAXFILE
      /\ \A g \in File, j \in 0 .. MAXFILE : SlotAt(blk, dinode[g], j) = x => g = f /\ j = k
      /\ ~ first => blk[ind] = Zeroes
      /\ freeblock' \in Nat /\ freeblock' <= FSSIZE
      /\ \/ freeblock' = freeblock /\ SlotAt(blk, e, k) = x /\ ind = SlotAt(blk, e, MAXFILE)
         \/ freeblock' = freeblock + 1 /\ x = freeblock /\ SlotAt(blk, e, k) = 0 /\ ind = SlotAt(blk, e, MAXFILE)
         \/ /\ freeblock' = freeblock + 2 /\ x = freeblock + 1 /\ SlotAt(blk, e, k) = 0
            /\ SlotAt(blk, e, MAXFILE) = 0 /\ ind = freeblock
  <2>1. CASE first
    <3>1. /\ ind = SlotAt(blk, e, MAXFILE) /\ ind # 0 /\ free = freeblock
      BY <1>6, <1>7, <2>1
    <3>2. /\ ind \in Block /\ ind < freeblock
          /\ \A g \in File, j \in 0 .. MAXFILE : SlotAt(blk, dinode[g], j) = ind => g = f /\ j = MAXFILE
      BY <3>1, MkfsBefore, Sizes
    <3>3. CASE old # 0
      <4>1. x = SlotAt(blk, e, k) /\ x # 0 /\ freeblock' = freeblock
        BY <1>3, <1>6, <1>7, <3>1, <3>3
      <4>2. /\ x \in Block
            /\ \A g \in File, j \in 0 .. MAXFILE : SlotAt(blk, dinode[g], j) = x => g = f /\ j = k
        BY <1>5, <4>1, MkfsBefore
      <4>3. x # ind /\ x \in Cell
        BY <1>5, <3>2, <4>1, <4>2 DEF Block, Cell
      <4> QED
        BY <1>1, <2>1, <3>1, <3>2, <4>1, <4>2, <4>3
    <3>4. CASE old = 0
      <4>1. x = freeblock /\ freeblock' = freeblock + 1 /\ SlotAt(blk, e, k) = 0
        BY <1>3, <1>6, <1>7, <3>1, <3>4
      <4>2. x \in Block /\ x # 0 /\ x # ind /\ x \in Cell /\ freeblock' \in Nat /\ freeblock' <= FSSIZE
        <5>1. freeblock < FSSIZE
          BY <1>4, <4>1
        <5> QED
          BY <1>1, <3>2, <4>1, <5>1, BlockBelow
      <4>3. \A g \in File, j \in 0 .. MAXFILE : SlotAt(blk, dinode[g], j) # x
        BY <1>1, <4>1, MkfsBefore
      <4> QED
        BY <1>1, <2>1, <3>1, <3>2, <4>1, <4>2, <4>3
    <3> QED
      BY <3>3, <3>4
  <2>2. CASE ~ first
    <3>1. /\ ind = freeblock /\ x = freeblock + 1 /\ freeblock' = freeblock + 2
          /\ SlotAt(blk, e, k) = 0 /\ SlotAt(blk, e, MAXFILE) = 0
      BY <1>1, <1>3, <1>6, <1>7, <2>2
    <3>2. /\ ind \in Block /\ x \in Block /\ ind # 0 /\ x # 0 /\ x # ind /\ x \in Cell
          /\ freeblock' \in Nat /\ freeblock' <= FSSIZE
      <4>1. freeblock + 1 \in Nat /\ freeblock + 1 < FSSIZE /\ freeblock < FSSIZE
        BY <1>1, <1>4, <3>1
      <4>2. freeblock \in Block /\ freeblock + 1 \in Block /\ freeblock + 1 \in Cell
        BY <1>1, <4>1, BlockBelow
      <4> QED
        BY <1>1, <3>1, <4>1, <4>2
    <3>3. \A g \in File, j \in 0 .. MAXFILE : SlotAt(blk, dinode[g], j) # x /\ SlotAt(blk, dinode[g], j) # ind
      BY <1>1, <3>1, MkfsBefore
    <3>4. blk[ind] = Zeroes
      BY <1>1, <3>1, <3>2, MkfsBefore
    <3> QED
      BY <3>1, <3>2, <3>3, <3>4
  <2> QED
    BY <2>1, <2>2
<1>9. data \in [Cells -> Cell] /\ \A c \in Cells : data[c] = IF c \in at .. at + n1 - 1 THEN Mark(f) ELSE blk[x][c]
  <2>1. blk[x] \in [Cells -> Cell] /\ Mark(f) \in Cell
    BY <1>1, <1>8, MarkCell
  <2> HIDE DEF at
  <2> QED
    BY <2>1
<1> HIDE DEF data
<1>10. /\ blk' \in [Block -> [Cells -> Cell]] /\ blk'[x] = data
       /\ blk'[ind][c0] = x /\ \A c \in Cells : c # c0 => blk'[ind][c] = blk[ind][c]
       /\ \A b \in Block : b # x /\ b # ind => blk'[b] = blk[b]
  <2> DEFINE u == blk[ind]
             w == [u EXCEPT ![c0] = x]
             z == [blk EXCEPT ![ind] = w]
             n == blk'
  <2>1. u \in [Cells -> Cell]
    BY <1>1, <1>8
  <2>2. n = [z EXCEPT ![x] = data]
    BY <1>3
  <2> HIDE DEF n, u, c0
  <2>3. w \in [Cells -> Cell] /\ w[c0] = x /\ \A c \in Cells : c # c0 => w[c] = u[c]
    BY <1>5, <1>8, <2>1
  <2> HIDE DEF w
  <2>4. z \in [Block -> [Cells -> Cell]] /\ z[ind] = w /\ \A b \in Block : b # ind => z[b] = blk[b]
    BY <1>1, <1>8, <2>3
  <2> HIDE DEF z
  <2>5. n \in [Block -> [Cells -> Cell]] /\ n[x] = data /\ \A b \in Block : b # x => n[b] = z[b]
    BY <1>8, <1>9, <2>2, <2>4
  <2>6. n[ind] = w /\ \A b \in Block : b # x /\ b # ind => n[b] = blk[b]
    BY <1>8, <2>4, <2>5
  <2> QED
    BY <2>3, <2>5, <2>6 DEF n, u
<1>11. /\ ad \in [0 .. NDIRECT -> Block] /\ ad[NDIRECT] = ind
       /\ \A y \in 0 .. NDIRECT : y # NDIRECT => ad[y] = e.addrs[y]
  <2> DEFINE A == e.addrs
  <2>1. A \in [0 .. NDIRECT -> Block]
    BY <1>1
  <2> HIDE DEF A
  <2>2. /\ [A EXCEPT ![NDIRECT] = ind] \in [0 .. NDIRECT -> Block]
        /\ [A EXCEPT ![NDIRECT] = ind][NDIRECT] = ind
        /\ \A y \in 0 .. NDIRECT : y # NDIRECT => [A EXCEPT ![NDIRECT] = ind][y] = A[y]
    BY <1>8, <2>1, Sizes
  <2> QED
    BY <2>2 DEF A
<1> HIDE DEF ad
<1>12. /\ dinode' \in [File -> Inode] /\ dinode'[f].addrs = ad /\ dinode'[f].size = e.size + n1
       /\ \A g \in File : g # f => dinode'[g] = dinode[g]
  <2>1. [addrs |-> ad, size |-> e.size + n1] \in Inode
    BY <1>1, <1>11 DEF Inode
  <2> QED
    BY <1>1, <1>3, <2>1
<1>13. \A b \in Block : b # x /\ b # ind => blk'[b] = blk[b]
  <2> HIDE DEF e, k, at, data, first, c0, ad
  <2> QED
    BY <1>10
<1>14. ASSUME NEW g \in File, g # f, NEW j \in 0 .. MAXFILE
       PROVE  SlotAt(blk', dinode'[g], j) = SlotAt(blk, dinode[g], j)
  <2>1. dinode[g].addrs[NDIRECT] \in Block
    BY <1>1, Sizes DEF Inode
  <2>2. SlotAt(blk, dinode[g], MAXFILE) = dinode[g].addrs[NDIRECT]
    BY MkfsBefore
  <2>3. dinode[g].addrs[NDIRECT] # x /\ dinode[g].addrs[NDIRECT] # ind
    BY <1>8, <1>14, <2>2, Sizes
  <2>4. blk'[dinode[g].addrs[NDIRECT]] = blk[dinode[g].addrs[NDIRECT]]
    BY <1>13, <2>1, <2>3
  <2> QED
    BY <1>12, <1>14, <2>4 DEF SlotAt
<1>15. SlotAt(blk', dinode'[f], MAXFILE) = ind
  BY <1>11, <1>12, Sizes DEF SlotAt
<1>16. SlotAt(blk', dinode'[f], k) = x
  BY <1>5, <1>8, <1>10, <1>11, <1>12 DEF SlotAt
<1>17. ASSUME NEW j \in 0 .. MAXFILE, j \notin {k, MAXFILE}
       PROVE  SlotAt(blk', dinode'[f], j) = SlotAt(blk, e, j)
  <2>1. CASE j < NDIRECT
    <3>1. ad[j] = e.addrs[j]
      BY <1>11, <2>1, Sizes
    <3> QED
      BY <1>12, <2>1, <3>1 DEF SlotAt
  <2>2. CASE ~ (j < NDIRECT)
    <3>1. j - NDIRECT \in Cells /\ j - NDIRECT # c0
      BY <1>2, <1>17, <2>2 DEF MAXFILE, Cells
    <3>2. SlotAt(blk', dinode'[f], j) = blk[ind][j - NDIRECT]
      BY <1>8, <1>10, <1>11, <1>12, <1>17, <2>2, <3>1 DEF SlotAt
    <3>3. CASE first
      BY <1>7, <1>17, <2>2, <3>2, <3>3 DEF SlotAt
    <3>4. CASE ~ first
      <4>1. blk[ind][j - NDIRECT] = 0
        BY <1>8, <3>1, <3>4 DEF Zeroes
      <4>2. SlotAt(blk, e, j) = 0
        BY <2>2, <3>4 DEF SlotAt
      <4> QED
        BY <3>2, <4>1, <4>2
    <3> QED
      BY <3>3, <3>4
  <2> QED
    BY <2>1, <2>2
<1>18. Appends(f, n1, x)
  <2> HIDE DEF e, k, at, data, first, c0
  <2>1. \A c \in Cells : blk'[x][c] = IF c \in at .. at + n1 - 1 THEN Mark(f) ELSE blk[x][c]
    BY <1>9, <1>10
  <2>2. /\ \A b \in Block : b # x /\ b # SlotAt(blk', dinode'[f], MAXFILE) => blk'[b] = blk[b]
        /\ \A g \in File, j \in 0 .. MAXFILE : g # f => SlotAt(blk', dinode'[g], j) = SlotAt(blk, dinode[g], j)
    BY <1>13, <1>14, <1>15
  <2> QED
    BY <1>3, <1>5, <1>8, <1>10, <1>12, <1>15, <1>16, <1>17, <2>1, <2>2 DEF Appends, e, k, at
<1> QED
  BY <1>18

\* Afterwards the processes, the locks and the inodes in memory are as before.
LEMMA MkfsCtl ==
  ASSUME Inv, ~ made, UNCHANGED <<made, bitmap, ip, lock, off, th>>,
         freeblock' \in 0 .. FSSIZE, blk' \in [Block -> [Cells -> Cell]], dinode' \in [File -> Inode]
  PROVE  CtlInv' /\ LogInv'
<1>1. \A p \in Proc : th[p].pc = "user" /\ CallOk(th[p], off[p], ip[th[p].f])
  BY DEF Inv, CtlInv, LocksHeld
<1>2. TypeOK' /\ LocksHeld' /\ Synced'
  BY DEF Inv, CtlInv, TypeOK, LocksHeld, Synced
<1>3. LogInv'
  BY <1>1 DEF LogInv, LogOk
<1> QED
  BY <1>1, <1>2, <1>3 DEF CtlInv

\* The new blocks have their owner.
LEMMA AppendOwn ==
  ASSUME Inv, ~ made, NEW f \in File, NEW n1 \in Nat, NEW x, Appends(f, n1, x),
         UNCHANGED <<made, bitmap, ip, lock, off, th>>
  PROVE  OwnInv'
<1>1. PICK k \in 0 .. MAXFILE : k = dinode[f].size \div BSIZE
  BY Sizes DEF Appends
<1>2. /\ k # MAXFILE /\ x \in Block /\ freeblock' \in Nat /\ freeblock' <= FSSIZE
      /\ SlotAt(blk', dinode'[f], k) = x
      /\ \A j \in 0 .. MAXFILE : j \notin {k, MAXFILE} =>
           SlotAt(blk', dinode'[f], j) = SlotAt(blk, dinode[f], j)
      /\ \A g \in File, j \in 0 .. MAXFILE : g # f =>
           SlotAt(blk', dinode'[g], j) = SlotAt(blk, dinode[g], j)
      /\ \A b \in Block : b # x /\ b # SlotAt(blk', dinode'[f], MAXFILE) => blk'[b] = blk[b]
  BY <1>1, Sizes DEF Appends
<1>3. \/ /\ freeblock' = freeblock /\ SlotAt(blk, dinode[f], k) = x
         /\ SlotAt(blk', dinode'[f], MAXFILE) = SlotAt(blk, dinode[f], MAXFILE)
      \/ /\ freeblock' = freeblock + 1 /\ x = freeblock /\ SlotAt(blk, dinode[f], k) = 0
         /\ SlotAt(blk', dinode'[f], MAXFILE) = SlotAt(blk, dinode[f], MAXFILE)
      \/ /\ freeblock' = freeblock + 2 /\ x = freeblock + 1 /\ SlotAt(blk, dinode[f], k) = 0
         /\ SlotAt(blk, dinode[f], MAXFILE) = 0 /\ SlotAt(blk', dinode'[f], MAXFILE) = freeblock
  BY <1>1 DEF Appends
<1>4. /\ freeblock \in Nat /\ freeblock >= nmeta /\ freeblock > 0
      /\ \A g \in File, j \in 0 .. MAXFILE : Names[g][j] = SlotAt(blk, dinode[g], j)
      /\ \A g \in File, j \in 0 .. MAXFILE : SlotAt(blk, dinode[g], j) # 0 =>
           SlotAt(blk, dinode[g], j) < freeblock
      /\ \A b \in Block : b >= freeblock => blk[b] = Zeroes
  BY MkfsBefore
<1>5. \A g \in File, j \in 0 .. MAXFILE : Names'[g][j] = SlotAt(blk', dinode'[g], j)
  <2>1. \A g, j : Live(g, j)'
    BY DEF Inv, CtlInv, LocksHeld, Live
  <2> QED
    BY <2>1, NamesIs
<1>6. Owned(Names, 0 .. freeblock - 1)
  BY DEF Inv, OwnInv, InUse
<1>7. \A g \in File, j \in 0 .. MAXFILE : g # f \/ j \notin {k, MAXFILE} => Names'[g][j] = Names[g][j]
  BY <1>2, <1>4, <1>5
<1>8. Owned(Names', 0 .. freeblock' - 1)
  <2>1. CASE /\ freeblock' = freeblock /\ SlotAt(blk, dinode[f], k) = x
             /\ SlotAt(blk', dinode'[f], MAXFILE) = SlotAt(blk, dinode[f], MAXFILE)
    <3>1. \A g \in File, j \in 0 .. MAXFILE : Names'[g][j] = Names[g][j]
      BY <1>2, <1>4, <1>5, <1>7, <2>1, Sizes
    <3> QED
      BY <1>6, <2>1, <3>1, OwnedSame
  <2>2. CASE /\ freeblock' = freeblock + 1 /\ x = freeblock /\ SlotAt(blk, dinode[f], k) = 0
             /\ SlotAt(blk', dinode'[f], MAXFILE) = SlotAt(blk, dinode[f], MAXFILE)
    <3>1. \A g \in File, j \in 0 .. MAXFILE : g # f \/ j # k => Names'[g][j] = Names[g][j]
      BY <1>4, <1>5, <1>7, <2>2, Sizes
    <3>2. Names[f][k] = 0 /\ Names'[f][k] = freeblock
      BY <1>2, <1>4, <1>5, <2>2
    <3>3. freeblock # 0 /\ freeblock \notin 0 .. freeblock - 1
      BY <1>4
    <3>4. Owned(Names', (0 .. freeblock - 1) \cup {freeblock})
      BY <1>4, <1>6, <3>1, <3>2, <3>3, OwnedGain
    <3>5. 0 .. freeblock' - 1 = (0 .. freeblock - 1) \cup {freeblock}
      BY <1>4, <2>2
    <3> QED
      BY <3>4, <3>5
  <2>3. CASE /\ freeblock' = freeblock + 2 /\ x = freeblock + 1 /\ SlotAt(blk, dinode[f], k) = 0
             /\ SlotAt(blk, dinode[f], MAXFILE) = 0 /\ SlotAt(blk', dinode'[f], MAXFILE) = freeblock
    <3> DEFINE M == [g \in File |-> [j \in 0 .. MAXFILE |->
                      IF g = f /\ j = MAXFILE THEN freeblock ELSE Names[g][j]]]
               U == 0 .. freeblock - 1
    <3>1. /\ M[f][MAXFILE] = freeblock
          /\ \A g \in File, j \in 0 .. MAXFILE : g # f \/ j # MAXFILE => M[g][j] = Names[g][j]
      BY Sizes
    <3> HIDE DEF M
    <3>2. freeblock # 0 /\ freeblock \notin U /\ Names[f][MAXFILE] = 0 /\ Names[f][k] = 0
      BY <1>4, <2>3, Sizes
    <3>3. Owned(M, U \cup {freeblock})
      <4> HIDE DEF U
      <4>1. Owned(Names, U)
        BY <1>6 DEF U
      <4> QED
        BY <1>4, <3>1, <3>2, <4>1, OwnedGain, Sizes
    <3> DEFINE V == U \cup {freeblock}
    <3>4. x # 0 /\ x \notin V /\ x >= nmeta /\ M[f][k] = 0 /\ Names'[f][k] = x
      BY <1>2, <1>4, <1>5, <2>3, <3>1, <3>2
    <3>5. \A g \in File, j \in 0 .. MAXFILE : g # f \/ j # k => Names'[g][j] = M[g][j]
      BY <1>5, <1>7, <2>3, <3>1, Sizes
    <3>6. 0 .. freeblock' - 1 = V \cup {x}
      BY <1>4, <2>3
    <3> HIDE DEF U, V
    <3>7. Owned(M, V)
      BY <3>3 DEF V
    <3>8. Owned(Names', V \cup {x})
      BY <3>4, <3>5, <3>7, OwnedGain
    <3> QED
      BY <3>6, <3>8
  <2> QED
    BY <1>3, <2>1, <2>2, <2>3
<1>9. Fresh'
  <2>1. freeblock' >= nmeta /\ freeblock' >= freeblock
    BY <1>3, <1>4
  <2>2. ASSUME NEW b \in Block, b >= freeblock' PROVE blk'[b] = Zeroes
    <3>1. b >= freeblock /\ b \in Nat
      BY <1>2, <1>4, <2>1, <2>2 DEF Block
    <3>2. SlotAt(blk', dinode'[f], MAXFILE) < freeblock'
      <4>1. SlotAt(blk, dinode[f], MAXFILE) \in Nat /\ SlotAt(blk, dinode[f], MAXFILE) < freeblock
        BY <1>4, MkfsBefore, Sizes DEF Block
      <4> QED
        BY <1>3, <1>4, <4>1
    <3>3. x < freeblock'
      BY <1>1, <1>3, <1>4, <2>1 DEF Appends
    <3>4. b # x /\ b # SlotAt(blk', dinode'[f], MAXFILE)
      BY <1>2, <2>2, <3>1, <3>2, <3>3
    <3> QED
      BY <1>2, <1>4, <3>1, <3>4
  <2> QED
    BY <2>1, <2>2 DEF Fresh
<1> QED
  BY <1>8, <1>9 DEF OwnInv, InUse

\* The bytes are there, and the rest of a block is clean.
LEMMA AppendKept ==
  ASSUME Inv, ~ made, NEW f \in File, NEW n1 \in Nat, NEW x, Appends(f, n1, x),
         UNCHANGED <<made, bitmap, ip, lock, off, th>>
  PROVE  DataInv'
<1>1. PICK k \in 0 .. MAXFILE - 1, at \in Nat, size \in Nat :
        /\ size = dinode[f].size /\ k = size \div BSIZE /\ at = size % BSIZE
        /\ at < BSIZE /\ size = BSIZE * k + at
  <2>1. dinode[f].size \in Nat
    BY MkfsBefore DEF Inode
  <2>2. dinode[f].size \div BSIZE \in 0 .. MAXFILE - 1
    BY DEF Appends
  <2>3. LET n == dinode[f].size IN
        /\ n % BSIZE \in Nat /\ n % BSIZE < BSIZE /\ n = BSIZE * (n \div BSIZE) + (n % BSIZE)
    BY <2>1, DivMod
  <2> QED
    BY <2>1, <2>2, <2>3, Zenon
<1>2. /\ n1 <= BSIZE - at /\ x \in Block /\ dinode'[f].size = size + n1
      /\ \A g \in File : g # f => dinode'[g] = dinode[g]
      /\ \A c \in Cells : blk'[x][c] = IF c \in at .. at + n1 - 1 THEN Mark(f) ELSE blk[x][c]
      /\ \A b \in Block : b # x /\ b # SlotAt(blk', dinode'[f], MAXFILE) => blk'[b] = blk[b]
      /\ SlotAt(blk', dinode'[f], k) = x /\ x # 0
      /\ \A j \in 0 .. MAXFILE : j \notin {k, MAXFILE} =>
           SlotAt(blk', dinode'[f], j) = SlotAt(blk, dinode[f], j)
      /\ \A g \in File, j \in 0 .. MAXFILE : g # f =>
           SlotAt(blk', dinode'[g], j) = SlotAt(blk, dinode[g], j)
  BY <1>1 DEF Appends
<1>3. \/ /\ SlotAt(blk, dinode[f], k) = x
         /\ SlotAt(blk', dinode'[f], MAXFILE) = SlotAt(blk, dinode[f], MAXFILE)
      \/ /\ x = freeblock /\ SlotAt(blk, dinode[f], k) = 0
         /\ SlotAt(blk', dinode'[f], MAXFILE) = SlotAt(blk, dinode[f], MAXFILE)
      \/ /\ x = freeblock + 1 /\ SlotAt(blk, dinode[f], k) = 0
         /\ SlotAt(blk, dinode[f], MAXFILE) = 0 /\ SlotAt(blk', dinode'[f], MAXFILE) = freeblock
  BY <1>1 DEF Appends
<1>4. k \in 0 .. MAXFILE /\ k # MAXFILE /\ \A j \in 0 .. MAXFILE - 1 : j \in 0 .. MAXFILE /\ j # MAXFILE
  BY Sizes
<1>5. /\ freeblock \in Nat
      /\ \A b \in Block : b >= freeblock => blk[b] = Zeroes
      /\ \A g \in File, j \in 0 .. MAXFILE : SlotAt(blk, dinode[g], j) # 0 =>
           /\ SlotAt(blk, dinode[g], j) \in Block /\ SlotAt(blk, dinode[g], j) < freeblock
           /\ \A h \in File, i \in 0 .. MAXFILE :
                SlotAt(blk, dinode[h], i) = SlotAt(blk, dinode[g], j) => h = g /\ i = j
  BY MkfsBefore
\* The other blocks of bytes are left alone.
<1>6. ASSUME NEW g \in File, NEW j \in 0 .. MAXFILE - 1, g # f \/ j # k
      PROVE  /\ SlotAt(blk', dinode'[g], j) = SlotAt(blk, dinode[g], j)
             /\ SlotAt(blk, dinode[g], j) # 0 =>
                  blk'[SlotAt(blk, dinode[g], j)] = blk[SlotAt(blk, dinode[g], j)]
  <2>1. SlotAt(blk', dinode'[g], j) = SlotAt(blk, dinode[g], j)
    BY <1>2, <1>4, <1>6
  <2>2. ASSUME SlotAt(blk, dinode[g], j) # 0
        PROVE  blk'[SlotAt(blk, dinode[g], j)] = blk[SlotAt(blk, dinode[g], j)]
    <3> DEFINE a == SlotAt(blk, dinode[g], j)
    <3>1. /\ a \in Block /\ a < freeblock /\ a \in Nat
          /\ \A h \in File, i \in 0 .. MAXFILE : SlotAt(blk, dinode[h], i) = a => h = g /\ i = j
      BY <1>4, <1>5, <2>2 DEF Block
    <3>2. a # x
      BY <1>3, <1>4, <1>5, <1>6, <3>1
    <3>3. a # SlotAt(blk', dinode'[f], MAXFILE)
      BY <1>3, <1>4, <1>5, <3>1, Sizes
    <3> HIDE DEF a
    <3> QED
      BY <1>2, <3>1, <3>2, <3>3 DEF a
  <2> QED
    BY <2>1, <2>2
<1>7. \A g \in File : Current(g) = dinode[g] /\ Current(g)' = dinode'[g]
  BY DEF Current
<1>8. \A g \in File : ~ Truncating(g) /\ \A p \in Proc : th'[p].pc = "user"
  BY DEF Inv, CtlInv, LocksHeld, Truncating
<1>9. \A g \in File : /\ dinode[g].size \in Nat /\ dinode[g].size <= MAXFILE * BSIZE
                      /\ \A i \in 0 .. dinode[g].size - 1 : WrittenAt(blk, dinode[g], g, i)
  <2>1. \A g \in File : dinode[g].size \in Nat
    BY MkfsBefore DEF Inode
  <2>2. \A g \in File : Current(g).size <= MAXFILE * BSIZE
    BY DEF Inv, DataInv
  <2>3. \A g \in File : ~ Truncating(g) => \A i \in 0 .. Current(g).size - 1 : WrittenAt(blk, Current(g), g, i)
    BY DEF Inv, DataInv
  <2> QED
    BY <1>7, <1>8, <2>1, <2>2, <2>3
<1>10. size + n1 <= MAXFILE * BSIZE /\ MAXFILE * BSIZE \in Nat
  <2>1. BSIZE * k + BSIZE <= BSIZE * MAXFILE
    <3>1. k \in Int /\ MAXFILE \in Int /\ k < MAXFILE
      BY Sizes
    <3> HIDE DEF MAXFILE
    <3> QED
      BY <3>1, MulStep
  <2>2. size + n1 <= BSIZE * k + BSIZE
    BY <1>1, <1>2
  <2>3. MAXFILE * BSIZE = BSIZE * MAXFILE /\ BSIZE * MAXFILE \in Nat /\ BSIZE * k \in Nat
    BY Sizes
  <2> HIDE DEF MAXFILE
  <2> QED
    BY <1>1, <2>1, <2>2, <2>3
<1>11. ASSUME NEW g \in File, NEW i \in 0 .. dinode[g].size - 1
       PROVE  WrittenAt(blk', dinode'[g], g, i)
  <2>1. WrittenAt(blk, dinode[g], g, i) /\ i \in Nat /\ i < MAXFILE * BSIZE
    BY <1>9, <1>10, <1>11
  <2>2. PICK j \in 0 .. MAXFILE - 1 : j = i \div BSIZE
    BY <2>1, DivBound, Sizes
  <2>3. SlotAt(blk, dinode[g], j) # 0 /\ blk[SlotAt(blk, dinode[g], j)][i % BSIZE] \in Good(g)
    BY <2>1, <2>2 DEF WrittenAt
  <2>4. CASE g # f \/ j # k
    BY <1>6, <2>2, <2>3, <2>4 DEF WrittenAt
  <2>5. CASE g = f /\ j = k
    <3>1. SlotAt(blk, dinode[f], k) = x
      BY <1>3, <2>3, <2>5
    <3>2. i % BSIZE \in Cells /\ Mark(f) \in Good(f)
      BY <2>1, DivMod DEF Cells, Good
    <3>3. blk'[x][i % BSIZE] \in Good(f)
      BY <1>2, <2>3, <2>5, <3>1, <3>2
    <3> QED
      BY <1>2, <2>2, <2>5, <3>3 DEF WrittenAt
  <2> QED
    BY <2>4, <2>5
<1>12. ASSUME NEW i \in size .. size + n1 - 1
       PROVE  WrittenAt(blk', dinode'[f], f, i)
  <2> DEFINE j == i - size
  <2>1. j \in Nat /\ j < n1 /\ i = size + j
    BY <1>12
  <2> HIDE DEF j
  <2>2. at + j < BSIZE
    BY <1>1, <1>2, <2>1
  <2>3. i \div BSIZE = k /\ i % BSIZE = at + j
    BY <1>1, <2>1, <2>2, SameBlock
  <2>4. blk'[x][i % BSIZE] = Mark(f)
    <3>1. at + j \in Cells /\ at + j \in at .. at + n1 - 1
      <4>1. at + j \in Nat /\ at + j <= BSIZE - 1 /\ at + j <= at + n1 - 1
        BY <2>1, <2>2
      <4> QED
        BY <1>1, <2>1, <4>1 DEF Cells
    <3> QED
      BY <1>2, <2>3, <3>1
  <2> QED
    BY <1>2, <2>3, <2>4 DEF WrittenAt, Good
<1>13. ASSUME NEW g \in File, NEW i \in 0 .. dinode'[g].size - 1
       PROVE  WrittenAt(blk', dinode'[g], g, i)
  <2>1. CASE i < dinode[g].size
    <3>1. i \in 0 .. dinode[g].size - 1
      BY <1>2, <1>9, <2>1
    <3> QED
      BY <1>11, <3>1
  <2>2. CASE ~ (i < dinode[g].size)
    <3>1. g = f
      BY <1>2, <1>9, <1>13, <2>2
    <3>2. i \in size .. size + n1 - 1
      <4>1. dinode'[g].size = size + n1 /\ dinode[g].size = size
        BY <1>1, <1>2, <3>1
      <4> QED
        BY <1>13, <2>2, <4>1
    <3> QED
      BY <1>12, <3>1, <3>2
  <2> QED
    BY <2>1, <2>2
<1>14. ASSUME NEW g \in File, NEW j \in 0 .. MAXFILE - 1, SlotAt(blk', dinode'[g], j) # 0, NEW c \in Cells
       PROVE  blk'[SlotAt(blk', dinode'[g], j)][c] \in {0, Mark(g)}
  <2>0. \A h \in File, i \in 0 .. MAXFILE - 1 : SlotAt(blk, dinode[h], i) # 0 =>
          blk[SlotAt(blk, dinode[h], i)][c] \in {0, Mark(h)}
    BY DEF Inv, DataInv
  <2>1. CASE g # f \/ j # k
    BY <1>6, <1>14, <2>0, <2>1
  <2>2. CASE g = f /\ j = k
    <3>1. blk[x][c] \in {0, Mark(f)}
      <4>1. CASE SlotAt(blk, dinode[f], k) = x
        BY <1>2, <2>0, <4>1
      <4>2. CASE x >= freeblock
        BY <1>2, <1>5, <4>2 DEF Zeroes
      <4> QED
        BY <1>3, <1>5, <4>1, <4>2
    <3> QED
      BY <1>2, <2>2, <3>1
  <2> QED
    BY <2>1, <2>2
<1>15. \A g \in File : dinode'[g].size <= MAXFILE * BSIZE
  BY <1>2, <1>9, <1>10
<1>16. \A p \in Proc : th'[p].pc \notin {"write", "finish"}
  <2>1. \A p \in Proc : th'[p].pc = "user"
    BY DEF Inv, CtlInv, LocksHeld
  <2> QED
    BY <2>1
<1> QED
  BY <1>7, <1>13, <1>14, <1>15, <1>16 DEF DataInv

LEMMA AppendStep ==
  ASSUME Inv, ~ made, NEW f \in File, NEW n1 \in Nat, iappend(f, n1)
  PROVE  Inv'
<1>1. \E x : Appends(f, n1, x)
  BY AppendDirect, AppendIndirect
<1>2. PICK x : Appends(f, n1, x)
  BY <1>1
<1>3. UNCHANGED <<made, bitmap, ip, lock, off, th>>
  BY DEF iappend
<1>4. /\ freeblock' \in 0 .. FSSIZE /\ blk' \in [Block -> [Cells -> Cell]]
      /\ dinode' \in [File -> Inode]
  BY <1>2 DEF Appends
<1>5. CtlInv' /\ LogInv'
  BY <1>3, <1>4, MkfsCtl
<1>6. OwnInv' /\ DataInv'
  BY <1>2, <1>3, AppendOwn, AppendKept
<1> QED
  BY <1>5, <1>6 DEF Inv

\* The size of the root directory is rounded up; its last block is there.
LEMMA MkfsEndStep ==
  ASSUME Inv, MkfsEnd
  PROVE  Inv'
<1> DEFINE n == 2 + NHost
           q == n \div BSIZE
           c == n % BSIZE
<1>1. /\ ~ made /\ made' /\ dinode[Root].size = n /\ Root \in File /\ n \in Nat
      /\ dinode' = [dinode EXCEPT ![Root].size = (@ \div BSIZE + 1) * BSIZE] /\ ip' = dinode'
      /\ bitmap' = 0 .. freeblock - 1 /\ UNCHANGED <<freeblock, blk, lock, off, th>>
  BY DEF MkfsEnd, Root, File
<1>2. q \in Nat /\ c \in Nat /\ c < BSIZE /\ c # 0 /\ n = BSIZE * q + c
  BY <1>1, DivMod, RootAssumption
<1> HIDE DEF n, q, c
<1>3. n \in Nat /\ n >= 1 /\ BSIZE * q \in Nat /\ n >= BSIZE * q /\ dinode[Root].size = n /\ Root \in File
  <2>1. BSIZE * q \in Nat
    BY <1>2
  <2>2. n >= 1 /\ n >= BSIZE * q
    BY <1>2, <2>1
  <2> QED
    BY <1>1, <2>1, <2>2
<1>4. PICK pad \in Nat : pad = (q + 1) * BSIZE
  BY <1>2
<1>5. /\ dinode \in [File -> Inode] /\ dinode[Root] \in Inode /\ freeblock \in Nat /\ freeblock <= FSSIZE
      /\ freeblock >= nmeta
  BY <1>1, MkfsBefore
<1>6. /\ dinode' \in [File -> Inode] /\ dinode'[Root] = [dinode[Root] EXCEPT !.size = pad]
      /\ \A g \in File \ {Root} : dinode'[g] = dinode[g]
  BY <1>1, <1>4, <1>5 DEF q, Inode
<1>7. /\ dinode'[Root].size = pad /\ \A g \in File : dinode'[g].addrs = dinode[g].addrs
  BY <1>5, <1>6 DEF Inode
<1>8. \A p \in Proc : th[p].pc = "user" /\ th[p].logged = {}
  BY <1>1 DEF Inv, CtlInv, LocksHeld, CallOk
<1>9. \A f \in File : lock[f] = NoProc
  <2> SUFFICES ASSUME NEW f \in File, lock[f] # NoProc PROVE FALSE
    OBVIOUS
  <2>1. lock[f] \in Proc /\ th[lock[f]].pc \in Inside
    BY DEF Inv, CtlInv, TypeOK, LocksHeld
  <2> QED
    BY <1>8, <2>1 DEF Inside
<1>10. CtlInv'
  <2>1. bitmap' \subseteq Block
    <3>1. \A b \in 0 .. freeblock - 1 : b \in Nat /\ b < FSSIZE
      BY <1>5
    <3> QED
      BY <1>1, <3>1, BlockBelow
  <2>2. TypeOK'
    BY <1>1, <1>6, <2>1 DEF Inv, CtlInv, TypeOK
  <2>3. LocksHeld' /\ Synced'
    BY <1>1, <1>8, <1>9 DEF LocksHeld, Synced, Inside
  <2>4. \A p \in Proc : CallOk(th'[p], off'[p], ip'[th'[p].f])
    BY <1>1, <1>8 DEF CallOk
  <2> QED
    BY <2>2, <2>3, <2>4 DEF CtlInv
<1>11. LogInv'
  BY <1>1, <1>8 DEF LogInv, LogOk
<1>12. \A g \in File : \A j : SlotAt(blk', ip'[g], j) = SlotAt(blk, dinode[g], j)
  <2>1. blk' = blk /\ \A g \in File : ip'[g].addrs = dinode[g].addrs
    BY <1>1, <1>7
  <2> QED
    BY <2>1 DEF SlotAt
<1>13. OwnInv'
  <2>1. \A g, j : Live(g, j)'
    BY <1>1, <1>8 DEF Live
  <2>2. \A g \in File, j \in 0 .. MAXFILE : Names'[g][j] = Names[g][j]
    <3>1. \A g \in File, j \in 0 .. MAXFILE : Names[g][j] = SlotAt(blk, dinode[g], j)
      BY <1>1, MkfsBefore
    <3>2. made' /\ \A g \in File, j \in 0 .. MAXFILE : Names'[g][j] = SlotAt(blk', ip'[g], j)
      <4>1. made'
        BY <1>1
      <4> QED
        BY <2>1, <4>1, NamesIs
    <3> QED
      BY <1>12, <3>1, <3>2
  <2>3. InUse' = InUse /\ Owned(Names, InUse)
    BY <1>1 DEF InUse, Inv, OwnInv
  <2>4. Owned(Names', InUse')
    BY <2>2, <2>3, OwnedSame
  <2>5. 0 .. nmeta - 1 \subseteq bitmap'
    <3>1. \A b \in 0 .. nmeta - 1 : b \in 0 .. freeblock - 1
      BY <1>5
    <3> QED
      BY <1>1, <3>1
  <2> QED
    BY <1>1, <1>5, <2>4, <2>5 DEF OwnInv, Fresh
<1>14. \A g \in File : Current(g) = dinode[g] /\ Current(g)' = ip'[g] /\ ~ Truncating(g)
  BY <1>1, <1>8 DEF Current, Truncating
<1>15. /\ \A g \in File : dinode[g].size <= MAXFILE * BSIZE /\ dinode[g].size \in Nat
       /\ \A g \in File : \A i \in 0 .. dinode[g].size - 1 : WrittenAt(blk, dinode[g], g, i)
       /\ \A k \in 0 .. MAXFILE - 1 : SlotAt(blk, dinode[Root], k) # 0 =>
            \A d \in Cells : blk[SlotAt(blk, dinode[Root], k)][d] \in {0, Mark(Root)}
  <2>1. \A g \in File : Current(g).size <= MAXFILE * BSIZE
    BY DEF Inv, DataInv
  <2>2. \A g \in File : ~ Truncating(g) => \A i \in 0 .. Current(g).size - 1 : WrittenAt(blk, Current(g), g, i)
    BY DEF Inv, DataInv
  <2>3. \A k \in 0 .. MAXFILE - 1 : SlotAt(blk, dinode[Root], k) # 0 =>
          \A d \in Cells : blk[SlotAt(blk, dinode[Root], k)][d] \in {0, Mark(Root)}
    BY <1>1 DEF Inv, DataInv
  <2>4. \A g \in File : dinode[g].size \in Nat
    BY <1>5 DEF Inode
  <2> QED
    BY <1>14, <2>1, <2>2, <2>3, <2>4
\* The last byte of the directory lies in block q.
<1>16. q \in 0 .. MAXFILE - 1 /\ pad <= MAXFILE * BSIZE
  <2>1. n - 1 \in Nat /\ n - 1 < MAXFILE * BSIZE
    <3>1. n <= MAXFILE * BSIZE /\ MAXFILE * BSIZE \in Nat
      BY <1>15, <1>3, Sizes
    <3> QED
      BY <1>3, <3>1
  <2>2. c - 1 \in Nat /\ c - 1 < BSIZE /\ n - 1 = BSIZE * q + (c - 1)
    BY <1>2
  <2>3. (n - 1) \div BSIZE = q
    BY <1>2, <2>2, DivUnique
  <2>4. q \in 0 .. MAXFILE - 1
    BY <2>1, <2>3, DivBound, Sizes
  <2>5. BSIZE * q + BSIZE <= BSIZE * MAXFILE
    <3>1. q \in Int /\ MAXFILE \in Int /\ q < MAXFILE
      BY <2>4, Sizes
    <3> HIDE DEF MAXFILE
    <3> QED
      BY <3>1, MulStep
  <2>6. BSIZE * q + BSIZE = (q + 1) * BSIZE
    BY <1>2
  <2> HIDE DEF MAXFILE
  <2>7. BSIZE * MAXFILE = MAXFILE * BSIZE
    BY Sizes
  <2> QED
    BY <1>4, <2>4, <2>5, <2>6, <2>7
<1>17. ASSUME NEW i \in 0 .. pad - 1 PROVE WrittenAt(blk', ip'[Root], Root, i)
  <2>1. CASE i < n
    <3>1. i \in 0 .. dinode[Root].size - 1
      BY <1>1, <2>1
    <3>2. WrittenAt(blk, dinode[Root], Root, i)
      BY <1>1, <1>15, <3>1
    <3> QED
      BY <1>1, <1>12, <3>2 DEF WrittenAt
  <2>2. CASE ~ (i < n)
    <3>1. PICK r \in Nat : i = BSIZE * q + r /\ r < BSIZE
      <4>1. pad = BSIZE * q + BSIZE
        BY <1>2, <1>4
      <4>2. i >= BSIZE * q
        BY <1>3, <2>2
      <4>3. i - BSIZE * q \in Nat /\ i - BSIZE * q < BSIZE
        BY <1>3, <4>1, <4>2
      <4>4. i = BSIZE * q + (i - BSIZE * q)
        BY <1>3
      <4> QED
        BY <4>3, <4>4
    <3>2. i \div BSIZE = q /\ i % BSIZE = r /\ r \in Cells
      BY <1>2, <3>1, DivUnique DEF Cells
    <3>3. SlotAt(blk, dinode[Root], q) # 0
      <4>1. n - 1 \in 0 .. dinode[Root].size - 1
        BY <1>3
      <4>2. c - 1 \in Nat /\ c - 1 < BSIZE /\ n - 1 = BSIZE * q + (c - 1)
        BY <1>2
      <4>3. (n - 1) \div BSIZE = q
        BY <1>2, <4>2, DivUnique
      <4>4. WrittenAt(blk, dinode[Root], Root, n - 1)
        BY <1>1, <1>15, <4>1
      <4> QED
        BY <4>3, <4>4 DEF WrittenAt
    <3>4. blk[SlotAt(blk, dinode[Root], q)][r] \in {0, Mark(Root)}
      BY <1>15, <1>16, <3>2, <3>3
    <3> QED
      BY <1>1, <1>12, <3>2, <3>3, <3>4 DEF WrittenAt, Good
  <2> QED
    BY <2>1, <2>2
<1>18. ASSUME NEW g \in File, NEW i \in 0 .. ip'[g].size - 1 PROVE WrittenAt(blk', ip'[g], g, i)
  <2>1. CASE g = Root
    BY <1>1, <1>7, <1>17, <1>18, <2>1
  <2>2. CASE g # Root
    <3>1. WrittenAt(blk, dinode[g], g, i)
      BY <1>1, <1>6, <1>15, <1>18, <2>2
    <3> QED
      BY <1>1, <1>12, <3>1 DEF WrittenAt
  <2> QED
    BY <2>1, <2>2
<1>19. \A g \in File : ip'[g].size <= MAXFILE * BSIZE
  BY <1>1, <1>6, <1>7, <1>15, <1>16
<1>20. \A p \in Proc : th'[p].pc \notin {"write", "finish"}
  BY <1>1, <1>8
<1>21. DataInv'
  BY <1>1, <1>14, <1>18, <1>19, <1>20 DEF DataInv
<1> QED
  BY <1>10, <1>11, <1>13, <1>21 DEF Inv

-----------------------------------------------------------------------------
(* The invariant.                                                          *)

LEMMA InitInv == Init => Inv
<1> SUFFICES ASSUME Init PROVE Inv
  OBVIOUS
<1>1. 0 \in Block /\ 0 \in Cell /\ NFiles \in File
  BY DEF Block, Cell, File
<1>2. /\ ~ made /\ freeblock = nmeta /\ bitmap = {} /\ blk = [b \in Block |-> Zeroes]
      /\ ip \in [File -> Inode] /\ dinode = ip
      /\ \A f \in File : ip[f].size = 0 /\ \A k \in 0 .. NDIRECT : ip[f].addrs[k] = 0
  BY <1>1 DEF Init, Inode
<1>3. Zeroes \in [Cells -> Cell]
  BY <1>1 DEF Zeroes
<1>4. \A p \in Proc : th[p] = Idle
  BY DEF Init
<1>5. Idle.pc = "user" /\ Idle.logged = {} /\ Idle \in Thread
  BY <1>1, IdleType DEF Idle
<1>6. CtlInv
  <2>1. TypeOK
    <3>1. blk \in [Block -> [Cells -> Cell]]
      BY <1>2, <1>3
    <3>2. th \in [Proc -> Thread]
      BY <1>5 DEF Init
    <3>3. lock \in [File -> Proc \cup {NoProc}] /\ off \in [Proc -> Nat] /\ freeblock \in 0 .. FSSIZE
      BY DEF Init
    <3>4. made \in BOOLEAN /\ bitmap \subseteq Block /\ dinode \in [File -> Inode]
      BY <1>2 DEF Init
    <3> QED
      BY <1>2, <3>1, <3>2, <3>3, <3>4 DEF TypeOK, Thread, LogIds
  <2>2. LocksHeld
    BY <1>4, <1>5 DEF Init, LocksHeld, Inside
  <2>3. \A p \in Proc : CallOk(th[p], off[p], ip[th[p].f])
    BY <1>4, <1>5 DEF CallOk
  <2> QED
    BY <1>2, <2>1, <2>2, <2>3 DEF CtlInv, Synced
<1>7. \A f \in File, k \in 0 .. MAXFILE : SlotAt(blk, dinode[f], k) = 0
  BY <1>2, Sizes DEF SlotAt
<1>8. OwnInv
  <2>1. \A f \in File, k \in 0 .. MAXFILE : Names[f][k] = 0
    BY <1>2, <1>7, NamesIs DEF Current
  <2>2. Owned(Names, InUse)
    BY <1>2, <2>1 DEF Owned, InUse
  <2> QED
    BY <1>2, <2>2 DEF OwnInv, Fresh
<1>9. DataInv
  <2>1. \A f \in File : Current(f).size = 0
    BY <1>2 DEF Current
  <2>2. 0 <= MAXFILE * BSIZE
    BY Sizes
  <2>3. \A f \in File, k \in 0 .. MAXFILE - 1 : SlotAt(blk, dinode[f], k) = 0
    BY <1>7, Sizes
  <2>4. \A p \in Proc : th[p].pc \notin {"write", "finish"}
    BY <1>4, <1>5
  <2> QED
    BY <2>1, <2>2, <2>3, <2>4 DEF DataInv
<1>10. LogInv
  BY <1>4, <1>5 DEF LogInv, LogOk
<1> QED
  BY <1>6, <1>8, <1>9, <1>10 DEF Inv

LEMMA StutterInv == ASSUME Inv, UNCHANGED vars PROVE Inv'
<1>1. CtlInv'
  BY DEF Inv, vars, CtlInv, TypeOK, LocksHeld, Synced
<1>2. OwnInv'
  <2>1. \A f \in File, k \in 0 .. MAXFILE : Names'[f][k] = Names[f][k]
    BY NamesIs DEF vars, Current, Live
  <2>2. InUse' = InUse /\ Owned(Names, InUse)
    BY DEF vars, InUse, Inv, OwnInv
  <2>3. Owned(Names', InUse')
    BY <2>1, <2>2, OwnedSame
  <2> QED
    BY <2>3 DEF Inv, OwnInv, Fresh, vars
<1>3. DataInv'
  BY DEF Inv, vars, DataInv, Current, Truncating, Pos
<1>4. LogInv'
  BY DEF Inv, vars, LogInv
<1> QED
  BY <1>1, <1>2, <1>3, <1>4 DEF Inv

LEMMA NextInv == Inv /\ [Next]_vars => Inv'
<1> SUFFICES ASSUME Inv, [Next]_vars PROVE Inv'
  OBVIOUS
<1>1. CASE MkfsRoot
  <2>1. Root \in File /\ 1 \in Nat
    BY DEF Root, File
  <2> QED
    BY <1>1, <2>1, AppendStep DEF MkfsRoot
<1>2. CASE MkfsEnd
  BY <1>2, MkfsEndStep
<1>3. ASSUME NEW f \in File, MkfsFile(f) PROVE Inv'
  <2>1. ~ made /\ dinode[f].size \in Nat
    BY <1>3, MkfsBefore DEF MkfsFile, Inode
  <2>2. PICK n1 \in 1 .. HostMax - dinode[f].size : iappend(f, n1)
    BY <1>3 DEF MkfsFile
  <2>3. n1 \in Nat
    BY <2>1, <2>2
  <2> QED
    BY <2>1, <2>2, <2>3, AppendStep
<1>4. ASSUME NEW p \in Proc, Step(p) PROVE Inv'
  <2>1. CASE Bmap(p)
    BY <2>1, BmapFull, BmapAlloc
  <2>2. CASE WriteChunk(p)
    BY <2>2, WriteChunkStep
  <2>3. CASE Copy(p)
    BY <2>3, CopyStep
  <2>4. CASE WriteEnd(p)
    BY <2>4, WriteEndStep
  <2>5. CASE Bfree(p)
    BY <2>5, BfreeStep
  <2>6. CASE TruncEnd(p)
    BY <2>6, TruncEndStep
  <2> QED
    BY <1>4, <2>1, <2>2, <2>3, <2>4, <2>5, <2>6 DEF Step
<1>5. ASSUME NEW p \in Proc, NEW n \in Counts, Write(p, n) \/ Read(p, n) PROVE Inv'
  BY <1>5, WriteStep, ReadStep
<1>6. ASSUME NEW p \in Proc, NEW f \in File, Open(p, f) \/ OpenTrunc(p, f) PROVE Inv'
  BY <1>6, OpenStep, OpenTruncStep
<1>7. CASE UNCHANGED vars
  BY <1>7, StutterInv
<1> QED
  BY <1>1, <1>2, <1>3, <1>4, <1>5, <1>6, <1>7 DEF Next

LEMMA Invariance == Spec => []Inv
BY InitInv, NextInv, PTL DEF Spec

-----------------------------------------------------------------------------
(* What follows from it.                                                   *)

LEMMA OwnersInv == Inv => BlocksOwned
<1> SUFFICES ASSUME Inv PROVE BlocksOwned
  OBVIOUS
<1>1. Owned(Names, InUse)
  BY DEF Inv, OwnInv
<1>2. ASSUME NEW b \in nmeta .. FSSIZE - 1
      PROVE  Cardinality(Owners(b)) = IF (made /\ b \in bitmap) \/ (~ made /\ b < freeblock) THEN 1 ELSE 0
  <2>1. b \in Nat /\ b # 0 /\ b >= nmeta
    BY <1>2
  <2>2. b \in InUse <=> (made /\ b \in bitmap) \/ (~ made /\ b < freeblock)
    <3>1. freeblock \in Nat
      BY DEF Inv, CtlInv, TypeOK
    <3> QED
      BY <2>1, <3>1 DEF InUse
  <2>3. \A f \in File, k \in 0 .. MAXFILE : <<f, k>> \in Owners(b) <=> Names[f][k] = b
    <3> SUFFICES ASSUME NEW f \in File, NEW k \in 0 .. MAXFILE
                 PROVE  <<f, k>> \in Owners(b) <=> Names[f][k] = b
      OBVIOUS
    <3>1. <<f, k>> \in Owners(b) <=> Slot(Current(f), k) = b /\ Live(f, k)
      BY DEF Owners, Live
    <3>2. Names[f][k] = IF Live(f, k) THEN SlotAt(blk, Current(f), k) ELSE 0
      BY NamesIs
    <3> QED
      BY <2>1, <3>1, <3>2, SlotIs
  <2>4. \A x \in Owners(b) : \E f \in File, k \in 0 .. MAXFILE : x = <<f, k>> /\ Names[f][k] = b
    <3> SUFFICES ASSUME NEW x \in Owners(b)
                 PROVE  \E f \in File, k \in 0 .. MAXFILE : x = <<f, k>> /\ Names[f][k] = b
      OBVIOUS
    <3>1. x \in File \X (0 .. MAXFILE)
      BY DEF Owners
    <3>2. PICK f \in File, k \in 0 .. MAXFILE : x = <<f, k>>
      BY <3>1
    <3> QED
      BY <2>3, <3>2
  <2>5. CASE b \in InUse
    <3>1. PICK f \in File, k \in 0 .. MAXFILE : Names[f][k] = b
      BY <1>1, <2>1, <2>5 DEF Owned
    <3>2. \A g \in File, j \in 0 .. MAXFILE : Names[g][j] = b => g = f /\ j = k
      BY <1>1, <2>1, <3>1 DEF Owned
    <3>3. Owners(b) = {<<f, k>>}
      BY <2>3, <2>4, <3>1, <3>2
    <3> QED
      BY <2>2, <2>5, <3>3, FS_Singleton
  <2>6. CASE b \notin InUse
    <3>1. Owners(b) = {}
      BY <1>1, <2>1, <2>4, <2>6 DEF Owned
    <3> QED
      BY <2>2, <2>6, <3>1, FS_EmptySet
  <2> QED
    BY <2>5, <2>6
<1> QED
  BY <1>2 DEF BlocksOwned, Inv, OwnInv, CtlInv, Synced

LEMMA ContentInv == Inv => ContentKept
BY SlotIs DEF Inv, DataInv, ContentKept, WrittenAt, Good

LEMMA ImageCard ==
  ASSUME NEW S, IsFiniteSet(S), NEW fn, fn \in [S -> {fn[s] : s \in S}]
  PROVE  /\ IsFiniteSet({fn[s] : s \in S}) /\ Cardinality({fn[s] : s \in S}) \in Nat
         /\ Cardinality({fn[s] : s \in S}) <= Cardinality(S)
<1> DEFINE T == {fn[s] : s \in S}
<1>1. fn \in Surjection(S, T)
  BY DEF Surjection
<1> HIDE DEF T
<1>2. IsFiniteSet(T) /\ Cardinality(T) <= Cardinality(S)
  BY <1>1, FS_Surjection
<1>3. Cardinality(T) \in Nat
  BY <1>2, FS_CardinalityType
<1> QED
  BY <1>2, <1>3 DEF T

LEMMA UnionCard ==
  ASSUME NEW S, NEW T, IsFiniteSet(S), IsFiniteSet(T)
  PROVE  IsFiniteSet(S \cup T) /\ Cardinality(S \cup T) <= Cardinality(S) + Cardinality(T)
<1>1. Cardinality(S) \in Nat /\ Cardinality(T) \in Nat
  BY FS_CardinalityType
<1>2. IsFiniteSet(S \cap T) /\ Cardinality(S \cap T) \in Nat
  BY FS_Intersection, FS_CardinalityType
<1>3. IsFiniteSet(S \cup T) /\ Cardinality(S \cup T) = Cardinality(S) + Cardinality(T) - Cardinality(S \cap T)
  BY FS_Union
<1> QED
  BY <1>1, <1>2, <1>3

\* An interval and one more.
LEMMA RangeCard ==
  ASSUME NEW a \in Nat, NEW b \in Nat, NEW n \in Nat, b <= a + n - 1
  PROVE  IsFiniteSet((a .. b) \cup {MAXFILE}) /\ Cardinality((a .. b) \cup {MAXFILE}) <= n + 1
<1>1. IsFiniteSet(a .. b) /\ Cardinality(a .. b) = IF a > b THEN 0 ELSE b - a + 1
  BY FS_Interval
<1>2. Cardinality(a .. b) \in Nat /\ Cardinality(a .. b) <= n
  BY <1>1
<1>3. IsFiniteSet({MAXFILE}) /\ Cardinality({MAXFILE}) = 1
  BY FS_Singleton
<1> DEFINE R == a .. b
<1> HIDE DEF R
<1>4. IsFiniteSet(R \cup {MAXFILE}) /\ Cardinality(R \cup {MAXFILE}) <= Cardinality(R) + Cardinality({MAXFILE})
  BY <1>1, <1>3, UnionCard DEF R
<1>5. Cardinality(R \cup {MAXFILE}) \in Nat
  BY <1>4, FS_CardinalityType
<1> QED
  BY <1>2, <1>3, <1>4, <1>5 DEF R

\* The blocks of a chunk: filewrite() has counted them.
LEMMA ChunkCard ==
  ASSUME NEW o \in Nat, NEW n1 \in Nat, n1 > 0, n1 <= MaxChunk
  PROVE  /\ IsFiniteSet(Touched(o, n1)) /\ IsFiniteSet(Filled(o, n1))
         /\ Cardinality(Touched(o, n1)) + Cardinality(Filled(o, n1)) + 1 <= MAXOPBLOCKS
<1> DEFINE K == (MAXOPBLOCKS - 1 - 1 - 2) \div 2
           q == o \div BSIZE
           e == o % BSIZE
           l == (o + n1 - 1) \div BSIZE
<1>1. K \in Nat /\ 2 * K + 4 <= MAXOPBLOCKS
  OBVIOUS
<1>2. q \in Nat /\ e \in Nat /\ e < BSIZE /\ o = BSIZE * q + e
  BY DivMod
<1>3. MaxChunk = K * BSIZE
  BY DEF MaxChunk
<1> HIDE DEF K, q, e
<1>4. o + n1 - 1 \in Nat /\ l \in Nat
  <2>1. o + n1 - 1 \in Nat
    OBVIOUS
  <2> QED
    BY <2>1, DivMod
<1>5. ASSUME NEW n \in Nat, BSIZE * q + BSIZE * n >= o + n1 PROVE l <= q + n - 1
  <2>1. BSIZE * q + BSIZE * n = (q + n) * BSIZE
    BY <1>2
  <2>2. o + n1 - 1 < (q + n) * BSIZE
    <3>1. BSIZE * q + BSIZE * n \in Nat
      BY <1>2
    <3> QED
      BY <1>5, <2>1, <3>1
  <2>3. q + n \in Nat
    BY <1>2
  <2> HIDE DEF l
  <2>4. l \in 0 .. (q + n) - 1
    BY <1>4, <2>2, <2>3, DivBound DEF l
  <2> QED
    BY <1>2, <2>4
<1>6. BSIZE * K \in Nat /\ BSIZE * K = K * BSIZE /\ BSIZE * (K + 1) = K * BSIZE + BSIZE /\ BSIZE * q \in Nat
  BY <1>1, <1>2
<1> HIDE DEF l
<1>7. CASE e = 0
  <2>1. l <= q + K - 1
    BY <1>1, <1>2, <1>3, <1>5, <1>6, <1>7
  <2>2. Touched(o, n1) = (q .. l) \cup {MAXFILE} /\ Filled(o, n1) = (q .. l) \cup {MAXFILE}
    BY <1>7 DEF Touched, Filled, q, e, l
  <2>3. IsFiniteSet((q .. l) \cup {MAXFILE}) /\ Cardinality((q .. l) \cup {MAXFILE}) <= K + 1
    BY <1>1, <1>2, <1>4, <2>1, RangeCard
  <2>4. Cardinality((q .. l) \cup {MAXFILE}) \in Nat
    BY <2>3, FS_CardinalityType
  <2> QED
    BY <1>1, <2>2, <2>3, <2>4
<1>8. CASE e # 0
  <2>0. K + 1 \in Nat /\ BSIZE * q + BSIZE * (K + 1) >= o + n1
    BY <1>1, <1>2, <1>3, <1>6
  <2>1. l <= q + (K + 1) - 1
    BY <1>5, <2>0
  <2>2. Touched(o, n1) = (q .. l) \cup {MAXFILE} /\ Filled(o, n1) = (q + 1 .. l) \cup {MAXFILE}
    BY <1>8 DEF Touched, Filled, q, e, l
  <2>3. IsFiniteSet((q .. l) \cup {MAXFILE}) /\ Cardinality((q .. l) \cup {MAXFILE}) <= (K + 1) + 1
    BY <1>2, <1>4, <2>0, <2>1, RangeCard
  <2>4. IsFiniteSet((q + 1 .. l) \cup {MAXFILE}) /\ Cardinality((q + 1 .. l) \cup {MAXFILE}) <= K + 1
    <3>1. q + 1 \in Nat /\ l <= (q + 1) + K - 1
      BY <1>1, <1>2, <1>4, <2>1
    <3> QED
      BY <1>1, <1>4, <3>1, RangeCard
  <2>5. Cardinality((q .. l) \cup {MAXFILE}) \in Nat /\ Cardinality((q + 1 .. l) \cup {MAXFILE}) \in Nat
    BY <2>3, <2>4, FS_CardinalityType
  <2> QED
    BY <1>1, <2>2, <2>3, <2>4, <2>5
<1> QED
  BY <1>7, <1>8

\* The blocks of the bit map.
LEMMA BitBound ==
  ASSUME NEW b \in Nat, NEW n \in Nat, b < BPB * n
  PROVE  b \div BPB \in 0 .. n - 1
<1> DEFINE d == b \div BPB
<1>1. d \in Nat /\ BPB * d <= b
  OBVIOUS
<1> HIDE DEF d
<1>2. ~ (n <= d)
  <2>1. SUFFICES ASSUME n <= d PROVE FALSE
    OBVIOUS
  <2>2. BPB * n <= BPB * d
    BY <1>1, <2>1
  <2>3. BPB * n \in Nat /\ BPB * d \in Nat
    BY <1>1
  <2> QED
    BY <1>1, <2>2, <2>3
<1> QED
  BY <1>1, <1>2 DEF d

LEMMA WithInode ==
  ASSUME NEW S, NEW n \in Nat, IsFiniteSet(S), Cardinality(S) <= n, n + 1 <= MAXOPBLOCKS
  PROVE  Cardinality(S \cup {IBLOCK}) <= MAXOPBLOCKS
<1>1. IsFiniteSet({IBLOCK}) /\ Cardinality({IBLOCK}) = 1
  BY FS_Singleton
<1>2. IsFiniteSet(S \cup {IBLOCK}) /\ Cardinality(S \cup {IBLOCK}) <= Cardinality(S) + Cardinality({IBLOCK})
  BY <1>1, UnionCard
<1>3. Cardinality(S \cup {IBLOCK}) \in Nat /\ Cardinality(S) \in Nat
  BY <1>2, FS_CardinalityType
<1> QED
  BY <1>1, <1>2, <1>3

LEMMA OpFitsInv == Inv => OpFits
<1> SUFFICES ASSUME Inv, NEW p \in Proc
             PROVE  Cardinality(th[p].logged \cup {IBLOCK}) <= MAXOPBLOCKS
  BY DEF OpFits
<1> DEFINE L == th[p].logged
           e == ip[th[p].f]
<1>1. /\ th[p] \in Thread /\ CallOk(th[p], off[p], e) /\ LogOk(th[p], off[p], blk, e)
      /\ off[p] \in Nat /\ th[p].n1 \in Nat /\ th[p].tot \in Nat
  BY Before DEF Inv, LogInv, Thread
<1>2. CASE th[p].pc \in {"user", "chunk"}
  <2>1. L = {}
    BY <1>1, <1>2 DEF CallOk
  <2>2. IsFiniteSet(L) /\ Cardinality(L) <= 0 /\ 0 + 1 <= MAXOPBLOCKS
    BY <2>1, FS_EmptySet
  <2> HIDE DEF L
  <2> QED
    BY <2>2, WithInode DEF L
<1>3. CASE th[p].pc \in {"write", "finish"}
  <2> DEFINE S == Touched(off[p], th[p].n1)
             T == Filled(off[p], th[p].n1)
             d == [k \in S |-> DBLOCK(SlotAt(blk, e, k))]
             b == [k \in T |-> BBLOCK(SlotAt(blk, e, k))]
             D == {d[k] : k \in S}
             B == {b[k] : k \in T}
  <2>1. th[p].n1 > 0 /\ th[p].n1 <= MaxChunk
    BY <1>1, <1>3, ChunkPos DEF CallOk
  <2>2. IsFiniteSet(S) /\ IsFiniteSet(T) /\ Cardinality(S) + Cardinality(T) + 1 <= MAXOPBLOCKS
    BY <1>1, <2>1, ChunkCard
  <2> HIDE DEF S, T
  <2>3. d \in [S -> D] /\ b \in [T -> B]
    OBVIOUS
  <2>4. L \subseteq D \cup B
    BY <1>1, <1>3 DEF LogOk, S, T
  <2> HIDE DEF d, b
  <2>5. /\ IsFiniteSet(D) /\ Cardinality(D) \in Nat /\ Cardinality(D) <= Cardinality(S)
        /\ IsFiniteSet(B) /\ Cardinality(B) \in Nat /\ Cardinality(B) <= Cardinality(T)
    BY <2>2, <2>3, ImageCard
  <2>6. Cardinality(S) \in Nat /\ Cardinality(T) \in Nat
    BY <2>2, FS_CardinalityType
  <2> HIDE DEF L, D, B
  <2>7. IsFiniteSet(D \cup B) /\ Cardinality(D \cup B) <= Cardinality(D) + Cardinality(B)
    BY <2>5, UnionCard
  <2>8. IsFiniteSet(L) /\ Cardinality(L) <= Cardinality(D \cup B)
    BY <2>4, <2>7, FS_Subset
  <2>9. Cardinality(L) \in Nat /\ Cardinality(D \cup B) \in Nat
    BY <2>7, <2>8, FS_CardinalityType
  <2>10. Cardinality(L) + 1 <= MAXOPBLOCKS
    BY <2>2, <2>5, <2>6, <2>7, <2>8, <2>9
  <2> QED
    BY <2>8, <2>9, <2>10, WithInode DEF L
<1>4. CASE th[p].pc = "trunc"
  <2>1. /\ th[p].tot <= MAXFILE + 1 /\ IsFiniteSet(L) /\ Cardinality(L) <= th[p].tot
        /\ \A x \in L : \E b \in Block : x = BBLOCK(b)
    BY <1>1, <1>4 DEF CallOk, LogOk
  <2>2. Cardinality(L) \in Nat
    BY <2>1, FS_CardinalityType
  <2>3. CASE NDIRECT + NINDIRECT + 2 <= MAXOPBLOCKS
    <3>1. Cardinality(L) + 1 <= MAXOPBLOCKS
      BY <1>1, <2>1, <2>2, <2>3 DEF MAXFILE
    <3> HIDE DEF L
    <3> QED
      BY <2>1, <2>2, <3>1, WithInode DEF L
  <2>4. CASE FSSIZE <= BPB * (MAXOPBLOCKS - 1)
    <3> DEFINE n == MAXOPBLOCKS - 1
               S == 0 .. n - 1
               fn == [i \in S |-> <<"bitmap", i>>]
               T == {fn[i] : i \in S}
    <3>1. n \in Nat /\ n + 1 <= MAXOPBLOCKS
      OBVIOUS
    <3>2. IsFiniteSet(S) /\ Cardinality(S) = n
      <4>1. IsFiniteSet(0 .. n - 1) /\ Cardinality(0 .. n - 1) = IF 0 > n - 1 THEN 0 ELSE (n - 1) - 0 + 1
        BY <3>1, FS_Interval
      <4> QED
        BY <3>1, <4>1
    <3>3. L \subseteq T
      <4> SUFFICES ASSUME NEW x \in L PROVE x \in T
        OBVIOUS
      <4>1. PICK b \in Block : x = BBLOCK(b)
        BY <2>1
      <4>2. b \in Nat /\ b < BPB * n
        <5>1. BPB * n \in Nat /\ FSSIZE <= BPB * n
          BY <2>4, <3>1
        <5> HIDE DEF n
        <5> QED
          BY <4>1, <5>1 DEF Block
      <4>3. b \div BPB \in S
        <5> HIDE DEF n
        <5> QED
          BY <3>1, <4>2, BitBound
      <4>4. x = fn[b \div BPB]
        BY <4>1, <4>3 DEF BBLOCK
      <4> QED
        BY <4>3, <4>4
    <3>4. fn \in [S -> T]
      OBVIOUS
    <3> HIDE DEF n, S, fn
    <3>5. IsFiniteSet(T) /\ Cardinality(T) \in Nat /\ Cardinality(T) <= Cardinality(S)
      BY <3>2, <3>4, ImageCard
    <3> HIDE DEF T, L
    <3>6. Cardinality(L) <= Cardinality(T)
      BY <3>3, <3>5, FS_Subset
    <3>7. Cardinality(L) <= n
      BY <2>2, <3>1, <3>2, <3>5, <3>6
    <3> QED
      BY <2>1, <3>1, <3>7, WithInode DEF L
  <2> QED
    BY <2>3, <2>4, TruncAssumption
<1> QED
  BY <1>1, <1>2, <1>3, <1>4 DEF Thread

\* The blocks, the inodes and the processes keep their types.
THEOREM BlocksTypeCorrect == Spec => []TypeOK
<1>1. Inv => TypeOK
  BY DEF Inv, CtlInv
<1> QED
  BY <1>1, Invariance, PTL

\* balloc(), bfree(), bmap(), itrunc() and mkfs never share, lose or leak a
\* block: a block behind the metadata is marked in the bit map exactly if one
\* slot of one inode names it, and an inode that is not locked is on the disk.
THEOREM BlocksAreOwned == Spec => []BlocksOwned
BY Invariance, OwnersInv, PTL

\* Every byte below the size of a file has a block and is one that was written
\* to that file, so that readi() finds it without allocating.
THEOREM BlocksKeepContent == Spec => []ContentKept
BY Invariance, ContentInv, PTL

\* What filewrite() lets writei() write at once, and what itrunc() frees, fits
\* the share of the log that begin_op() reserved.
THEOREM BlocksOpFits == Spec => []OpFits
BY Invariance, OpFitsInv, PTL
=============================================================================
