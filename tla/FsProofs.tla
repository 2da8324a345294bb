------------------------------ MODULE FsProofs ------------------------------
(***************************************************************************)
(* Proofs about the two halves of the file system whose steps interleave.  *)
(*                                                                         *)
(* Log, for any number of clients, blocks and log slots and any number of  *)
(* crashes: one process commits at a time and alone, what begin_op()       *)
(* reserves suffices, nobody sleeps for ever in begin_op(), and the log    *)
(* implements the atomic disk.                                             *)
(*                                                                         *)
(* Inodes, for any number of processes, inodes, files and calls: the       *)
(* counts of references and of links are right on every error path, what a *)
(* process refers to is allocated and current, and no processes wait for   *)
(* each other.                                                             *)
(***************************************************************************)
EXTENDS Log, Inodes, FiniteSetTheorems, WellFoundedInduction, SequenceTheorems, TLAPS

-----------------------------------------------------------------------------
(* The log.                                                                *)

-----------------------------------------------------------------------------
(* Who is where: the calls in progress, the committer, the loop variable.  *)

\* log.outstanding counts the calls between begin_op() and end_op().
Counted == IsFiniteSet(InCall) /\ outstanding = Cardinality(InCall)

\* A machine that recovers runs no calls.
Recovering ==
  boot # "done" => ~committing /\ \A p \in Client : pc[p] = "idle"

\* Whoever commits has set log.committing, and is alone with the log.
CommitAlone ==
  \A p \in Client : pc[p] \in Committing =>
    /\ committing
    /\ \A q \in Client : pc[q] \in Committing \cup {"op", "panic"} => q = p

\* tail stays within the transaction while a loop runs over it.
TailValid ==
  /\ \A p \in Client : pc[p] \in {"write_log", "install"} => tail <= Len(lh)
  /\ \A p \in Client : pc[p] = "write_head" => Len(lh) > 0
  /\ boot = "install" => tail <= Len(lh)

CtlInv == TypeOK /\ Counted /\ Recovering /\ CommitAlone /\ TailValid

LEMMA CtlInit == Init => CtlInv
<1> SUFFICES ASSUME Init PROVE CtlInv
    OBVIOUS
<1>1. TypeOK
  <2>1. tail \in 1 .. LOGSIZE + 1 /\ outstanding \in Nat /\ crashes \in 0 .. MaxCrashes
      BY LogAssumption DEF Init
  <2>2. hdr \in Seq(Block) /\ Len(hdr) <= LOGSIZE /\ lh \in Seq(Block) /\ Len(lh) <= LOGSIZE
      BY LogAssumption DEF Init
  <2>3. wrote \in [Client -> SUBSET Block]
      BY DEF Init
  <2> QED
      BY <2>1, <2>2, <2>3 DEF Init, TypeOK, Committing
<1>2. InCall = {}
    BY DEF Init, InCall
<1>3. Counted
    BY <1>2, FS_EmptySet DEF Init, Counted
<1> QED
    BY <1>1, <1>3 DEF CtlInv, Init, Recovering, CommitAlone, TailValid, Committing

\* Types, one action at a time.
LEMMA TypeStep == CtlInv /\ [Next]_vars => TypeOK'
<1> SUFFICES ASSUME CtlInv, [Next]_vars PROVE TypeOK'
    OBVIOUS
<1> USE LogAssumption DEF CtlInv, TypeOK, Slot, Committing, Goto, diskVars
<1>1. CASE UNCHANGED vars
    BY <1>1 DEF vars
<1>2. ASSUME NEW p \in Client, Call(p) \/ BeginSleep(p) \/ LogPanic(p) PROVE TypeOK'
    BY <1>2 DEF Call, BeginSleep, LogPanic
<1>3. ASSUME NEW p \in Client, begin_op(p) PROVE TypeOK'
    BY <1>3 DEF begin_op
<1>4. ASSUME NEW p \in Client, log_write(p) PROVE TypeOK'
    BY <1>4 DEF log_write, LogFull
<1>5. ASSUME NEW p \in Client, end_op(p) PROVE TypeOK'
  <2>1. p \in InCall
      BY <1>5 DEF end_op, InCall
  <2>2. outstanding - 1 \in Nat
      BY <2>1, FS_EmptySet, FS_CardinalityType DEF Counted
  <2> QED
      BY <1>5, <2>2 DEF end_op, wakeup
<1>6. ASSUME NEW p \in Client, CommitStart(p) PROVE TypeOK'
    BY <1>6 DEF CommitStart
<1>7. ASSUME NEW p \in Client, write_log(p) PROVE TypeOK'
    BY <1>7 DEF write_log, TailValid
<1>8. ASSUME NEW p \in Client, write_head(p) PROVE TypeOK'
    BY <1>8 DEF write_head
<1>9. ASSUME NEW p \in Client, install_trans(p) PROVE TypeOK'
    BY <1>9 DEF install_trans, InstallBlock, TailValid
<1>10. ASSUME NEW p \in Client, EraseLog(p) PROVE TypeOK'
    BY <1>10 DEF EraseLog
<1>11. ASSUME NEW p \in Client, CommitDone(p) PROVE TypeOK'
    BY <1>11 DEF CommitDone, wakeup
<1>12. CASE Crash
  <2>1. tail' \in 1 .. LOGSIZE + 1 /\ outstanding' \in Nat /\ crashes' \in 0 .. MaxCrashes
      BY <1>12 DEF Crash
  <2>2. lh' \in Seq(Block) /\ Len(lh') <= LOGSIZE
      BY <1>12 DEF Crash
  <2>3. wrote' \in [Client -> SUBSET Block]
      BY <1>12 DEF Crash
  <2> QED
      BY <1>12, <2>1, <2>2, <2>3 DEF Crash
<1>13. CASE read_head
    BY <1>13 DEF read_head
<1>14. CASE RecoverInstall
    BY <1>14 DEF RecoverInstall, InstallBlock, TailValid
<1>15. CASE RecoverClear
    BY <1>15 DEF RecoverClear
<1> QED
    BY <1>1, <1>2, <1>3, <1>4, <1>5, <1>6, <1>7, <1>8, <1>9, <1>10, <1>11, <1>12,
       <1>13, <1>14, <1>15 DEF Next, Progress, Recover

\* begin_op() adds the caller to the calls in progress, end_op() removes it, a
\* crash ends them all, and no other step changes them.
LEMMA InCallBegin ==
  ASSUME CtlInv, NEW p \in Client, begin_op(p)
  PROVE  p \notin InCall /\ InCall' = InCall \cup {p}
BY DEF CtlInv, TypeOK, begin_op, Goto, InCall

LEMMA InCallEnd ==
  ASSUME CtlInv, NEW p \in Client, end_op(p)
  PROVE  /\ p \in InCall /\ InCall' = InCall \ {p}
         /\ outstanding \in Nat \ {0}
         /\ outstanding = 1 => InCall = {p}
<1>1. p \in InCall
    BY DEF end_op, InCall
<1>2. InCall' = InCall \ {p}
    BY DEF CtlInv, TypeOK, end_op, Goto, wakeup, InCall
<1>3. outstanding \in Nat \ {0}
    BY <1>1, FS_EmptySet DEF CtlInv, Counted, TypeOK
<1>4. ASSUME outstanding = 1 PROVE InCall = {p}
  <2>1. PICK q : InCall = {q}
      BY <1>4, FS_Singleton DEF CtlInv, Counted
  <2> QED
      BY <1>1, <2>1
<1> QED
    BY <1>1, <1>2, <1>3, <1>4

\* The steps that neither begin nor end a call.
Others(p) ==
  \/ Call(p) \/ BeginSleep(p) \/ LogPanic(p) \/ log_write(p) \/ CommitStart(p)
  \/ write_log(p) \/ write_head(p) \/ install_trans(p) \/ EraseLog(p) \/ CommitDone(p)

LEMMA InCallSame ==
  ASSUME CtlInv, Recover \/ \E p \in Client : Others(p)
  PROVE  InCall' = InCall /\ UNCHANGED outstanding
<1>1. CASE Recover
    BY <1>1 DEF Recover, read_head, RecoverInstall, RecoverClear, InCall
<1>2. ASSUME NEW p \in Client, Others(p) PROVE InCall' = InCall /\ UNCHANGED outstanding
  <2>1. UNCHANGED outstanding
      BY <1>2 DEF Others, Call, BeginSleep, LogPanic, log_write, CommitStart, write_log,
         write_head, install_trans, EraseLog, CommitDone
  <2>2. pc' \in [Client -> {"idle", "begin", "asleep", "op", "panic"} \cup Committing]
      BY <1>2, TypeStep DEF TypeOK, Others, Next, Progress
  <2>3. \A q \in Client : (pc'[q] \in {"op", "panic"}) <=> (pc[q] \in {"op", "panic"})
      BY <1>2, <2>2 DEF CtlInv, TypeOK, Others, Call, BeginSleep, LogPanic, log_write, CommitStart,
         write_log, write_head, install_trans, EraseLog, CommitDone, Goto, wakeup
  <2> QED
      BY <2>1, <2>3 DEF InCall
<1> QED
    BY <1>1, <1>2

LEMMA InCallCrash == ASSUME Crash PROVE InCall' = {} /\ outstanding' = 0
BY DEF Crash, InCall

\* The case split that every proof below makes.
LEMMA NextCases ==
  ASSUME Next
  PROVE  \/ \E p \in Client : begin_op(p) \/ end_op(p) \/ Others(p)
         \/ Recover \/ Crash
BY DEF Next, Progress, Others

LEMMA CountedStep == CtlInv /\ [Next]_vars => Counted'
<1> SUFFICES ASSUME CtlInv, [Next]_vars PROVE Counted'
    OBVIOUS
<1>1. CASE UNCHANGED vars
    BY <1>1 DEF vars, CtlInv, Counted, InCall
<1>2. ASSUME NEW p \in Client, begin_op(p) PROVE Counted'
  <2>1. IsFiniteSet(InCall') /\ Cardinality(InCall') = Cardinality(InCall) + 1
      BY <1>2, InCallBegin, FS_AddElement DEF CtlInv, Counted
  <2> QED
      BY <1>2, <2>1 DEF begin_op, CtlInv, Counted
<1>3. ASSUME NEW p \in Client, end_op(p) PROVE Counted'
  <2>1. IsFiniteSet(InCall') /\ Cardinality(InCall') = Cardinality(InCall) - 1
      BY <1>3, InCallEnd, FS_RemoveElement DEF CtlInv, Counted
  <2> QED
      BY <1>3, <2>1 DEF end_op, CtlInv, Counted
<1>4. CASE Recover \/ \E p \in Client : Others(p)
    BY <1>4, InCallSame DEF CtlInv, Counted
<1>5. CASE Crash
    BY <1>5, InCallCrash, FS_EmptySet DEF Counted
<1> QED
    BY <1>1, <1>2, <1>3, <1>4, <1>5, NextCases

LEMMA CtlStep == CtlInv /\ [Next]_vars => CtlInv'
<1> SUFFICES ASSUME CtlInv, [Next]_vars
             PROVE  Recovering' /\ CommitAlone' /\ TailValid'
    BY TypeStep, CountedStep DEF CtlInv
<1> USE LogAssumption DEF CtlInv, TypeOK, Recovering, CommitAlone, TailValid, Committing, Goto,
        diskVars
<1>1. CASE UNCHANGED vars
    BY <1>1 DEF vars
<1>2. ASSUME NEW p \in Client, Call(p) \/ BeginSleep(p) \/ LogPanic(p) \/ begin_op(p)
      PROVE  Recovering' /\ CommitAlone' /\ TailValid'
    BY <1>2 DEF Call, BeginSleep, LogPanic, begin_op, Running, MustWait
<1>3. ASSUME NEW p \in Client, log_write(p) PROVE Recovering' /\ CommitAlone' /\ TailValid'
    BY <1>3 DEF log_write, Running
<1>4. ASSUME NEW p \in Client, end_op(p) PROVE Recovering' /\ CommitAlone' /\ TailValid'
  <2>1. CASE outstanding = 1
    <3>1. \A q \in Client : pc[q] \in {"op", "panic"} => q = p
        BY <1>4, <2>1, InCallEnd DEF InCall
    <3> QED
        BY <1>4, <2>1, <3>1 DEF end_op, Running
  <2>2. CASE outstanding # 1
    <3>1. \A q \in Client : pc'[q] \in Committing => pc[q] = pc'[q]
        BY <1>4, <2>2 DEF end_op, wakeup
    <3>2. ~ \E q \in Client : pc[q] \in Committing
        BY <1>4 DEF end_op
    <3> QED
        BY <1>4, <2>2, <3>1, <3>2 DEF end_op, Running, wakeup
  <2> QED
      BY <2>1, <2>2
<1>5. ASSUME NEW p \in Client, CommitStart(p) PROVE Recovering' /\ CommitAlone' /\ TailValid'
    BY <1>5 DEF CommitStart, Running
<1>6. ASSUME NEW p \in Client, write_log(p) PROVE Recovering' /\ CommitAlone' /\ TailValid'
    BY <1>6 DEF write_log, Running
<1>7. ASSUME NEW p \in Client, write_head(p) PROVE Recovering' /\ CommitAlone' /\ TailValid'
    BY <1>7 DEF write_head, Running
<1>8. ASSUME NEW p \in Client, install_trans(p) PROVE Recovering' /\ CommitAlone' /\ TailValid'
    BY <1>8 DEF install_trans, InstallBlock, Running
<1>9. ASSUME NEW p \in Client, EraseLog(p) PROVE Recovering' /\ CommitAlone' /\ TailValid'
    BY <1>9 DEF EraseLog, Running
<1>10. ASSUME NEW p \in Client, CommitDone(p) PROVE Recovering' /\ CommitAlone' /\ TailValid'
  <2>1. ~ \E q \in Client : pc'[q] \in Committing
      BY <1>10 DEF CommitDone, wakeup
  <2> QED
      BY <1>10, <2>1 DEF CommitDone, Running
<1>11. CASE Crash
    BY <1>11 DEF Crash
<1>12. CASE Recover
    BY <1>12 DEF Recover, read_head, RecoverInstall, RecoverClear, InstallBlock
<1> QED
    BY <1>1, <1>2, <1>3, <1>4, <1>5, <1>6, <1>7, <1>8, <1>9, <1>10, <1>11, <1>12, NextCases
       DEF Others

-----------------------------------------------------------------------------
(* What the log, the disk and the cache hold at each step of a commit and  *)
(* of a recovery.                                                          *)

Listed(b, s) == \E i \in 1 .. Len(s) : s[i] = b
Distinct(s) == \A i, j \in 1 .. Len(s) : s[i] = s[j] => i = j

\* The header on disk names the transaction from the commit point until it is
\* installed, and nothing before and after.
HeaderValid ==
  /\ Distinct(lh) /\ Distinct(hdr)
  /\ \A p \in Client : pc[p] \in {"install", "erase"} => hdr = lh
  /\ boot = "done" /\ (\A p \in Client : pc[p] \notin {"install", "erase"}) => hdr = <<>>
  /\ boot \in {"install", "clear"} => hdr = lh

\* The log holds what the cache holds, up to tail and then for all blocks.
LogCopied ==
  \A p \in Client :
    /\ pc[p] = "write_log" => \A i \in 1 .. Len(lh) : i < tail => logd[i] = cache[lh[i]]
    /\ pc[p] \in {"write_head", "install", "erase"} =>
         \A i \in 1 .. Len(lh) : logd[i] = cache[lh[i]]

\* The home blocks hold what the log holds, up to tail and then for all blocks.
Installed ==
  /\ (boot = "install" \/ \E p \in Client : pc[p] = "install") =>
       \A i \in 1 .. Len(lh) : i < tail => disk[lh[i]] = logd[i]
  /\ (boot = "clear" \/ \E p \in Client : pc[p] = "erase") =>
       \A i \in 1 .. Len(lh) : disk[lh[i]] = logd[i]

\* A block that differs from its home is in the transaction.
CacheBehind ==
  /\ boot # "done" => cache = disk
  /\ \A b \in Block : cache[b] # disk[b] => Listed(b, lh)

\* No transaction is left behind when nobody is at work.
LogEmptied ==
  /\ \A p \in Client : pc[p] = "committed" => lh = <<>>
  /\ boot = "done" /\ ~committing /\ outstanding = 0 => lh = <<>>

DataInv == HeaderValid /\ LogCopied /\ Installed /\ CacheBehind /\ LogEmptied

LogInv == CtlInv /\ DataInv

LEMMA DataInit == Init => DataInv
BY DEF Init, DataInv, HeaderValid, LogCopied, Installed, CacheBehind, LogEmptied, Distinct, Listed

\* Absorption: a block is listed once, and no other is dropped.
LEMMA AbsorbListed ==
  ASSUME NEW s \in Seq(Block), Distinct(s), NEW b \in Block,
         NEW t, t = IF \E i \in 1 .. Len(s) : s[i] = b THEN s ELSE Append(s, b)
  PROVE  Distinct(t) /\ Listed(b, t) /\ \A c \in Block : Listed(c, s) => Listed(c, t)
<1>1. CASE Listed(b, s)
    BY <1>1 DEF Listed
<1>2. CASE ~Listed(b, s)
  <2>1. t = Append(s, b) /\ Len(t) = Len(s) + 1 /\ t[Len(s) + 1] = b
      BY <1>2 DEF Listed
  <2>2. \A i \in 1 .. Len(s) : t[i] = s[i] /\ s[i] # b
      BY <1>2, <2>1 DEF Listed
  <2>3. \A c \in Block : Listed(c, s) => Listed(c, t)
      BY <2>1, <2>2 DEF Listed
  <2>4. Distinct(t)
      BY <2>1, <2>2 DEF Distinct
  <2> QED
      BY <2>1, <2>3, <2>4 DEF Listed
<1> QED
    BY <1>1, <1>2

\* One action at a time; the control part of the invariant says who else may run.
LEMMA DataStep == LogInv /\ [Next]_vars => DataInv'
<1> SUFFICES ASSUME CtlInv, DataInv, CtlInv', [Next]_vars PROVE DataInv'
    BY CtlStep DEF LogInv
<1> USE LogAssumption DEF CtlInv, TypeOK, DataInv, HeaderValid, LogCopied, Installed, CacheBehind,
        LogEmptied, Slot, Committing, Goto, diskVars
<1>1. CASE UNCHANGED vars
    BY <1>1 DEF vars, Distinct, Listed
<1>2. ASSUME NEW p \in Client, Call(p) \/ BeginSleep(p) \/ LogPanic(p) \/ begin_op(p)
      PROVE  DataInv'
  <2>1. UNCHANGED <<disk, logd, hdr, cache, lh, committing, tail, boot>> /\ boot = "done"
      BY <1>2 DEF Call, BeginSleep, LogPanic, begin_op, Running
  <2>2. \A q \in Client : pc'[q] \in Committing <=> pc[q] = pc'[q] /\ pc[q] \in Committing
      BY <1>2 DEF Call, BeginSleep, LogPanic, begin_op
  <2>3. outstanding' = 0 => outstanding = 0
      BY <1>2 DEF Call, BeginSleep, LogPanic, begin_op
  <2>4. \A q \in Client : pc[q] \in Committing => pc[q] = pc'[q]
      BY <1>2 DEF Call, BeginSleep, LogPanic, begin_op
  <2> QED
      BY <2>1, <2>2, <2>3, <2>4 DEF Distinct, Listed
<1>3. ASSUME NEW p \in Client, log_write(p) PROVE DataInv'
  <2>1. PICK b \in Block, v \in Value :
          /\ cache' = [cache EXCEPT ![b] = v]
          /\ lh' = IF \E i \in 1 .. Len(lh) : lh[i] = b THEN lh ELSE Append(lh, b)
      BY <1>3 DEF log_write
  <2>2. boot = "done" /\ pc[p] = "op" /\ UNCHANGED <<disk, logd, hdr, outstanding, committing, pc, tail, boot>>
      BY <1>3 DEF log_write, Running
  <2>3. \A q \in Client : pc[q] \notin Committing
      BY <2>2 DEF CommitAlone
  <2>4. Distinct(lh') /\ Listed(b, lh') /\ \A c \in Block : Listed(c, lh) => Listed(c, lh')
      BY <2>1, AbsorbListed
  <2>5. outstanding # 0
    <3>1. p \in InCall
        BY <2>2 DEF InCall
    <3> QED
        BY <3>1, FS_EmptySet DEF Counted
  <2>6. HeaderValid'
      BY <2>2, <2>3, <2>4 DEF Distinct
  <2>7. LogCopied' /\ Installed' /\ LogEmptied'
      BY <2>2, <2>3, <2>5
  <2>8. CacheBehind'
      BY <2>1, <2>2, <2>4
  <2> QED
      BY <2>6, <2>7, <2>8
<1>4. ASSUME NEW p \in Client, end_op(p) PROVE DataInv'
  <2>1. \A q \in Client : pc[q] \notin Committing
      BY <1>4 DEF end_op, CommitAlone
  <2>2. \A q \in Client : pc'[q] \in Committing => pc'[q] = "commit"
    <3> SUFFICES ASSUME NEW q \in Client, pc'[q] \in Committing PROVE pc'[q] = "commit"
        OBVIOUS
    <3>1. CASE outstanding = 1
      <4>1. pc' = [pc EXCEPT ![p] = "commit"]
          BY <1>4, <3>1 DEF end_op
      <4> QED
          BY <2>1, <4>1
    <3>2. CASE outstanding # 1
      <4>1. pc'[q] = pc[q] \/ pc'[q] \in {"begin", "idle"}
          BY <1>4, <3>2 DEF end_op, wakeup
      <4> QED
          BY <2>1, <4>1
    <3> QED
        BY <3>1, <3>2
  <2>3. boot = "done" /\ UNCHANGED <<disk, logd, hdr, cache, lh, tail, boot>>
      BY <1>4 DEF end_op, Running
  <2>4. committing' \/ outstanding' # 0
      BY <1>4, InCallEnd DEF end_op
  <2> QED
      BY <2>1, <2>2, <2>3, <2>4 DEF Distinct, Listed
<1>5. ASSUME NEW p \in Client, CommitStart(p) PROVE DataInv'
    BY <1>5 DEF CommitStart, Running, CommitAlone, Distinct, Listed
<1>6. ASSUME NEW p \in Client, write_log(p) PROVE DataInv'
    BY <1>6 DEF write_log, Running, CommitAlone, TailValid, Distinct, Listed
<1>7. ASSUME NEW p \in Client, write_head(p) PROVE DataInv'
    BY <1>7 DEF write_head, Running, CommitAlone, Distinct, Listed
<1>8. ASSUME NEW p \in Client, install_trans(p) PROVE DataInv'
    BY <1>8 DEF install_trans, InstallBlock, Running, CommitAlone, TailValid, Distinct, Listed
<1>9. ASSUME NEW p \in Client, EraseLog(p) PROVE DataInv'
    BY <1>9 DEF EraseLog, Running, CommitAlone, Distinct, Listed
<1>10. ASSUME NEW p \in Client, CommitDone(p) PROVE DataInv'
    BY <1>10 DEF CommitDone, Running, CommitAlone, wakeup, Distinct, Listed
<1>11. CASE Crash
    BY <1>11 DEF Crash, Distinct, Listed
<1>12. CASE read_head
    BY <1>12 DEF read_head, Recovering, Distinct, Listed
<1>13. CASE RecoverInstall
    BY <1>13 DEF RecoverInstall, InstallBlock, Recovering, TailValid, Distinct, Listed
<1>14. CASE RecoverClear
    BY <1>14 DEF RecoverClear, Recovering, Distinct, Listed
<1> QED
    BY <1>1, <1>2, <1>3, <1>4, <1>5, <1>6, <1>7, <1>8, <1>9, <1>10, <1>11, <1>12, <1>13, <1>14,
       NextCases DEF Others, Recover

-----------------------------------------------------------------------------
(* What begin_op() reserves.                                               *)

\* The pairs of a call in progress and a block that it has written.
Written == {x \in InCall \X Block : x[2] \in wrote[x[1]]}

\* A call writes at most OpBlocks blocks, all of them in the transaction.
WroteListed ==
  \A p \in InCall :
    /\ IsFiniteSet(wrote[p]) /\ Cardinality(wrote[p]) <= OpBlocks
    /\ \A b \in wrote[p] : Listed(b, lh)

Reserved ==
  /\ IsFiniteSet(Written)
  /\ Len(lh) + outstanding * MAXOPBLOCKS <= LOGSIZE + Cardinality(Written)

ReserveInv == WroteListed /\ Reserved

LEMMA NoCallNoneWritten ==
  ASSUME InCall = {} PROVE IsFiniteSet(Written) /\ Cardinality(Written) = 0
<1>1. Written = {}
    BY DEF Written
<1> QED
    BY <1>1, FS_EmptySet

LEMMA ReserveInit == Init => ReserveInv
<1> SUFFICES ASSUME Init PROVE ReserveInv
    OBVIOUS
<1>1. InCall = {} /\ outstanding = 0 /\ Len(lh) = 0
    BY DEF Init, InCall
<1> QED
    BY <1>1, NoCallNoneWritten, LogAssumption DEF ReserveInv, WroteListed, Reserved

LEMMA TimesStep == ASSUME NEW n \in Nat, NEW m \in Nat PROVE (n + 1) * m = n * m + m
BY SMT

LEMMA ReserveBegin ==
  ASSUME CtlInv, ReserveInv, NEW p \in Client, begin_op(p)
  PROVE  ReserveInv'
<1>1. p \notin InCall /\ InCall' = InCall \cup {p} /\ wrote'[p] = {} /\ UNCHANGED lh
    BY InCallBegin DEF begin_op, CtlInv, TypeOK
<1>2. \A q \in InCall : wrote'[q] = wrote[q]
    BY <1>1 DEF begin_op, CtlInv, TypeOK, InCall
<1>3. Written' = Written
    BY <1>1, <1>2 DEF Written
<1>4. WroteListed'
    BY <1>1, <1>2, FS_EmptySet, LogAssumption DEF ReserveInv, WroteListed
<1>5. outstanding' = outstanding + 1 /\ Len(lh) + (outstanding + 1) * MAXOPBLOCKS <= LOGSIZE
  <2>1. Len(lh) + (outstanding + 1) * MAXOPBLOCKS \in Int
      BY LogAssumption DEF CtlInv, TypeOK
  <2> QED
      BY <2>1, LogAssumption DEF begin_op, MustWait
<1>6. Cardinality(Written) \in Nat
    BY FS_CardinalityType DEF ReserveInv, Reserved
<1>7. (outstanding + 1) * MAXOPBLOCKS \in Int /\ Len(lh) \in Int
    BY LogAssumption DEF CtlInv, TypeOK
<1> QED
    BY <1>1, <1>3, <1>4, <1>5, <1>6, <1>7, LogAssumption DEF ReserveInv, Reserved

LEMMA ReserveEnd ==
  ASSUME CtlInv, ReserveInv, NEW p \in Client, end_op(p)
  PROVE  ReserveInv'
<1>1. p \in InCall /\ InCall' = InCall \ {p} /\ outstanding \in Nat \ {0}
    BY InCallEnd
<1>2. UNCHANGED <<wrote, lh>> /\ outstanding' = outstanding - 1
    BY DEF end_op
<1>3. Written' = Written \ ({p} \X wrote[p])
    BY <1>1, <1>2 DEF Written
<1>4. WroteListed'
    BY <1>1, <1>2 DEF ReserveInv, WroteListed
<1> DEFINE gone == {p} \X wrote[p]
<1>5. IsFiniteSet(gone) /\ Cardinality(gone) <= MAXOPBLOCKS /\ Cardinality(gone) \in Nat
  <2>1. IsFiniteSet(wrote[p]) /\ Cardinality(wrote[p]) <= OpBlocks
      BY <1>1 DEF ReserveInv, WroteListed
  <2>2. IsFiniteSet(gone) /\ Cardinality(gone) = 1 * Cardinality(wrote[p])
    <3>1. IsFiniteSet({p}) /\ Cardinality({p}) = 1
        BY FS_Singleton
    <3> QED
        BY <2>1, <3>1, FS_Product
  <2> QED
      BY <2>1, <2>2, FS_CardinalityType, LogAssumption
<1> HIDE DEF gone
<1>6. IsFiniteSet(Written \cap gone) /\ Cardinality(Written \cap gone) <= Cardinality(gone)
    BY <1>5, FS_Subset
<1>7. /\ IsFiniteSet(Written \ gone)
      /\ Cardinality(Written \ gone) = Cardinality(Written) - Cardinality(Written \cap gone)
    BY FS_Difference DEF ReserveInv, Reserved
<1>8. Cardinality(Written) \in Nat /\ Cardinality(Written \cap gone) \in Nat
    BY <1>6, FS_CardinalityType DEF ReserveInv, Reserved
<1>9. outstanding * MAXOPBLOCKS = (outstanding - 1) * MAXOPBLOCKS + MAXOPBLOCKS
  <2>1. PICK n \in Nat : outstanding = n + 1
      BY <1>1, outstanding - 1 \in Nat
  <2> QED
      BY <2>1, TimesStep, LogAssumption
<1>10. (outstanding - 1) * MAXOPBLOCKS \in Int /\ Len(lh) \in Nat
    BY <1>1, LogAssumption DEF CtlInv, TypeOK
<1>11. Len(lh) + (outstanding - 1) * MAXOPBLOCKS <= LOGSIZE + Cardinality(Written \ gone)
    BY <1>5, <1>6, <1>7, <1>8, <1>9, <1>10, LogAssumption DEF ReserveInv, Reserved
<1>12. Written' = Written \ gone
    BY <1>3 DEF gone
<1> QED
    BY <1>2, <1>4, <1>7, <1>11, <1>12 DEF ReserveInv, Reserved

LEMMA ReserveWrite ==
  ASSUME CtlInv, ReserveInv, NEW p \in Client, log_write(p)
  PROVE  ReserveInv'
<1>1. PICK b \in Block :
        /\ Cardinality(wrote[p] \cup {b}) <= OpBlocks
        /\ wrote' = [wrote EXCEPT ![p] = @ \cup {b}]
        /\ lh' = IF \E i \in 1 .. Len(lh) : lh[i] = b THEN lh ELSE Append(lh, b)
    BY DEF log_write
<1>2. p \in InCall /\ InCall' = InCall /\ UNCHANGED outstanding
    BY InCallSame DEF log_write, InCall, Others
<1>3. /\ wrote'[p] = wrote[p] \cup {b}
      /\ \A q \in InCall : q # p => wrote'[q] = wrote[q]
    BY <1>1 DEF CtlInv, TypeOK, InCall
<1>4. /\ lh' = IF Listed(b, lh) THEN lh ELSE Append(lh, b)
      /\ lh \in Seq(Block)
    BY <1>1 DEF Listed, CtlInv, TypeOK
<1>5. Listed(b, lh') /\ \A c \in Block : Listed(c, lh) => Listed(c, lh')
    BY <1>4 DEF Listed
<1>6. WroteListed'
  <2>1. IsFiniteSet(wrote'[p]) /\ Cardinality(wrote'[p]) <= OpBlocks
    <3>1. IsFiniteSet(wrote[p])
        BY <1>2 DEF ReserveInv, WroteListed
    <3>2. IsFiniteSet(wrote[p] \cup {b})
        BY <3>1, FS_AddElement
    <3> QED
        BY <1>1, <1>3, <3>2
  <2>2. \A q \in InCall : wrote[q] \in SUBSET Block
      BY DEF CtlInv, TypeOK, InCall
  <2> QED
      BY <1>2, <1>3, <1>5, <2>1, <2>2 DEF ReserveInv, WroteListed
<1>7. Written' = Written \cup {<<p, b>>}
    BY <1>2, <1>3 DEF Written
<1>8. /\ IsFiniteSet(Written')
      /\ Cardinality(Written') = IF <<p, b>> \in Written THEN Cardinality(Written)
                                 ELSE Cardinality(Written) + 1
    BY <1>7, FS_AddElement DEF ReserveInv, Reserved
<1>9. Cardinality(Written) \in Nat /\ outstanding * MAXOPBLOCKS \in Int /\ Len(lh) \in Nat
    BY FS_CardinalityType, LogAssumption DEF ReserveInv, Reserved, CtlInv, TypeOK
<1>10. CASE Listed(b, lh)
    BY <1>2, <1>4, <1>6, <1>8, <1>9, <1>10, LogAssumption DEF ReserveInv, Reserved
<1>11. CASE ~Listed(b, lh)
  <2>1. <<p, b>> \notin Written
      BY <1>2, <1>11 DEF Written, ReserveInv, WroteListed
  <2>2. Len(lh') = Len(lh) + 1
      BY <1>4, <1>11
  <2> QED
      BY <1>2, <1>6, <1>8, <1>9, <2>1, <2>2, LogAssumption DEF ReserveInv, Reserved
<1> QED
    BY <1>10, <1>11

LEMMA ReserveStep == LogInv /\ ReserveInv /\ [Next]_vars => ReserveInv'
<1> SUFFICES ASSUME CtlInv, CtlInv', ReserveInv, [Next]_vars PROVE ReserveInv'
    BY CtlStep DEF LogInv
<1>1. CASE UNCHANGED vars
    BY <1>1 DEF vars, ReserveInv, WroteListed, Reserved, Written, InCall
<1>2. ASSUME NEW p \in Client, begin_op(p) \/ end_op(p) \/ log_write(p) PROVE ReserveInv'
    BY <1>2, ReserveBegin, ReserveEnd, ReserveWrite
<1>3. ASSUME NEW p \in Client, Others(p), ~log_write(p), UNCHANGED lh PROVE ReserveInv'
  <2>1. UNCHANGED wrote
      BY <1>3 DEF Others, Call, BeginSleep, LogPanic, CommitStart, write_log, write_head,
         install_trans, EraseLog, CommitDone
  <2>2. InCall' = InCall /\ UNCHANGED outstanding
      BY <1>3, InCallSame
  <2> QED
      BY <1>3, <2>1, <2>2 DEF ReserveInv, WroteListed, Reserved, Written
<1>4. ASSUME InCall' = {} PROVE ReserveInv'
  <2>1. outstanding' = 0
      BY <1>4, FS_EmptySet DEF CtlInv, Counted
  <2>2. IsFiniteSet(Written') /\ Cardinality(Written') = 0
    <3>1. Written' = {}
        BY <1>4 DEF Written
    <3> QED
        BY <3>1, FS_EmptySet
  <2> QED
      BY <1>4, <2>1, <2>2, LogAssumption DEF ReserveInv, WroteListed, Reserved, CtlInv, TypeOK
<1>5. ASSUME NEW p \in Client, EraseLog(p) PROVE ReserveInv'
  <2>1. InCall = {}
      BY <1>5 DEF EraseLog, CtlInv, CommitAlone, Committing, InCall
  <2> QED
      BY <1>4, <1>5, <2>1, InCallSame DEF Others
<1>6. CASE Recover
  <2>1. InCall = {}
      BY <1>6 DEF Recover, read_head, RecoverInstall, RecoverClear, CtlInv, Recovering, InCall
  <2> QED
      BY <1>4, <1>6, <2>1, InCallSame
<1>7. CASE Crash
    BY <1>4, <1>7, InCallCrash
<1>8. ASSUME NEW p \in Client, Others(p), ~log_write(p), ~EraseLog(p) PROVE UNCHANGED lh
    BY <1>8 DEF Others, Call, BeginSleep, LogPanic, CommitStart, write_log, write_head,
       install_trans, CommitDone
<1> QED
    BY <1>1, <1>2, <1>3, <1>5, <1>6, <1>7, <1>8, NextCases

\* The full inductive invariant.
FullInv == LogInv /\ ReserveInv /\ SleepersWillWake

LEMMA SleepersStep == LogInv /\ SleepersWillWake /\ [Next]_vars => SleepersWillWake'
<1> SUFFICES ASSUME CtlInv, DataInv, SleepersWillWake, [Next]_vars,
                    NEW q \in Client, pc'[q] = "asleep"
             PROVE  committing' \/ outstanding' > 0
    BY DEF LogInv, SleepersWillWake
<1> USE LogAssumption DEF CtlInv, TypeOK, Goto
<1>1. CASE UNCHANGED vars
    BY <1>1 DEF vars, SleepersWillWake
<1>2. ASSUME NEW p \in Client, BeginSleep(p) PROVE committing' \/ outstanding' > 0
  <2>1. CASE ~committing /\ outstanding = 0
    <3>1. lh = <<>>
        BY <1>2, <2>1 DEF BeginSleep, Running, DataInv, LogEmptied
    <3> QED
        BY <1>2, <2>1, <3>1 DEF BeginSleep, MustWait
  <2> QED
      BY <1>2, <2>1 DEF BeginSleep
<1>3. ASSUME NEW p \in Client, begin_op(p) PROVE committing' \/ outstanding' > 0
    BY <1>3 DEF begin_op
<1>4. ASSUME NEW p \in Client, end_op(p) PROVE committing' \/ outstanding' > 0
  <2>1. outstanding \in Nat \ {0} /\ outstanding' = outstanding - 1 /\ (outstanding = 1 => committing')
      BY <1>4, InCallEnd DEF end_op
  <2> QED
      BY <2>1
<1>5. ASSUME NEW p \in Client, CommitDone(p) PROVE FALSE
    BY <1>5 DEF CommitDone, wakeup
<1>6. ASSUME NEW p \in Client, Others(p), ~BeginSleep(p), ~CommitDone(p)
      PROVE  committing' \/ outstanding' > 0
  <2>1. UNCHANGED <<committing, outstanding>>
      BY <1>6 DEF Others, Call, log_write, LogPanic, CommitStart, write_log, write_head,
         install_trans, EraseLog
  <2>2. pc[q] = "asleep"
      BY <1>6 DEF Others, Call, log_write, LogPanic, CommitStart, write_log, write_head,
         install_trans, EraseLog
  <2> QED
      BY <2>1, <2>2 DEF SleepersWillWake
<1>7. CASE Recover
    BY <1>7 DEF Recover, read_head, RecoverInstall, RecoverClear, Recovering
<1>8. CASE Crash
    BY <1>8 DEF Crash
<1> QED
    BY <1>1, <1>2, <1>3, <1>4, <1>5, <1>6, <1>7, <1>8, NextCases

LEMMA LogInductive == Spec => []FullInv
<1>1. Init => FullInv
    BY CtlInit, DataInit, ReserveInit DEF FullInv, LogInv, SleepersWillWake, Init
<1>2. FullInv /\ [Next]_vars => FullInv'
    BY CtlStep, DataStep, ReserveStep, SleepersStep DEF FullInv, LogInv
<1> QED
    BY <1>1, <1>2, PTL DEF Spec

\* For every number of clients, blocks, log slots and crashes: a block whose
\* cached content is newer than its home is in the transaction, and no block is
\* there twice (log_write() and install_trans() of log.c).
THEOREM LogCacheAheadByLog == Spec => []CacheAheadByLog
<1>1. FullInv => CacheAheadByLog
    BY DEF FullInv, LogInv, DataInv, HeaderValid, CacheBehind, Distinct, Listed, CacheAheadByLog
<1> QED
    BY <1>1, LogInductive, PTL

\* What begin_op() admits always fits: the transaction and all that the calls in
\* progress may still write is within LOGSIZE, whatever they have absorbed.
THEOREM LogReservationKept == Spec => []ReservationKept
<1>1. FullInv => ReservationKept
    BY DEF FullInv, LogInv, CtlInv, Counted, ReserveInv, Reserved, Written, ReservationKept
<1> QED
    BY <1>1, LogInductive, PTL

\* Nobody sleeps in begin_op() when no commit and no call is left to wake it up.
THEOREM LogSleepersWillWake == Spec => []SleepersWillWake
<1>1. FullInv => SleepersWillWake
    BY DEF FullInv
<1> QED
    BY <1>1, LogInductive, PTL

-----------------------------------------------------------------------------
(* The log implements the atomic disk.                                     *)

\* Recovered, of any header, log and home blocks.
RecoverOf(h, l, d) ==
  [b \in Block |-> IF \E i \in 1 .. Len(h) : h[i] = b
                   THEN l[CHOOSE i \in 1 .. Len(h) : h[i] = b]
                   ELSE d[b]]

LEMMA RecoveredIs ==
  /\ Recovered = RecoverOf(hdr, logd, disk)
  /\ Recovered' = RecoverOf(hdr', logd', disk')
BY DEF Recovered, RecoverOf

\* What recovery reads for a listed block is its copy in the log.
LEMMA RecoverOfListed ==
  ASSUME NEW h \in Seq(Block), NEW l, NEW d, Distinct(h), NEW i \in 1 .. Len(h)
  PROVE  RecoverOf(h, l, d)[h[i]] = l[i]
<1> DEFINE pos == CHOOSE j \in 1 .. Len(h) : h[j] = h[i]
<1>1. pos \in 1 .. Len(h) /\ h[pos] = h[i]
    OBVIOUS
<1>2. pos = i
    BY <1>1 DEF Distinct
<1>3. h[i] \in Block
    OBVIOUS
<1> QED
    BY <1>2, <1>3 DEF RecoverOf

LEMMA RecoverOfHome ==
  ASSUME NEW h, NEW l, NEW d, NEW b \in Block, ~Listed(b, h)
  PROVE  RecoverOf(h, l, d)[b] = d[b]
BY DEF RecoverOf, Listed

\* A function that agrees with the log on the listed blocks and with the home
\* blocks elsewhere is what recovery makes of the disk.
LEMMA RecoverOfUnique ==
  ASSUME NEW h \in Seq(Block), NEW l, NEW d, Distinct(h), NEW g, DOMAIN g = Block,
         g = [b \in Block |-> g[b]],
         \A i \in 1 .. Len(h) : g[h[i]] = l[i],
         \A b \in Block : ~Listed(b, h) => g[b] = d[b]
  PROVE  RecoverOf(h, l, d) = g
<1>1. ASSUME NEW b \in Block PROVE RecoverOf(h, l, d)[b] = g[b]
  <2>1. CASE Listed(b, h)
    <3>1. PICK i \in 1 .. Len(h) : h[i] = b
        BY <2>1 DEF Listed
    <3> QED
        BY <3>1, RecoverOfListed
  <2>2. CASE ~Listed(b, h)
      BY <2>2, RecoverOfHome
  <2> QED
      BY <2>1, <2>2
<1>2. RecoverOf(h, l, d) = [b \in Block |-> RecoverOf(h, l, d)[b]]
    BY DEF RecoverOf
<1> QED
    BY <1>1, <1>2

\* install_trans() does not change what recovery would read.
LEMMA InstallKeeps ==
  ASSUME CtlInv, hdr = lh, tail <= Len(lh), InstallBlock, UNCHANGED <<logd, hdr>>
  PROVE  Recovered' = Recovered
<1>1. hdr \in Seq(Block) /\ tail \in 1 .. Len(hdr)
    BY DEF CtlInv, TypeOK
<1>2. \A b \in Block : ~Listed(b, hdr) => disk'[b] = disk[b]
    BY <1>1 DEF InstallBlock, Listed, CtlInv, TypeOK
<1>3. RecoverOf(hdr, logd, disk') = RecoverOf(hdr, logd, disk)
    BY <1>2 DEF RecoverOf, Listed
<1> QED
    BY <1>3, RecoveredIs

\* Before the commit point recovery reads the home blocks.
LEMMA RecoverOfEmpty ==
  ASSUME NEW l, NEW d \in [Block -> Value] PROVE RecoverOf(<<>>, l, d) = d
BY DEF RecoverOf

\* When all listed blocks are installed, recovery reads the home blocks.
LEMMA InstalledRecovered ==
  ASSUME CtlInv, HeaderValid, hdr = lh, \A i \in 1 .. Len(lh) : disk[lh[i]] = logd[i]
  PROVE  Recovered = disk
<1>1. hdr \in Seq(Block) /\ Distinct(hdr) /\ DOMAIN disk = Block /\ disk = [b \in Block |-> disk[b]]
    BY DEF CtlInv, TypeOK, HeaderValid
<1> QED
    BY <1>1, RecoverOfUnique, RecoveredIs

\* At the commit point recovery reads what the cache holds.
LEMMA CommittedRecovered ==
  ASSUME CtlInv, DataInv, hdr' = lh, UNCHANGED <<logd, disk>>,
         \A i \in 1 .. Len(lh) : logd[i] = cache[lh[i]]
  PROVE  Recovered' = cache
<1>1. lh \in Seq(Block) /\ Distinct(lh) /\ DOMAIN cache = Block /\ cache = [b \in Block |-> cache[b]]
    BY DEF CtlInv, TypeOK, DataInv, HeaderValid
<1>2. \A b \in Block : ~Listed(b, lh) => cache[b] = disk[b]
    BY DEF DataInv, CacheBehind
<1>3. RecoverOf(lh, logd, disk) = cache
    BY <1>1, <1>2, RecoverOfUnique
<1> QED
    BY <1>3, RecoveredIs

LEMMA RefineInit == Init => Atomic!Init
<1> SUFFICES ASSUME Init PROVE Atomic!Init
    OBVIOUS
<1>1. Recovered = disk
    BY RecoveredIs, RecoverOfEmpty DEF Init
<1> QED
    BY <1>1 DEF Init, Atomic!Init, InCall

\* One step of the log is one step of the atomic disk, or none.
LEMMA RefineStep == LogInv /\ LogInv' /\ [Next]_vars => [Atomic!Next]_(Atomic!vars)
<1> SUFFICES ASSUME CtlInv, DataInv, CtlInv', DataInv', [Next]_vars
             PROVE  [Atomic!Next]_(Atomic!vars)
    BY DEF LogInv
<1>st. ASSUME UNCHANGED <<cache, boot>>, Recovered' = Recovered, InCall' = InCall
       PROVE  [Atomic!Next]_(Atomic!vars)
    BY <1>st DEF Atomic!vars
<1>1. CASE UNCHANGED vars
    BY <1>st, <1>1 DEF vars, Recovered, InCall
<1>2. ASSUME NEW p \in Client, begin_op(p) PROVE Atomic!Begin(p)
  <2>1. Recovered' = Recovered
      BY <1>2 DEF begin_op, diskVars, Recovered
  <2> QED
      BY <1>2, <2>1, InCallBegin DEF begin_op, Running, Atomic!Begin
<1>3. ASSUME NEW p \in Client, end_op(p) PROVE Atomic!End(p)
  <2>1. Recovered' = Recovered
      BY <1>3 DEF end_op, diskVars, Recovered
  <2> QED
      BY <1>3, <2>1, InCallEnd DEF end_op, Running, Atomic!End
<1>4. ASSUME NEW p \in Client, log_write(p) PROVE Atomic!Write(p)
  <2>1. Recovered' = Recovered
      BY <1>4 DEF log_write, diskVars, Recovered
  <2>2. InCall' = InCall /\ p \in InCall
      BY <1>4, InCallSame DEF log_write, Others, InCall
  <2>3. boot = "done" /\ UNCHANGED boot
      BY <1>4 DEF log_write, Running
  <2>4. PICK b \in Block, v \in Value : cache' = [cache EXCEPT ![b] = v]
      BY <1>4 DEF log_write
  <2> QED
      BY <2>1, <2>2, <2>3, <2>4 DEF Atomic!Write
<1>5. ASSUME NEW p \in Client, write_head(p) PROVE Atomic!Sync
  <2>1. Recovered' = cache
      BY <1>5, CommittedRecovered DEF write_head, DataInv, LogCopied
  <2>2. InCall = {} /\ InCall' = {}
      BY <1>5, InCallSame DEF write_head, Others, InCall, CtlInv, CommitAlone, Committing
  <2> QED
      BY <1>5, <2>1, <2>2 DEF write_head, Running, Atomic!Sync
<1>6. ASSUME NEW p \in Client, install_trans(p) PROVE [Atomic!Next]_(Atomic!vars)
  <2>1. Recovered' = Recovered
      BY <1>6, InstallKeeps DEF install_trans, DataInv, HeaderValid, CtlInv, TailValid
  <2>2. cache' = cache
    <3>1. tail \in 1 .. Len(lh) /\ lh[tail] \in Block /\ logd[tail] = cache[lh[tail]]
        BY <1>6 DEF install_trans, DataInv, LogCopied, CtlInv, TailValid, TypeOK
    <3> QED
        BY <1>6, <3>1 DEF install_trans, InstallBlock, CtlInv, TypeOK
  <2> QED
      BY <1>st, <1>6, <2>1, <2>2, InCallSame DEF install_trans, Others
<1>7. ASSUME NEW p \in Client, EraseLog(p) PROVE [Atomic!Next]_(Atomic!vars)
  <2>1. Recovered = disk
      BY <1>7, InstalledRecovered DEF EraseLog, DataInv, HeaderValid, Installed
  <2>2. Recovered' = disk
      BY <1>7, RecoveredIs, RecoverOfEmpty DEF EraseLog, CtlInv, TypeOK
  <2> QED
      BY <1>st, <1>7, <2>1, <2>2, InCallSame DEF EraseLog, Others
<1>8. ASSUME NEW p \in Client, write_log(p) PROVE [Atomic!Next]_(Atomic!vars)
  <2>1. hdr = <<>> /\ UNCHANGED <<hdr, disk>>
      BY <1>8 DEF write_log, Running, DataInv, HeaderValid, CtlInv, CommitAlone, Committing
  <2>2. Recovered = disk /\ Recovered' = disk
      BY <2>1, RecoveredIs, RecoverOfEmpty DEF CtlInv, TypeOK
  <2> QED
      BY <1>st, <1>8, <2>2, InCallSame DEF write_log, Others
<1>9. ASSUME NEW p \in Client,
             Call(p) \/ BeginSleep(p) \/ LogPanic(p) \/ CommitStart(p) \/ CommitDone(p)
      PROVE  [Atomic!Next]_(Atomic!vars)
  <2>1. UNCHANGED <<cache, boot, hdr, logd, disk>>
      BY <1>9 DEF Call, BeginSleep, LogPanic, CommitStart, CommitDone, diskVars
  <2> QED
      BY <1>st, <1>9, <2>1, InCallSame DEF Others, Recovered
<1>10. CASE Crash
  <2>1. Recovered' = Recovered
      BY <1>10 DEF Crash, diskVars, Recovered
  <2>2. Atomic!Crash
      BY <1>10, <2>1, InCallCrash DEF Crash, Atomic!Crash
  <2> QED
      BY <2>2 DEF Atomic!Next
<1>11. CASE read_head
  <2>1. Recovered' = Recovered
      BY <1>11 DEF read_head, diskVars, Recovered
  <2>2. boot # "done" /\ boot' # "done" /\ InCall' = InCall
      BY <1>11, InCallSame DEF read_head, Recover
  <2> QED
      BY <2>1, <2>2 DEF Atomic!vars
<1>12. CASE RecoverInstall
  <2>1. Recovered' = Recovered
      BY <1>12, InstallKeeps DEF RecoverInstall, DataInv, HeaderValid, CtlInv, TailValid
  <2>2. boot # "done" /\ boot' # "done" /\ InCall' = InCall
      BY <1>12, InCallSame DEF RecoverInstall, Recover
  <2> QED
      BY <2>1, <2>2 DEF Atomic!vars
<1>13. CASE RecoverClear
  <2>1. Recovered = disk /\ cache = disk
      BY <1>13, InstalledRecovered DEF RecoverClear, DataInv, HeaderValid, Installed, CacheBehind
  <2>2. Recovered' = disk
      BY <1>13, RecoveredIs, RecoverOfEmpty DEF RecoverClear, CtlInv, TypeOK
  <2>3. Atomic!Restart
      BY <1>13, <2>1, <2>2, InCallSame DEF RecoverClear, Recover, Atomic!Restart
  <2> QED
      BY <2>3 DEF Atomic!Next
<1>14. ASSUME NEW p \in Client, Others(p) PROVE [Atomic!Next]_(Atomic!vars)
    BY <1>14, <1>4, <1>5, <1>6, <1>7, <1>8, <1>9 DEF Others, Atomic!Next
<1> QED
    BY <1>1, <1>2, <1>3, <1>10, <1>11, <1>12, <1>13, <1>14, NextCases DEF Recover, Atomic!Next

\* Wherever the machine crashes, during a commit and during a recovery too: the
\* disk that begin_op(), log_write() and end_op() give to file system calls is
\* the atomic disk, whose durable image changes in one step and between calls.
THEOREM LogImplementsAtomicDisk == Spec => ImplementsAtomicDisk
<1>1. FullInv => LogInv
    BY DEF FullInv
<1> QED
    BY <1>1, LogInductive, RefineInit, RefineStep, PTL DEF Spec, Atomic!Spec, ImplementsAtomicDisk

-----------------------------------------------------------------------------
(* The inodes.                                                             *)

USE InodesAssumption

-----------------------------------------------------------------------------
(* Where a call is, and the pointers and locks that it has there.          *)

\* iput() is done on behalf of a call that then goes on.
Putting == {"put", "trunc", "freed", "unref"}
Stage(t) == IF t.pc \in Putting THEN t.then ELSE t.pc

HasAt == {"walk", "got", "parent", "exists", "create", "open", "dropdp", "unlink"}
HasIp == {"create", "dropip", "unlink", "unlinked", "linkbad"}

Request == (UNION {Requests[q] : q \in Proc}) \cup {NoCall}
Thread == [pc : Pc, req : Request, path : Seq(Name), at : Inode \cup {0},
           ip : Inode \cup {0}, drop : Inode \cup {0}, then : Pc]

\* A call at t, in a process whose current directory is c.
Shape(t, c) ==
  LET s == Stage(t)
      call == t.req.call IN
  /\ s \notin Putting
  /\ t.at # 0 <=> s \in HasAt
  /\ s \in HasIp => t.ip # 0
  /\ t.ip # 0 => s \in HasIp \/ (call = "link" /\ s \in {"walk", "parent"})
  /\ t.drop # 0 <=> t.pc \in Putting
  /\ s # "user" => c # 0
  /\ t.pc \in Putting => s \notin {"create", "unlink", "got", "parent"}
  /\ s \in {"parent", "create", "unlink"} => t.path # <<>>
  /\ s \in {"exists", "create"} => call \in ParentCall \ {"unlink"}
  /\ s \in {"unlink", "unlinked"} => call = "unlink"
  /\ s = "linkbad" => call = "link"
  /\ s = "dropip" => call \in {"mkdir", "mknod", "link"}
  /\ s = "parent" => call \in ParentCall \/ (call = "link" /\ t.ip # 0)
  /\ s = "got" => call \notin ParentCall
  /\ t.pc \in {"trunc", "freed"} => t.drop \notin {t.at, t.ip}

\* The inodes that it has locked.
Locks(t) ==
  (IF Stage(t) \in {"create", "unlink", "open", "dropdp"} THEN {t.at} ELSE {})
    \cup (IF Stage(t) = "unlinked" \/ (Stage(t) = "dropip" /\ t.req.call # "link")
          THEN {t.ip} ELSE {})
    \cup (IF t.pc \in {"trunc", "freed"} THEN {t.drop} ELSE {})

LockInv ==
  /\ \A p \in Proc, i \in Inode : itable[i].lock = p <=> i \in Locks(th[p])
  /\ \A i \in Inode : itable[i].lock # NoProc => itable[i].valid

CallInv ==
  /\ InodeTypeOK /\ th \in [Proc -> Thread] /\ LockInv
  /\ \A p \in Proc : Shape(th[p], cwd[p])
  /\ \A f \in File : file[f].ref = 0 <=> file[f].ip = 0
  /\ \A p \in Proc : cwd[p] = 0 => \A d \in Fd : ofile[p][d] = 0

-----------------------------------------------------------------------------
(* Allocation: nobody frees, or has just taken, an inode in use.           *)

Safe(i) ==
  /\ dinode[i].type # "none"
  /\ \A q \in Proc : th[q].pc = "trunc" => th[q].drop # i
  /\ \A q \in Proc : th[q].pc = "create" => th[q].ip # i

AllocInv ==
  /\ \A p \in Proc : /\ cwd[p] # 0 => Safe(cwd[p])
                     /\ th[p].at # 0 => Safe(th[p].at)
                     /\ th[p].ip # 0 /\ th[p].pc # "create" => Safe(th[p].ip)
                     /\ th[p].pc = "put" => Safe(th[p].drop)
  /\ \A f \in File : file[f].ip # 0 => Safe(file[f].ip)
  /\ \A p \in Proc : th[p].pc = "trunc" =>
       /\ dinode[th[p].drop].type # "none" /\ dinode[th[p].drop].nlink = 0
       /\ \A q \in Proc : th[q].pc = "create" => th[q].ip # th[p].drop
  /\ \A p \in Proc : th[p].pc = "create" =>
       /\ dinode[th[p].ip] = Dinode(NewType(p), 0) /\ dir[th[p].ip] = NoEntries
       /\ \A q \in Proc \ {p} : th[q].pc = "create" => th[q].ip # th[p].ip
  /\ \A i \in Inode : dinode[i].type = "none" => dinode[i].nlink = 0

\* The table is as the disk, but for an inode that iput() is about to leave: it
\* may be in use again.  An entry that is valid and referred to is of an inode
\* in use, so that ialloc() finds no stale entry.
CacheInv ==
  \A i \in Inode :
    itable[i].valid /\ (\A p \in Proc : th[p].pc = "freed" => th[p].drop # i) =>
      /\ Dinode(itable[i].type, itable[i].nlink) = dinode[i]
      /\ itable[i].ref > 0 => dinode[i].type # "none"

-----------------------------------------------------------------------------
(* Links.                                                                  *)

\* The inode whose link count has one link more than there are: link() has
\* counted the new name and not made it, unlink() has removed the name.
Owes(t) ==
  IF Stage(t) = "unlinked" \/ (t.req.call = "link" /\ Stage(t) # "dropip") THEN t.ip ELSE 0

Names(i) == Cardinality(NameEntries(i))
Parents(i) == Cardinality(Subdirs(i))
Owed(i) == Cardinality({p \in Proc : Owes(th[p]) = i})

LinkInv ==
  \A i \in Inode :
    dinode[i].nlink = Names(i) + Parents(i) + lost[i] + (IF i = ROOTINO THEN 1 ELSE 0) + Owed(i)

\* Only directories have entries; a directory has one name at most, in its
\* parent.
TreeInv ==
  /\ \A i \in Inode : dinode[i].type # "dir" => dir[i] = NoEntries
  /\ \A x, y \in Inode, n \in Name : dir[x][n] = y /\ dinode[y].type = "dir" =>
       /\ dir[y][".."] = x /\ y # ROOTINO
       /\ \A m \in Name : dir[x][m] = y => m = n

\* Names lead away from the root: no directory is below itself.
Below(rank) ==
  \A x, y \in Inode, n \in Name : dir[x][n] = y /\ dinode[y].type = "dir" => rank[y] < rank[x]
RankInv == \E rank \in [Inode -> Nat] : Below(rank)

\* What a call has found out about the parent is still so.
FoundInv ==
  \A p \in Proc :
    /\ Stage(th[p]) \in {"parent", "create", "unlink", "dropdp"} => dinode[th[p].at].type = "dir"
    /\ th[p].pc = "create" => dir[th[p].at][name(p)] = 0
    /\ th[p].pc = "unlink" => dir[th[p].at][name(p)] = th[p].ip
    /\ th[p].req.call = "link" /\ th[p].ip # 0 => dinode[th[p].ip].type # "dir"

\* The inductive invariant.
FsInv == CallInv /\ RefCounts /\ AllocInv /\ CacheInv /\ LinkInv /\ TreeInv /\ FoundInv /\ RankInv

-----------------------------------------------------------------------------
(* Counting.                                                               *)

One(x) == IF x THEN 1 ELSE 0

LEMMA FiniteTables == IsFiniteSet(Inode) /\ IsFiniteSet(File) /\ IsFiniteSet(Fd)
<1>1. NInode \in Int /\ NFILE \in Int /\ NOFILE - 1 \in Int
  BY InodesAssumption
<1>2. IsFiniteSet(1 .. NInode) /\ IsFiniteSet(1 .. NFILE) /\ IsFiniteSet(0 .. NOFILE - 1)
  BY <1>1, FS_Interval
<1> QED
  BY <1>2 DEF Inode, File, Fd

LEMMA FinitePart ==
  ASSUME NEW S, IsFiniteSet(S), NEW T, T \subseteq S
  PROVE  IsFiniteSet(T) /\ Cardinality(T) \in Nat
BY FS_Subset, FS_CardinalityType

\* Two sets that differ at most in p.
LEMMA CountMove ==
  ASSUME NEW S, IsFiniteSet(S), NEW A \in SUBSET S, NEW B \in SUBSET S, NEW p \in S,
         \A q \in S \ {p} : q \in A <=> q \in B
  PROVE  /\ Cardinality(A) \in Nat /\ Cardinality(B) \in Nat
         /\ Cardinality(B) + (IF p \in A THEN 1 ELSE 0) = Cardinality(A) + (IF p \in B THEN 1 ELSE 0)
<1> DEFINE T == A \ {p}
<1>1. IsFiniteSet(T) /\ Cardinality(T) \in Nat /\ p \notin T
  BY FinitePart
<1>2. A = (IF p \in A THEN T \cup {p} ELSE T) /\ B = (IF p \in B THEN T \cup {p} ELSE T)
  OBVIOUS
<1>3. IsFiniteSet(T \cup {p}) /\ Cardinality(T \cup {p}) = Cardinality(T) + 1
  BY <1>1, FS_AddElement
<1> HIDE DEF T
<1>4. Cardinality(A) = Cardinality(T) + (IF p \in A THEN 1 ELSE 0)
  <2>1. CASE p \in A
    BY <1>2, <1>3, <2>1
  <2>2. CASE p \notin A
    BY <1>1, <1>2, <2>2
  <2> QED
    BY <2>1, <2>2
<1>5. Cardinality(B) = Cardinality(T) + (IF p \in B THEN 1 ELSE 0)
  <2>1. CASE p \in B
    BY <1>2, <1>3, <2>1
  <2>2. CASE p \notin B
    BY <1>1, <1>2, <2>2
  <2> QED
    BY <2>1, <2>2
<1> QED
  BY <1>1, <1>4, <1>5

LEMMA CountOne ==
  ASSUME NEW S, IsFiniteSet(S), NEW x \in S
  PROVE  Cardinality(S) \in Nat /\ Cardinality(S) >= 1
BY FS_CardinalityType, FS_EmptySet

LEMMA CountNone ==
  ASSUME NEW S, IsFiniteSet(S), Cardinality(S) = 0
  PROVE  S = {}
BY FS_EmptySet

-----------------------------------------------------------------------------
(* Types, and what the table's operations do.                              *)

Table == [Inode -> [ref : Nat, valid : BOOLEAN, lock : Proc \cup {NoProc}, type : Type, nlink : Nat]]
Disk == [Inode -> [type : Type, nlink : Nat]]
Entries == [Inode -> [Entry -> Inode \cup {0}]]

LEMMA Before ==
  ASSUME FsInv
  PROVE  /\ dinode \in Disk /\ dir \in Entries /\ itable \in Table
         /\ file \in [File -> [ref : Nat, ip : Inode \cup {0}]]
         /\ ofile \in [Proc -> [Fd -> File \cup {0}]]
         /\ cwd \in [Proc -> Inode \cup {0}] /\ th \in [Proc -> Thread] /\ lost \in [Inode -> Nat]
BY DEF FsInv, CallInv, InodeTypeOK, Disk, Entries, Table

LEMMA RootIs == ROOTINO \in Inode /\ 0 \notin Inode
BY DEF ROOTINO, Inode

\* iget() gives one reference more.
LEMMA IgetIs ==
  ASSUME NEW tab \in Table, NEW i \in Inode
  PROVE  /\ iget(tab, i) \in Table
         /\ iget(tab, i)[i].ref = tab[i].ref + 1
         /\ iget(tab, i)[i].valid => tab[i].valid /\ tab[i].ref > 0
         /\ tab[i].valid /\ tab[i].ref > 0 => iget(tab, i)[i].valid
         /\ iget(tab, i)[i].lock = tab[i].lock /\ iget(tab, i)[i].type = tab[i].type
         /\ iget(tab, i)[i].nlink = tab[i].nlink
         /\ \A j \in Inode \ {i} : iget(tab, i)[j] = tab[j]
<1> DEFINE T == [ref : Nat, valid : BOOLEAN, lock : Proc \cup {NoProc}, type : Type, nlink : Nat]
           v == tab[i].valid /\ tab[i].ref > 0
           e == [tab[i] EXCEPT !.ref = @ + 1, !.valid = v]
<1>1. tab \in [Inode -> T] /\ tab[i] \in T
  BY DEF Table
<1>2. iget(tab, i) = [tab EXCEPT ![i] = e]
  BY <1>1 DEF iget
<1>3. v \in BOOLEAN /\ tab[i].ref + 1 \in Nat
  BY <1>1
<1> HIDE DEF v
<1>4. ASSUME NEW r \in T, NEW a \in Nat, NEW b \in BOOLEAN
      PROVE  LET f == [r EXCEPT !.ref = a, !.valid = b] IN
             /\ f \in T /\ f.ref = a /\ f.valid = b
             /\ f.lock = r.lock /\ f.type = r.type /\ f.nlink = r.nlink
  OBVIOUS
<1>5. /\ e \in T /\ e.ref = tab[i].ref + 1 /\ e.valid = v
      /\ e.lock = tab[i].lock /\ e.type = tab[i].type /\ e.nlink = tab[i].nlink
  BY <1>1, <1>3, <1>4
<1> HIDE DEF e, T
<1>6. iget(tab, i) \in [Inode -> T] /\ iget(tab, i)[i] = e /\ \A j \in Inode \ {i} : iget(tab, i)[j] = tab[j]
  BY <1>1, <1>2, <1>5
<1> QED
  BY <1>5, <1>6 DEF Table, T, v

LEMMA IlockIs ==
  ASSUME FsInv, NEW i \in Inode
  PROVE  /\ ilock(i) \in [ref : Nat, valid : BOOLEAN, lock : Proc \cup {NoProc}, type : Type, nlink : Nat]
         /\ ilock(i).ref = itable[i].ref /\ ilock(i).lock = itable[i].lock /\ ilock(i).valid
         /\ (itable[i].valid => ilock(i) = itable[i])
         /\ (~ itable[i].valid => Dinode(ilock(i).type, ilock(i).nlink) = dinode[i])
<1>1. /\ itable[i] \in [ref : Nat, valid : BOOLEAN, lock : Proc \cup {NoProc}, type : Type, nlink : Nat]
      /\ dinode[i] \in [type : Type, nlink : Nat]
  BY Before DEF Table, Disk
<1>2. CASE itable[i].valid
  BY <1>1, <1>2 DEF ilock
<1>3. CASE ~ itable[i].valid
  BY <1>1, <1>3 DEF ilock, Dinode
<1> QED
  BY <1>2, <1>3

\* ilock() waits for the lock; then it sees what is on the disk.
LEMMA IlockCurrent ==
  ASSUME FsInv, NEW i \in Inode, Unlocked(i) \/ \E p \in Proc : itable[i].lock = p /\ th[p].pc # "freed"
  PROVE  Dinode(ilock(i).type, ilock(i).nlink) = dinode[i]
<1>1. \A p \in Proc : th[p].pc = "freed" => th[p].drop # i
  <2> SUFFICES ASSUME NEW p \in Proc, th[p].pc = "freed", th[p].drop = i PROVE FALSE
    OBVIOUS
  <2>1. itable[i].lock = p
    BY DEF FsInv, CallInv, LockInv, Locks
  <2> QED
    BY <2>1 DEF Unlocked
<1> QED
  BY <1>1, IlockIs DEF FsInv, CacheInv

LEMMA DiskIs ==
  ASSUME FsInv, NEW i \in Inode, NEW a, NEW b, Dinode(a, b) = dinode[i]
  PROVE  a = dinode[i].type /\ b = dinode[i].nlink
BY DEF Dinode

-----------------------------------------------------------------------------
(* The references to an inode.                                             *)

\* The pointers of a call at t and of a process in c.
Mine(t, c, i) == One(c = i) + One(t.at = i) + One(t.ip = i) + One(t.drop = i)

FilesWith(i) == Cardinality({f \in File : file[f].ip = i})

LEMMA PointerTypes ==
  ASSUME FsInv, NEW i
  PROVE  /\ FilesWith(i) \in Nat
         /\ Cardinality({q \in Proc : cwd[q] = i}) \in Nat
         /\ Cardinality({q \in Proc : th[q].at = i}) \in Nat
         /\ Cardinality({q \in Proc : th[q].ip = i}) \in Nat
         /\ Cardinality({q \in Proc : th[q].drop = i}) \in Nat
BY FinitePart, FiniteTables DEF FilesWith

LEMMA PointersMove ==
  ASSUME FsInv, NEW p \in Proc, NEW t, NEW c, NEW i, th'[p] = t, cwd'[p] = c,
         \A q \in Proc \ {p} : th'[q] = th[q] /\ cwd'[q] = cwd[q]
  PROVE  /\ Pointers(i) \in Nat /\ Pointers(i)' \in Int
         /\ FilesWith(i) \in Nat /\ FilesWith(i)' \in Nat
         /\ Pointers(i)' + Mine(th[p], cwd[p], i) + FilesWith(i)
              = Pointers(i) + Mine(t, c, i) + FilesWith(i)'
<1>2. th'[p] = t /\ cwd'[p] = c /\ \A q \in Proc \ {p} : th'[q] = th[q] /\ cwd'[q] = cwd[q]
  OBVIOUS
<1>3. /\ Cardinality({q \in Proc : cwd[q] = i}) \in Nat /\ Cardinality({q \in Proc : cwd'[q] = i}) \in Nat
      /\ Cardinality({q \in Proc : cwd'[q] = i}) + One(cwd[p] = i)
           = Cardinality({q \in Proc : cwd[q] = i}) + One(c = i)
  <2> DEFINE A == {q \in Proc : cwd[q] = i}
             B == {q \in Proc : cwd'[q] = i}
  <2>1. /\ A \in SUBSET Proc /\ B \in SUBSET Proc /\ \A q \in Proc \ {p} : q \in A <=> q \in B
        /\ (p \in A <=> cwd[p] = i) /\ (p \in B <=> c = i)
    BY <1>2
  <2> HIDE DEF A, B
  <2>2. /\ Cardinality(A) \in Nat /\ Cardinality(B) \in Nat
        /\ Cardinality(B) + (IF p \in A THEN 1 ELSE 0) = Cardinality(A) + (IF p \in B THEN 1 ELSE 0)
    BY <2>1, CountMove
  <2>3. /\ Cardinality(A) \in Nat /\ Cardinality(B) \in Nat
        /\ Cardinality(B) + One(cwd[p] = i) = Cardinality(A) + One(c = i)
    BY <2>1, <2>2 DEF One
  <2> QED
    BY <2>3 DEF A, B
<1>4. /\ Cardinality({q \in Proc : th[q].at = i}) \in Nat /\ Cardinality({q \in Proc : th'[q].at = i}) \in Nat
      /\ Cardinality({q \in Proc : th'[q].at = i}) + One(th[p].at = i)
           = Cardinality({q \in Proc : th[q].at = i}) + One(t.at = i)
  <2> DEFINE A == {q \in Proc : th[q].at = i}
             B == {q \in Proc : th'[q].at = i}
  <2>1. /\ A \in SUBSET Proc /\ B \in SUBSET Proc /\ \A q \in Proc \ {p} : q \in A <=> q \in B
        /\ (p \in A <=> th[p].at = i) /\ (p \in B <=> t.at = i)
    BY <1>2
  <2> HIDE DEF A, B
  <2>2. /\ Cardinality(A) \in Nat /\ Cardinality(B) \in Nat
        /\ Cardinality(B) + (IF p \in A THEN 1 ELSE 0) = Cardinality(A) + (IF p \in B THEN 1 ELSE 0)
    BY <2>1, CountMove
  <2>3. /\ Cardinality(A) \in Nat /\ Cardinality(B) \in Nat
        /\ Cardinality(B) + One(th[p].at = i) = Cardinality(A) + One(t.at = i)
    BY <2>1, <2>2 DEF One
  <2> QED
    BY <2>3 DEF A, B
<1>5. /\ Cardinality({q \in Proc : th[q].ip = i}) \in Nat /\ Cardinality({q \in Proc : th'[q].ip = i}) \in Nat
      /\ Cardinality({q \in Proc : th'[q].ip = i}) + One(th[p].ip = i)
           = Cardinality({q \in Proc : th[q].ip = i}) + One(t.ip = i)
  <2> DEFINE A == {q \in Proc : th[q].ip = i}
             B == {q \in Proc : th'[q].ip = i}
  <2>1. /\ A \in SUBSET Proc /\ B \in SUBSET Proc /\ \A q \in Proc \ {p} : q \in A <=> q \in B
        /\ (p \in A <=> th[p].ip = i) /\ (p \in B <=> t.ip = i)
    BY <1>2
  <2> HIDE DEF A, B
  <2>2. /\ Cardinality(A) \in Nat /\ Cardinality(B) \in Nat
        /\ Cardinality(B) + (IF p \in A THEN 1 ELSE 0) = Cardinality(A) + (IF p \in B THEN 1 ELSE 0)
    BY <2>1, CountMove
  <2>3. /\ Cardinality(A) \in Nat /\ Cardinality(B) \in Nat
        /\ Cardinality(B) + One(th[p].ip = i) = Cardinality(A) + One(t.ip = i)
    BY <2>1, <2>2 DEF One
  <2> QED
    BY <2>3 DEF A, B
<1>6. /\ Cardinality({q \in Proc : th[q].drop = i}) \in Nat /\ Cardinality({q \in Proc : th'[q].drop = i}) \in Nat
      /\ Cardinality({q \in Proc : th'[q].drop = i}) + One(th[p].drop = i)
           = Cardinality({q \in Proc : th[q].drop = i}) + One(t.drop = i)
  <2> DEFINE A == {q \in Proc : th[q].drop = i}
             B == {q \in Proc : th'[q].drop = i}
  <2>1. /\ A \in SUBSET Proc /\ B \in SUBSET Proc /\ \A q \in Proc \ {p} : q \in A <=> q \in B
        /\ (p \in A <=> th[p].drop = i) /\ (p \in B <=> t.drop = i)
    BY <1>2
  <2> HIDE DEF A, B
  <2>2. /\ Cardinality(A) \in Nat /\ Cardinality(B) \in Nat
        /\ Cardinality(B) + (IF p \in A THEN 1 ELSE 0) = Cardinality(A) + (IF p \in B THEN 1 ELSE 0)
    BY <2>1, CountMove
  <2>3. /\ Cardinality(A) \in Nat /\ Cardinality(B) \in Nat
        /\ Cardinality(B) + One(th[p].drop = i) = Cardinality(A) + One(t.drop = i)
    BY <2>1, <2>2 DEF One
  <2> QED
    BY <2>3 DEF A, B
<1>7. /\ FilesWith(i) \in Nat /\ FilesWith(i)' \in Nat
      /\ Pointers(i) = Cardinality({q \in Proc : cwd[q] = i}) + FilesWith(i)
           + Cardinality({q \in Proc : th[q].at = i}) + Cardinality({q \in Proc : th[q].ip = i})
           + Cardinality({q \in Proc : th[q].drop = i})
      /\ Pointers(i)' = Cardinality({q \in Proc : cwd'[q] = i}) + FilesWith(i)'
           + Cardinality({q \in Proc : th'[q].at = i}) + Cardinality({q \in Proc : th'[q].ip = i})
           + Cardinality({q \in Proc : th'[q].drop = i})
  BY FinitePart, FiniteTables DEF Pointers, FilesWith
<1> QED
  BY <1>3, <1>4, <1>5, <1>6, <1>7 DEF Mine, One

LEMMA RefStep ==
  ASSUME FsInv, NEW p \in Proc, NEW t, NEW c, th'[p] = t, cwd'[p] = c,
         \A q \in Proc \ {p} : th'[q] = th[q] /\ cwd'[q] = cwd[q],
         \A f \in File :
           file'[f].ref = Cardinality({x \in Proc \X Fd : ofile'[x[1]][x[2]] = f}),
         itable' \in Table,
         \A i \in Inode : itable'[i].ref + Mine(th[p], cwd[p], i) + FilesWith(i)
                            = itable[i].ref + Mine(t, c, i) + FilesWith(i)'
  PROVE  RefCounts'
<1>1. ASSUME NEW i \in Inode PROVE itable'[i].ref = Pointers(i)'
  <2>1. /\ Pointers(i) \in Nat /\ Pointers(i)' \in Int /\ FilesWith(i) \in Nat /\ FilesWith(i)' \in Nat
        /\ Pointers(i)' + Mine(th[p], cwd[p], i) + FilesWith(i)
             = Pointers(i) + Mine(t, c, i) + FilesWith(i)'
    BY PointersMove
  <2>2. itable[i].ref = Pointers(i)
    BY DEF FsInv, RefCounts
  <2>3. itable'[i].ref \in Nat
    BY DEF Table
  <2>4. Mine(th[p], cwd[p], i) \in Nat /\ Mine(t, c, i) \in Nat
    BY DEF Mine, One
  <2>5. itable'[i].ref + Mine(th[p], cwd[p], i) + FilesWith(i)
          = itable[i].ref + Mine(t, c, i) + FilesWith(i)'
    OBVIOUS
  <2> QED
    BY <2>1, <2>2, <2>3, <2>4, <2>5
<1> QED
  BY <1>1 DEF RefCounts

\* Whoever has a pointer is counted.
LEMMA RefHeld ==
  ASSUME FsInv, NEW i \in Inode, NEW p \in Proc,
         cwd[p] = i \/ th[p].at = i \/ th[p].ip = i \/ th[p].drop = i
  PROVE  itable[i].ref \in Nat /\ itable[i].ref >= 1
<1>1. itable[i].ref = Pointers(i)
  BY DEF FsInv, RefCounts
<1>2. /\ cwd[p] = i => Cardinality({q \in Proc : cwd[q] = i}) >= 1
      /\ th[p].at = i => Cardinality({q \in Proc : th[q].at = i}) >= 1
      /\ th[p].ip = i => Cardinality({q \in Proc : th[q].ip = i}) >= 1
      /\ th[p].drop = i => Cardinality({q \in Proc : th[q].drop = i}) >= 1
  <2>1. ASSUME cwd[p] = i PROVE Cardinality({q \in Proc : cwd[q] = i}) >= 1
    BY <2>1, FinitePart, CountOne
  <2>2. ASSUME th[p].at = i PROVE Cardinality({q \in Proc : th[q].at = i}) >= 1
    BY <2>2, FinitePart, CountOne
  <2>3. ASSUME th[p].ip = i PROVE Cardinality({q \in Proc : th[q].ip = i}) >= 1
    BY <2>3, FinitePart, CountOne
  <2>4. ASSUME th[p].drop = i PROVE Cardinality({q \in Proc : th[q].drop = i}) >= 1
    BY <2>4, FinitePart, CountOne
  <2> QED
    BY <2>1, <2>2, <2>3, <2>4
<1> DEFINE C == Cardinality({q \in Proc : cwd[q] = i})
           A == Cardinality({q \in Proc : th[q].at = i})
           I == Cardinality({q \in Proc : th[q].ip = i})
           D == Cardinality({q \in Proc : th[q].drop = i})
<1>3. /\ Pointers(i) = C + FilesWith(i) + A + I + D
      /\ C \in Nat /\ A \in Nat /\ I \in Nat /\ D \in Nat /\ FilesWith(i) \in Nat
  BY PointerTypes DEF Pointers, FilesWith
<1> HIDE DEF C, A, I, D
<1>4. Pointers(i) \in Nat /\ Pointers(i) >= 1
  BY <1>2, <1>3 DEF C, A, I, D
<1> QED
  BY <1>1, <1>4

LEMMA RefFile ==
  ASSUME FsInv, NEW i \in Inode, NEW f \in File, file[f].ip = i
  PROVE  itable[i].ref \in Nat /\ itable[i].ref >= 1
<1>1. itable[i].ref = Pointers(i)
  BY DEF FsInv, RefCounts
<1>2. FilesWith(i) >= 1
  BY FiniteTables, FinitePart, CountOne DEF FilesWith
<1> DEFINE C == Cardinality({q \in Proc : cwd[q] = i})
           A == Cardinality({q \in Proc : th[q].at = i})
           I == Cardinality({q \in Proc : th[q].ip = i})
           D == Cardinality({q \in Proc : th[q].drop = i})
<1>3. /\ Pointers(i) = C + FilesWith(i) + A + I + D
      /\ C \in Nat /\ A \in Nat /\ I \in Nat /\ D \in Nat /\ FilesWith(i) \in Nat
  BY PointerTypes DEF Pointers, FilesWith
<1> HIDE DEF C, A, I, D
<1>4. Pointers(i) \in Nat /\ Pointers(i) >= 1
  BY <1>2, <1>3 DEF C, A, I, D
<1> QED
  BY <1>1, <1>4

\* The last reference is the only pointer.
LEMMA RefAlone ==
  ASSUME FsInv, NEW i \in Inode, NEW p \in Proc, th[p].drop = i, itable[i].ref = 1
  PROVE  /\ \A q \in Proc : cwd[q] # i /\ th[q].at # i /\ th[q].ip # i
         /\ \A q \in Proc \ {p} : th[q].drop # i
         /\ \A f \in File : file[f].ip # i
<1> DEFINE C == {q \in Proc : cwd[q] = i}
           A == {q \in Proc : th[q].at = i}
           I == {q \in Proc : th[q].ip = i}
           D == {q \in Proc : th[q].drop = i}
           F == {f \in File : file[f].ip = i}
<1>1. IsFiniteSet(C) /\ IsFiniteSet(A) /\ IsFiniteSet(I) /\ IsFiniteSet(D) /\ IsFiniteSet(F)
  BY FiniteTables, FinitePart
<1>2. p \in D
  OBVIOUS
<1>3. Cardinality(C) + Cardinality(F) + Cardinality(A) + Cardinality(I) + Cardinality(D) = 1
  BY DEF FsInv, RefCounts, Pointers
<1> HIDE DEF C, A, I, D, F
<1>4. /\ Cardinality(C) \in Nat /\ Cardinality(F) \in Nat /\ Cardinality(A) \in Nat
      /\ Cardinality(I) \in Nat /\ Cardinality(D) \in Nat /\ Cardinality(D) >= 1
  BY <1>1, <1>2, FS_CardinalityType, CountOne
<1>5. /\ Cardinality(C) = 0 /\ Cardinality(F) = 0 /\ Cardinality(A) = 0 /\ Cardinality(I) = 0
      /\ Cardinality(D) = 1
  BY <1>3, <1>4
<1>6. C = {} /\ F = {} /\ A = {} /\ I = {}
  BY <1>1, <1>5, CountNone
<1>7. D = {p}
  BY <1>1, <1>2, <1>5, FS_Singleton
<1> QED
  BY <1>6, <1>7 DEF C, A, I, D, F

-----------------------------------------------------------------------------
(* A step of p takes its call to t and its current directory to c.         *)

Moves(p, t, c) ==
  /\ t \in Thread /\ c \in Inode \cup {0} /\ Shape(t, c)
  /\ th' = [th EXCEPT ![p] = t] /\ cwd' = [cwd EXCEPT ![p] = c]

\* The locks go with it.
Relocks(p, t) ==
  \A i \in Inode :
    /\ i \in Locks(t) => /\ itable[i].lock \in {p, NoProc} /\ itable'[i].lock = p
                         /\ itable'[i].valid
    /\ i \notin Locks(t) => itable'[i].lock = IF itable[i].lock = p THEN NoProc ELSE itable[i].lock
    /\ itable[i].lock \notin {p, NoProc} => itable'[i].valid

LEMMA MovesTo ==
  ASSUME FsInv, NEW p \in Proc, NEW t, NEW c, Moves(p, t, c)
  PROVE  /\ th' \in [Proc -> Thread] /\ th'[p] = t /\ cwd' \in [Proc -> Inode \cup {0}] /\ cwd'[p] = c
         /\ \A q \in Proc \ {p} : th'[q] = th[q] /\ cwd'[q] = cwd[q]
BY Before DEF Moves

LEMMA ThreadTypes ==
  [Proc -> Thread] \subseteq
    [Proc -> [pc : Pc, req : (UNION {Requests[q] : q \in Proc}) \cup {NoCall},
              path : Seq(Entry \cup {"/"}),
              at : Inode \cup {0}, ip : Inode \cup {0}, drop : Inode \cup {0},
              then : Pc]]
<1>1. Seq(Name) \subseteq Seq(Entry \cup {"/"})
  BY DEF Entry
<1> QED
  BY <1>1 DEF Thread, Request

LEMMA CallStep ==
  ASSUME FsInv, NEW p \in Proc, NEW t, NEW c, Moves(p, t, c), Relocks(p, t),
         itable' \in Table, dinode' \in Disk, dir' \in Entries, lost' \in [Inode -> Nat],
         file' \in [File -> [ref : Nat, ip : Inode \cup {0}]],
         ofile' \in [Proc -> [Fd -> File \cup {0}]],
         \A f \in File : file'[f].ref = 0 <=> file'[f].ip = 0,
         \A q \in Proc : cwd'[q] = 0 => \A d \in Fd : ofile'[q][d] = 0
  PROVE  CallInv'
<1>1. /\ th' \in [Proc -> Thread] /\ th'[p] = t /\ cwd' \in [Proc -> Inode \cup {0}] /\ cwd'[p] = c
      /\ \A q \in Proc \ {p} : th'[q] = th[q] /\ cwd'[q] = cwd[q]
  BY MovesTo
<1>2. InodeTypeOK'
  BY <1>1, Before, ThreadTypes DEF InodeTypeOK, Disk, Entries, Table
<1>3. LockInv'
  <2>1. ASSUME NEW i \in Inode PROVE itable'[i].lock = p <=> i \in Locks(t)
    BY DEF Relocks
  <2>2. ASSUME NEW i \in Inode, NEW q \in Proc \ {p}
        PROVE  itable'[i].lock = q <=> i \in Locks(th[q])
    <3>1. itable[i].lock = q <=> i \in Locks(th[q])
      BY DEF FsInv, CallInv, LockInv
    <3>2. itable'[i].lock = q <=> itable[i].lock = q
      BY DEF Relocks
    <3> QED
      BY <3>1, <3>2
  <2>3. ASSUME NEW i \in Inode, itable'[i].lock # NoProc PROVE itable'[i].valid
    BY <2>3 DEF Relocks
  <2> QED
    BY <1>1, <2>1, <2>2, <2>3 DEF LockInv
<1>4. \A q \in Proc : Shape(th'[q], cwd'[q])
  BY <1>1 DEF Moves, FsInv, CallInv
<1> QED
  BY <1>1, <1>2, <1>3, <1>4 DEF CallInv

\* The open files stay as they are.
LEMMA FilesSame ==
  ASSUME FsInv, NEW p \in Proc, NEW t, NEW c, Moves(p, t, c), file' = file, ofile' = ofile,
         c = 0 => \A d \in Fd : ofile[p][d] = 0
  PROVE  /\ file' \in [File -> [ref : Nat, ip : Inode \cup {0}]]
         /\ ofile' \in [Proc -> [Fd -> File \cup {0}]]
         /\ \A f \in File : file'[f].ref = 0 <=> file'[f].ip = 0
         /\ \A q \in Proc : cwd'[q] = 0 => \A d \in Fd : ofile'[q][d] = 0
         /\ \A f \in File :
              file'[f].ref = Cardinality({x \in Proc \X Fd : ofile'[x[1]][x[2]] = f})
         /\ \A i : FilesWith(i)' = FilesWith(i) /\ FilesWith(i) \in Nat
<1>1. /\ cwd'[p] = c /\ \A q \in Proc \ {p} : cwd'[q] = cwd[q]
  BY MovesTo
<1>2. \A q \in Proc : cwd'[q] = 0 => \A d \in Fd : ofile'[q][d] = 0
  BY <1>1 DEF FsInv, CallInv
<1>3. \A f \in File : file'[f].ref = 0 <=> file'[f].ip = 0
  BY DEF FsInv, CallInv
<1>4. \A f \in File :
        file'[f].ref = Cardinality({x \in Proc \X Fd : ofile'[x[1]][x[2]] = f})
  BY DEF FsInv, RefCounts
<1>5. \A i : FilesWith(i)' = FilesWith(i)
  BY DEF FilesWith
<1>6. \A i : FilesWith(i) \in Nat
  BY PointerTypes
<1> QED
  BY <1>2, <1>3, <1>4, <1>5, <1>6, Before

-----------------------------------------------------------------------------
(* Steps that change neither the disk nor a directory.                     *)

\* All that a call at t, in c, points to is in use.
SafeAt(t, c) ==
  /\ c # 0 => Safe(c)
  /\ t.at # 0 => Safe(t.at)
  /\ t.ip # 0 /\ t.pc # "create" => Safe(t.ip)
  /\ t.pc = "put" => Safe(t.drop)

FoundAt(t) ==
  /\ Stage(t) \in {"parent", "create", "unlink", "dropdp"} => dinode[t.at].type = "dir"
  /\ t.pc = "create" => dir[t.at][Head(t.path)] = 0
  /\ t.pc = "unlink" => dir[t.at][Head(t.path)] = t.ip
  /\ t.req.call = "link" /\ t.ip # 0 => dinode[t.ip].type # "dir"

\* Entry i is current if it is valid.
CurrentAt(p, i) ==
  itable'[i].valid =>
    \/ /\ Dinode(itable'[i].type, itable'[i].nlink) = dinode'[i]
       /\ dinode'[i].type # "none"
    \/ /\ itable[i].valid /\ itable'[i].type = itable[i].type /\ itable'[i].nlink = itable[i].nlink
       /\ itable'[i].ref > 0 => itable[i].ref > 0
       /\ dinode'[i] = dinode[i] /\ ~ (th[p].pc = "freed" /\ th[p].drop = i)

LEMMA StillSafe ==
  ASSUME FsInv, NEW p \in Proc
  PROVE  SafeAt(th[p], cwd[p]) /\ FoundAt(th[p]) /\ \A f \in File : file[f].ip # 0 => Safe(file[f].ip)
BY DEF FsInv, AllocInv, FoundInv, SafeAt, FoundAt, name

LEMMA CacheStep ==
  ASSUME FsInv, NEW p \in Proc, NEW t, NEW c, Moves(p, t, c), t.pc # "freed",
         \A i \in Inode : CurrentAt(p, i)
  PROVE  CacheInv'
<1>1. th'[p] = t /\ \A q \in Proc \ {p} : th'[q] = th[q]
  BY MovesTo
<1> SUFFICES ASSUME NEW i \in Inode, itable'[i].valid,
                    \A q \in Proc : th'[q].pc = "freed" => th'[q].drop # i
             PROVE  /\ Dinode(itable'[i].type, itable'[i].nlink) = dinode'[i]
                    /\ itable'[i].ref > 0 => dinode'[i].type # "none"
  BY DEF CacheInv
<1>2. CASE Dinode(itable'[i].type, itable'[i].nlink) = dinode'[i] /\ dinode'[i].type # "none"
  BY <1>2
<1>3. CASE /\ itable[i].valid /\ itable'[i].type = itable[i].type /\ itable'[i].nlink = itable[i].nlink
           /\ itable'[i].ref > 0 => itable[i].ref > 0
           /\ dinode'[i] = dinode[i] /\ ~ (th[p].pc = "freed" /\ th[p].drop = i)
  <2>1. \A q \in Proc : th[q].pc = "freed" => th[q].drop # i
    BY <1>1, <1>3
  <2> QED
    BY <1>3, <2>1 DEF FsInv, CacheInv
<1> QED
  BY <1>2, <1>3 DEF CurrentAt

LEMMA OwesSame ==
  ASSUME FsInv, NEW p \in Proc, NEW t, NEW c, Moves(p, t, c), Owes(t) = Owes(th[p]), NEW i
  PROVE  {q \in Proc : Owes(th'[q]) = i} = {q \in Proc : Owes(th[q]) = i}
BY MovesTo

LEMMA SafeStep ==
  ASSUME FsInv, NEW p \in Proc, NEW t, NEW c, Moves(p, t, c), t.pc \notin {"trunc", "create"},
         NEW k, dinode'[k].type = dinode[k].type, Safe(k)
  PROVE  Safe(k)'
BY MovesTo DEF Safe

\* The disk changes only where it is in use.
LEMMA AllocKept ==
  ASSUME FsInv, NEW p \in Proc, NEW t, NEW c, Moves(p, t, c),
         t.pc \notin {"trunc", "create"}, th[p].pc # "trunc",
         \A k \in Inode : dinode'[k].type = dinode[k].type,
         \A k \in Inode : Safe(k) \/ (th[p].pc = "create" /\ th[p].ip = k)
                           \/ (dinode'[k] = dinode[k] /\ dir'[k] = dir[k]),
         \A k \in Inode : dinode'[k].type = "none" => dinode'[k].nlink = 0,
         SafeAt(th[p], cwd[p])', \A f \in File : (file[f].ip # 0 => Safe(file[f].ip))'
  PROVE  AllocInv'
<1>1. /\ th'[p] = t /\ cwd'[p] = c
      /\ \A q \in Proc \ {p} : th'[q] = th[q] /\ cwd'[q] = cwd[q]
      /\ th' \in [Proc -> Thread] /\ cwd' \in [Proc -> Inode \cup {0}]
  BY MovesTo
<1>2. \A k \in Inode : Safe(k) => Safe(k)'
  BY SafeStep
<1>3. \A q \in Proc : Shape(th[q], cwd[q]) /\ th[q] \in Thread /\ cwd[q] \in Inode \cup {0}
  BY Before DEF FsInv, CallInv
<1>4. ASSUME NEW q \in Proc
      PROVE  /\ (cwd[q] # 0 => Safe(cwd[q]))'
             /\ (th[q].at # 0 => Safe(th[q].at))'
             /\ (th[q].ip # 0 /\ th[q].pc # "create" => Safe(th[q].ip))'
             /\ (th[q].pc = "put" => Safe(th[q].drop))'
  <2>1. CASE q = p
    BY <1>1, <2>1 DEF SafeAt
  <2>2. CASE q # p
    <3>1. th'[q] = th[q] /\ cwd'[q] = cwd[q]
      BY <1>1, <2>2
    <3>2. SafeAt(th[q], cwd[q])
      BY StillSafe
    <3>3. /\ cwd'[q] # 0 => Safe(cwd'[q]) /\ cwd'[q] \in Inode
          /\ th'[q].at # 0 => Safe(th'[q].at) /\ th'[q].at \in Inode
          /\ th'[q].ip # 0 /\ th'[q].pc # "create" => Safe(th'[q].ip) /\ th'[q].ip \in Inode
          /\ th'[q].pc = "put" => Safe(th'[q].drop) /\ th'[q].drop \in Inode
      BY <1>3, <3>1, <3>2 DEF SafeAt, Thread, Shape, Putting
    <3> QED
      BY <1>2, <3>3
  <2> QED
    BY <2>1, <2>2
<1>5. ASSUME NEW q \in Proc, th'[q].pc = "trunc"
      PROVE  /\ dinode'[th'[q].drop].type # "none" /\ dinode'[th'[q].drop].nlink = 0
             /\ \A r \in Proc : th'[r].pc = "create" => th'[r].ip # th'[q].drop
  <2>1. q # p /\ th'[q] = th[q] /\ th[q].pc = "trunc"
    BY <1>1, <1>5
  <2>2. th[q].drop \in Inode
    BY <1>3, <2>1 DEF Thread, Shape, Putting
  <2>3. /\ dinode[th[q].drop].type # "none" /\ dinode[th[q].drop].nlink = 0
        /\ \A r \in Proc : th[r].pc = "create" => th[r].ip # th[q].drop
    BY <2>1 DEF FsInv, AllocInv
  <2>4. ~ Safe(th[q].drop)
    BY <2>1 DEF Safe
  <2>5. dinode'[th[q].drop] = dinode[th[q].drop]
    BY <2>2, <2>3, <2>4
  <2> QED
    BY <1>1, <2>1, <2>3, <2>5
<1>6. ASSUME NEW q \in Proc, th'[q].pc = "create"
      PROVE  /\ dinode'[th'[q].ip] = Dinode(NewType(q)', 0) /\ dir'[th'[q].ip] = NoEntries
             /\ \A r \in Proc \ {q} : th'[r].pc = "create" => th'[r].ip # th'[q].ip
  <2>1. q # p /\ th'[q] = th[q] /\ th[q].pc = "create"
    BY <1>1, <1>6
  <2>2. NewType(q)' = NewType(q)
    BY <2>1 DEF NewType
  <2>3. th[q].ip \in Inode
    <3>1. Stage(th[q]) = "create"
      BY <2>1 DEF Stage, Putting
    <3> QED
      BY <1>3, <3>1 DEF Thread, Shape, HasIp
  <2>4. /\ dinode[th[q].ip] = Dinode(NewType(q), 0) /\ dir[th[q].ip] = NoEntries
        /\ \A r \in Proc \ {q} : th[r].pc = "create" => th[r].ip # th[q].ip
    BY <2>1 DEF FsInv, AllocInv
  <2>5. ~ Safe(th[q].ip)
    BY <2>1 DEF Safe
  <2>6. dinode'[th[q].ip] = dinode[th[q].ip] /\ dir'[th[q].ip] = dir[th[q].ip]
    BY <2>1, <2>3, <2>4, <2>5
  <2> QED
    BY <1>1, <2>1, <2>2, <2>4, <2>6
<1> QED
  BY <1>4, <1>5, <1>6 DEF AllocInv

LEMMA DiskSame ==
  ASSUME FsInv, NEW p \in Proc, NEW t, NEW c, Moves(p, t, c),
         UNCHANGED <<dinode, dir, lost>>, FoundAt(t), Owes(t) = Owes(th[p])
  PROVE  LinkInv' /\ TreeInv' /\ FoundInv' /\ RankInv'
<1>1. LinkInv'
  <2>1. ASSUME NEW i \in Inode
        PROVE  Names(i)' = Names(i) /\ Parents(i)' = Parents(i) /\ Owed(i)' = Owed(i)
    <3>1. \A j : NameEntries(j)' = NameEntries(j)
      BY DEF NameEntries
    <3>2. Subdirs(i)' = Subdirs(i)
      BY <3>1 DEF Subdirs
    <3>3. {q \in Proc : Owes(th'[q]) = i} = {q \in Proc : Owes(th[q]) = i}
      BY OwesSame
    <3> QED
      BY <3>1, <3>2, <3>3 DEF Names, Parents, Owed
  <2> QED
    BY <2>1 DEF FsInv, LinkInv
<1>2. TreeInv' /\ RankInv'
  BY DEF FsInv, TreeInv, RankInv, Below
<1>3. FoundInv'
  <2>1. \A q \in Proc : FoundAt(th'[q])
    BY MovesTo, StillSafe
  <2> QED
    BY <2>1 DEF FoundAt, FoundInv, name
<1> QED
  BY <1>1, <1>2, <1>3

LEMMA QuietStep ==
  ASSUME FsInv, NEW p \in Proc, NEW t, NEW c, Moves(p, t, c),
         UNCHANGED <<dinode, dir, lost>>,
         t.pc \notin {"trunc", "create", "freed"}, th[p].pc # "trunc",
         SafeAt(t, c) \/ SafeAt(th[p], cwd[p])', FoundAt(t),
         \A f \in File : file'[f].ip # 0 => Safe(file'[f].ip),
         Owes(t) = Owes(th[p]), \A i \in Inode : CurrentAt(p, i)
  PROVE  AllocInv' /\ CacheInv' /\ LinkInv' /\ TreeInv' /\ FoundInv' /\ RankInv'
<1>1. \A k : Safe(k) => Safe(k)'
  BY SafeStep
<1>2. SafeAt(th[p], cwd[p])'
  <2>1. CASE SafeAt(t, c)
    <3>1. SafeAt(th'[p], cwd'[p])
      BY <2>1, MovesTo
    <3> QED
      BY <1>1, <3>1 DEF SafeAt
  <2> QED
    BY <2>1
<1>5. \A f \in File : (file[f].ip # 0 => Safe(file[f].ip))'
  BY <1>1
<1>3. \A k \in Inode : dinode[k].type = "none" => dinode[k].nlink = 0
  BY DEF FsInv, AllocInv
<1>4. AllocInv'
  BY <1>2, <1>3, <1>5, AllocKept
<1> QED
  BY <1>4, CacheStep, DiskSame

\* The table after a step: i has the lock lk, j one reference more, x one less;
\* 0 stands for none.
TableIs(i, lk, j, x) ==
  /\ itable' \in Table
  /\ \A k \in Inode :
       /\ itable'[k].ref + One(k = x) = itable[k].ref + One(k = j)
       /\ itable'[k].lock = IF k = i THEN lk ELSE itable[k].lock
       /\ itable'[k].lock # NoProc => itable'[k].valid
       /\ itable'[k].valid => \/ /\ Dinode(itable'[k].type, itable'[k].nlink) = dinode[k]
                                 /\ dinode[k].type # "none"
                              \/ /\ itable[k].valid /\ itable'[k].type = itable[k].type
                                 /\ itable'[k].nlink = itable[k].nlink
                                 /\ itable'[k].ref > 0 => itable[k].ref > 0

\* The call at t, in c, has the pointers and locks of the table.
Keeps(p, t, c, i, lk, j, x) ==
  /\ \A k \in Inode : One(k = j) + Mine(th[p], cwd[p], k) = One(k = x) + Mine(t, c, k)
  /\ lk \in {p, NoProc} /\ (i # 0 => itable[i].lock \in {p, NoProc})
  /\ \A k \in Inode : k \in Locks(t) <=> IF k = i THEN lk = p ELSE k \in Locks(th[p])

\* The references go with the pointers.
Recounts(p, t, c) ==
  \A k \in Inode : itable'[k].ref + Mine(th[p], cwd[p], k) = itable[k].ref + Mine(t, c, k)

\* Pointers and locks after a step that leaves the open files alone.
LEMMA CoreInv ==
  ASSUME FsInv, NEW p \in Proc, NEW t, NEW c, Moves(p, t, c), Relocks(p, t),
         itable' \in Table, dinode' \in Disk, dir' \in Entries, lost' \in [Inode -> Nat],
         file' = file, ofile' = ofile, c = 0 => \A d \in Fd : ofile[p][d] = 0, Recounts(p, t, c)
  PROVE  CallInv' /\ RefCounts'
<1>1. /\ file' \in [File -> [ref : Nat, ip : Inode \cup {0}]]
      /\ ofile' \in [Proc -> [Fd -> File \cup {0}]]
      /\ \A f \in File : file'[f].ref = 0 <=> file'[f].ip = 0
      /\ \A q \in Proc : cwd'[q] = 0 => \A d \in Fd : ofile'[q][d] = 0
      /\ \A f \in File :
           file'[f].ref = Cardinality({z \in Proc \X Fd : ofile'[z[1]][z[2]] = f})
      /\ \A k : FilesWith(k)' = FilesWith(k) /\ FilesWith(k) \in Nat
  BY FilesSame
<1>2. CallInv'
  BY <1>1, CallStep
<1>3. RefCounts'
  <2>1. ASSUME NEW k \in Inode
        PROVE  itable'[k].ref + Mine(th[p], cwd[p], k) + FilesWith(k)
                 = itable[k].ref + Mine(t, c, k) + FilesWith(k)'
    <3>1. itable'[k].ref + Mine(th[p], cwd[p], k) = itable[k].ref + Mine(t, c, k)
      BY DEF Recounts
    <3>2. FilesWith(k)' = FilesWith(k)
      BY <1>1
    <3> QED
      BY <3>1, <3>2
  <2>2. /\ th'[p] = t /\ cwd'[p] = c
        /\ \A q \in Proc \ {p} : th'[q] = th[q] /\ cwd'[q] = cwd[q]
    BY MovesTo
  <2> QED
    BY <1>1, <2>1, <2>2, RefStep
<1> QED
  BY <1>2, <1>3

LEMMA KeepsCore ==
  ASSUME FsInv, NEW p \in Proc, NEW t, NEW c, NEW i, NEW lk, NEW j, NEW x,
         TableIs(i, lk, j, x), Keeps(p, t, c, i, lk, j, x)
  PROVE  Relocks(p, t) /\ itable' \in Table /\ Recounts(p, t, c)
<1>1. \A k \in Inode : itable[k].lock = p <=> k \in Locks(th[p])
  BY DEF FsInv, CallInv, LockInv
<1>2. itable' \in Table /\ itable \in Table
  BY Before DEF TableIs
<1>3. Relocks(p, t)
  <2> SUFFICES ASSUME NEW k \in Inode
               PROVE  /\ k \in Locks(t) => /\ itable[k].lock \in {p, NoProc} /\ itable'[k].lock = p
                                           /\ itable'[k].valid
                      /\ k \notin Locks(t) => itable'[k].lock = IF itable[k].lock = p THEN NoProc
                                                                ELSE itable[k].lock
                      /\ itable[k].lock \notin {p, NoProc} => itable'[k].valid
    BY DEF Relocks
  <2>1. k \in Locks(t) <=> IF k = i THEN lk = p ELSE k \in Locks(th[p])
    BY DEF Keeps
  <2>2. /\ itable'[k].lock = IF k = i THEN lk ELSE itable[k].lock
        /\ itable'[k].lock # NoProc => itable'[k].valid
    BY DEF TableIs
  <2>3. lk \in {p, NoProc} /\ (k = i => itable[k].lock \in {p, NoProc})
    BY RootIs DEF Keeps
  <2> QED
    BY <1>1, <2>1, <2>2, <2>3
<1>4. ASSUME NEW k \in Inode
      PROVE  itable'[k].ref + Mine(th[p], cwd[p], k) = itable[k].ref + Mine(t, c, k)
  <2>1. One(k = j) + Mine(th[p], cwd[p], k) = One(k = x) + Mine(t, c, k)
    BY DEF Keeps
  <2>2. itable'[k].ref + One(k = x) = itable[k].ref + One(k = j)
    BY DEF TableIs
  <2>3. /\ itable'[k].ref \in Nat /\ itable[k].ref \in Nat /\ One(k = j) \in Nat /\ One(k = x) \in Nat
        /\ Mine(th[p], cwd[p], k) \in Nat /\ Mine(t, c, k) \in Nat
    BY <1>2 DEF Table, One, Mine
  <2> QED
    BY <2>1, <2>2, <2>3
<1> QED
  BY <1>2, <1>3, <1>4 DEF Recounts

LEMMA QuietInv ==
  ASSUME FsInv, NEW p \in Proc, NEW t, NEW c, NEW i, NEW lk, NEW j, NEW x,
         Moves(p, t, c), TableIs(i, lk, j, x), Keeps(p, t, c, i, lk, j, x),
         UNCHANGED <<dinode, dir, lost, file, ofile>>,
         c = 0 => \A d \in Fd : ofile[p][d] = 0,
         t.pc \notin {"trunc", "create", "freed"}, th[p].pc # "trunc",
         th[p].pc = "freed" => ~ itable'[th[p].drop].valid,
         SafeAt(t, c) \/ SafeAt(th[p], cwd[p])', FoundAt(t), Owes(t) = Owes(th[p])
  PROVE  FsInv'
<1>1. Relocks(p, t) /\ itable' \in Table /\ Recounts(p, t, c)
  BY KeepsCore
<1>2. dinode' \in Disk /\ dir' \in Entries /\ lost' \in [Inode -> Nat]
  BY Before
<1>3. CallInv' /\ RefCounts'
  BY <1>1, <1>2, CoreInv
<1>4. \A k \in Inode : CurrentAt(p, k)
  BY DEF TableIs, CurrentAt
<1>5. \A f \in File : file'[f].ip # 0 => Safe(file'[f].ip)
  BY StillSafe
<1>6. AllocInv' /\ CacheInv' /\ LinkInv' /\ TreeInv' /\ FoundInv' /\ RankInv'
  BY <1>4, <1>5, QuietStep
<1> QED
  BY <1>3, <1>6 DEF FsInv

-----------------------------------------------------------------------------
(* The table after the steps of a call.                                    *)

\* A locked entry is in use.
LEMMA LockedRef ==
  ASSUME FsInv, NEW i \in Inode, ~ Unlocked(i)
  PROVE  itable[i].ref \in Nat /\ itable[i].ref >= 1 /\ itable[i].valid
<1>1. PICK p \in Proc : itable[i].lock = p
  BY Before DEF Table, Unlocked
<1>2. i \in Locks(th[p]) /\ itable[i].valid
  BY <1>1 DEF FsInv, CallInv, LockInv, Unlocked
<1>3. th[p].at = i \/ th[p].ip = i \/ th[p].drop = i
  BY <1>2 DEF Locks
<1> QED
  BY <1>2, <1>3, RefHeld

LEMMA TableSame ==
  ASSUME FsInv, itable' = itable
  PROVE  TableIs(0, NoProc, 0, 0)
<1>1. itable \in Table
  BY Before
<1> SUFFICES ASSUME NEW k \in Inode, itable[k].lock # NoProc PROVE itable[k].valid
  BY <1>1, RootIs DEF TableIs, One, Table
<1> QED
  BY LockedRef DEF Unlocked

\* What a call has come to is in use.
LEMMA InUse ==
  ASSUME FsInv, NEW q \in Proc, NEW i \in Inode, i \in {th[q].at, th[q].ip}
  PROVE  dinode[i].type # "none"
<1>1. SafeAt(th[q], cwd[q]) /\ i # 0
  BY StillSafe, RootIs
<1>2. CASE th[q].pc = "create" /\ i = th[q].ip
  <2>1. dinode[i] = Dinode(NewType(q), 0)
    BY <1>2 DEF FsInv, AllocInv
  <2>2. NewType(q) # "none"
    BY DEF NewType
  <2> QED
    BY <2>1, <2>2 DEF Dinode
<1>3. CASE th[q].pc # "create" \/ i = th[q].at
  BY <1>1, <1>3 DEF SafeAt, Safe
<1> QED
  BY <1>2, <1>3

\* The entries of tab are those of the table, with i locked by lk.
LockedAs(tab, i, lk, k) ==
  /\ tab[k].ref = itable[k].ref
  /\ tab[k].lock = IF k = i THEN lk ELSE itable[k].lock
  /\ tab[k].lock # NoProc => tab[k].valid /\ tab[k].ref > 0
  /\ tab[k].valid => \/ Dinode(tab[k].type, tab[k].nlink) = dinode[k] /\ dinode[k].type # "none"
                     \/ tab[k] = itable[k]

LEMMA TableLockGet ==
  ASSUME FsInv, NEW tab \in Table, NEW i, NEW lk, \A k \in Inode : LockedAs(tab, i, lk, k),
         NEW j \in Inode, itable' = iget(tab, j)
  PROVE  TableIs(i, lk, j, 0)
<1>1. /\ itable' \in Table /\ itable'[j].ref = tab[j].ref + 1
      /\ itable'[j].valid => tab[j].valid /\ tab[j].ref > 0
      /\ tab[j].valid /\ tab[j].ref > 0 => itable'[j].valid
      /\ itable'[j].lock = tab[j].lock /\ itable'[j].type = tab[j].type
      /\ itable'[j].nlink = tab[j].nlink
      /\ \A k \in Inode \ {j} : itable'[k] = tab[k]
  BY IgetIs
<1>2. \A k \in Inode : itable[k].ref \in Nat
  BY Before DEF Table
<1>3. ASSUME NEW k \in Inode PROVE itable'[k].ref + One(k = 0) = itable[k].ref + One(k = j)
  <2>1. tab[k].ref = itable[k].ref
    BY DEF LockedAs
  <2>2. CASE k = j
    BY <1>1, <1>2, <2>1, <2>2, RootIs DEF One
  <2>3. CASE k # j
    BY <1>1, <1>2, <2>1, <2>3, RootIs DEF One
  <2> QED
    BY <2>2, <2>3
<1>4. ASSUME NEW k \in Inode
      PROVE  /\ itable'[k].lock = tab[k].lock /\ itable'[k].type = tab[k].type
             /\ itable'[k].nlink = tab[k].nlink /\ (itable'[k].valid => tab[k].valid)
             /\ tab[k].valid /\ tab[k].ref > 0 => itable'[k].valid
             /\ itable'[k].valid /\ itable'[k].ref > 0 => tab[k].ref > 0
  <2>1. CASE k = j
    BY <1>1, <2>1
  <2>2. CASE k # j
    BY <1>1, <2>2
  <2> QED
    BY <2>1, <2>2
<1>5. ASSUME NEW k \in Inode
      PROVE  /\ itable'[k].lock = IF k = i THEN lk ELSE itable[k].lock
             /\ itable'[k].lock # NoProc => itable'[k].valid
  BY <1>4 DEF LockedAs
<1>6. ASSUME NEW k \in Inode, itable'[k].valid
      PROVE  \/ /\ Dinode(itable'[k].type, itable'[k].nlink) = dinode[k]
                /\ dinode[k].type # "none"
             \/ /\ itable[k].valid /\ itable'[k].type = itable[k].type
                /\ itable'[k].nlink = itable[k].nlink
                /\ itable'[k].ref > 0 => itable[k].ref > 0
  <2>1. /\ \/ Dinode(tab[k].type, tab[k].nlink) = dinode[k] /\ dinode[k].type # "none"
           \/ tab[k] = itable[k]
        /\ tab[k].valid
    BY <1>4, <1>6 DEF LockedAs
  <2> QED
    BY <1>4, <1>6, <2>1
<1> QED
  BY <1>1, <1>3, <1>5, <1>6 DEF TableIs

\* ilock(), and iget() of another inode then.
LEMMA TableLocked ==
  ASSUME FsInv, NEW i \in Inode, Unlocked(i), dinode[i].type # "none", NEW lk \in Proc \cup {NoProc},
         NEW tab, tab = [itable EXCEPT ![i] = [ilock(i) EXCEPT !.lock = lk]]
  PROVE  /\ tab \in Table
         /\ itable' = tab => TableIs(i, lk, 0, 0)
         /\ \A j \in Inode : itable[i].ref >= 1 /\ itable' = iget(tab, j) => TableIs(i, lk, j, 0)
<1>1. itable \in Table /\ dinode \in Disk
  BY Before
<1>2. /\ ilock(i) \in [ref : Nat, valid : BOOLEAN, lock : Proc \cup {NoProc}, type : Type, nlink : Nat]
      /\ ilock(i).ref = itable[i].ref /\ ilock(i).valid
      /\ Dinode(ilock(i).type, ilock(i).nlink) = dinode[i] /\ dinode[i].type # "none"
  BY IlockIs, IlockCurrent
<1>3. tab \in Table
  BY <1>1, <1>2 DEF Table
<1>4. /\ tab[i].ref = itable[i].ref /\ tab[i].lock = lk /\ tab[i].valid = TRUE
      /\ Dinode(tab[i].type, tab[i].nlink) = dinode[i] /\ dinode[i].type # "none"
      /\ \A k \in Inode \ {i} : tab[k] = itable[k]
  BY <1>1, <1>2 DEF Table
<1>5. \A k \in Inode : itable[k].lock # NoProc => itable[k].ref >= 1 /\ itable[k].valid
  BY LockedRef DEF Unlocked
<1>6. ASSUME itable' = tab PROVE TableIs(i, lk, 0, 0)
  BY <1>1, <1>3, <1>4, <1>5, <1>6, RootIs DEF TableIs, One, Table
<1>7. ASSUME NEW j \in Inode, itable[i].ref >= 1, itable' = iget(tab, j) PROVE TableIs(i, lk, j, 0)
  <2>1. ASSUME NEW k \in Inode PROVE LockedAs(tab, i, lk, k)
    <3>1. itable[k].ref \in Nat
      BY <1>1 DEF Table
    <3>2. CASE k = i
      BY <1>4, <1>7, <3>1, <3>2 DEF LockedAs
    <3>3. CASE k # i
      BY <1>4, <1>5, <3>1, <3>3 DEF LockedAs
    <3> QED
      BY <3>2, <3>3
  <2> QED
    BY <1>3, <1>7, <2>1, TableLockGet
<1> QED
  BY <1>3, <1>6, <1>7

LEMMA TableLock ==
  ASSUME FsInv, NEW i \in Inode, Unlocked(i), \E q \in Proc : i \in {th[q].at, th[q].ip},
         NEW lk \in Proc \cup {NoProc}, NEW tab, tab = [itable EXCEPT ![i] = [ilock(i) EXCEPT !.lock = lk]]
  PROVE  /\ tab \in Table
         /\ itable' = tab => TableIs(i, lk, 0, 0)
         /\ \A j \in Inode : itable[i].ref >= 1 /\ itable' = iget(tab, j) => TableIs(i, lk, j, 0)
BY TableLocked, InUse

LEMMA LookIs ==
  ASSUME FsInv, NEW i \in Inode, Unlocked(i)
  PROVE  ilock(i) = [ilock(i) EXCEPT !.lock = NoProc]
BY IlockIs DEF Unlocked

\* The lock is given up again.
LEMMA TableLook ==
  ASSUME FsInv, NEW i \in Inode, Unlocked(i), \E q \in Proc : i \in {th[q].at, th[q].ip},
         NEW tab, tab = [itable EXCEPT ![i] = ilock(i)]
  PROVE  /\ tab \in Table
         /\ itable' = tab => TableIs(0, NoProc, 0, 0)
         /\ \A j \in Inode : itable[i].ref >= 1 /\ itable' = iget(tab, j) => TableIs(0, NoProc, j, 0)
<1>1. tab = [itable EXCEPT ![i] = [ilock(i) EXCEPT !.lock = NoProc]]
  BY LookIs
<1>2. /\ tab \in Table
      /\ itable' = tab => TableIs(i, NoProc, 0, 0)
      /\ \A j \in Inode : itable[i].ref >= 1 /\ itable' = iget(tab, j) => TableIs(i, NoProc, j, 0)
  BY <1>1, TableLock
<1>3. ASSUME NEW j, TableIs(i, NoProc, j, 0) PROVE TableIs(0, NoProc, j, 0)
  BY <1>3, RootIs DEF TableIs, Unlocked
<1> QED
  BY <1>2, <1>3

LEMMA TableGet ==
  ASSUME FsInv, NEW j \in Inode, itable' = iget(itable, j)
  PROVE  TableIs(0, NoProc, j, 0)
<1>1. itable \in Table
  BY Before
<1>2. /\ itable' \in Table /\ itable'[j].ref = itable[j].ref + 1
      /\ itable'[j].valid => itable[j].valid /\ itable[j].ref > 0
      /\ itable[j].valid /\ itable[j].ref > 0 => itable'[j].valid
      /\ itable'[j].lock = itable[j].lock /\ itable'[j].type = itable[j].type
      /\ itable'[j].nlink = itable[j].nlink
      /\ \A k \in Inode \ {j} : itable'[k] = itable[k]
  BY <1>1, IgetIs
<1>3. \A k \in Inode : itable[k].lock # NoProc => itable[k].ref >= 1 /\ itable[k].valid
  BY LockedRef DEF Unlocked
<1>4. ASSUME NEW k \in Inode
      PROVE  /\ itable'[k].ref + One(k = 0) = itable[k].ref + One(k = j)
             /\ itable'[k].lock = itable[k].lock
             /\ itable'[k].lock # NoProc => itable'[k].valid
  BY <1>1, <1>2, <1>3, RootIs DEF One, Table
<1>5. ASSUME NEW k \in Inode, itable'[k].valid
      PROVE  /\ itable[k].valid /\ itable'[k].type = itable[k].type /\ itable'[k].nlink = itable[k].nlink
             /\ itable'[k].ref > 0 => itable[k].ref > 0
  BY <1>2, <1>5
<1> QED
  BY <1>2, <1>4, <1>5, RootIs DEF TableIs

LEMMA TableUnlock ==
  ASSUME FsInv, NEW i \in Inode, itable' = [itable EXCEPT ![i].lock = NoProc]
  PROVE  TableIs(i, NoProc, 0, 0)
<1>1. itable \in Table
  BY Before
<1>2. /\ itable' \in Table
      /\ itable'[i].ref = itable[i].ref /\ itable'[i].lock = NoProc /\ itable'[i].valid = itable[i].valid
      /\ itable'[i].type = itable[i].type /\ itable'[i].nlink = itable[i].nlink
      /\ \A k \in Inode \ {i} : itable'[k] = itable[k]
  BY <1>1 DEF Table
<1>3. \A k \in Inode : itable[k].lock # NoProc => itable[k].valid
  BY LockedRef DEF Unlocked
<1>4. ASSUME NEW k \in Inode
      PROVE  /\ itable'[k].ref = itable[k].ref
             /\ itable'[k].lock = IF k = i THEN NoProc ELSE itable[k].lock
             /\ itable'[k].lock # NoProc => itable'[k].valid
             /\ itable'[k].valid = itable[k].valid /\ itable'[k].type = itable[k].type
             /\ itable'[k].nlink = itable[k].nlink
  BY <1>2, <1>3
<1> QED
  BY <1>1, <1>2, <1>4, RootIs DEF TableIs, One, Table

LEMMA TableDrop ==
  ASSUME FsInv, NEW i \in Inode, itable[i].ref >= 1, itable' = [itable EXCEPT ![i].ref = @ - 1]
  PROVE  TableIs(0, NoProc, 0, i)
<1>1. itable \in Table
  BY Before
<1>2. /\ itable' \in Table
      /\ itable'[i].ref = itable[i].ref - 1 /\ itable'[i].lock = itable[i].lock
      /\ itable'[i].valid = itable[i].valid
      /\ itable'[i].type = itable[i].type /\ itable'[i].nlink = itable[i].nlink
      /\ \A k \in Inode \ {i} : itable'[k] = itable[k]
  BY <1>1 DEF Table
<1>3. \A k \in Inode : itable[k].lock # NoProc => itable[k].valid
  BY LockedRef DEF Unlocked
<1>4. ASSUME NEW k \in Inode
      PROVE  /\ itable'[k].ref + One(k = i) = itable[k].ref
             /\ itable'[k].lock = itable[k].lock
             /\ itable'[k].lock # NoProc => itable'[k].valid
             /\ itable'[k].valid = itable[k].valid /\ itable'[k].type = itable[k].type
             /\ itable'[k].nlink = itable[k].nlink
  BY <1>1, <1>2, <1>3 DEF One, Table
<1> QED
  BY <1>1, <1>2, <1>4, RootIs DEF TableIs, One, Table

-----------------------------------------------------------------------------
(* What is linked is in use; paths.                                        *)

LEMMA LinkCounts ==
  ASSUME FsInv, NEW i \in Inode
  PROVE  /\ IsFiniteSet(NameEntries(i)) /\ IsFiniteSet(Subdirs(i))
         /\ IsFiniteSet({p \in Proc : Owes(th[p]) = i})
<1>1. IsFiniteSet(Inode \X Name)
  BY FiniteTables, FS_Product
<1>2. NameEntries(i) \subseteq Inode \X Name /\ Subdirs(i) \subseteq Inode
  BY DEF NameEntries, Subdirs
<1> QED
  BY <1>1, <1>2, FiniteTables, FinitePart

LEMMA LinkSum ==
  ASSUME FsInv, NEW i \in Inode
  PROVE  /\ Names(i) \in Nat /\ Parents(i) \in Nat /\ lost[i] \in Nat /\ Owed(i) \in Nat
         /\ dinode[i].nlink = Names(i) + Parents(i) + lost[i] + One(i = ROOTINO) + Owed(i)
<1>1. Names(i) \in Nat /\ Parents(i) \in Nat /\ Owed(i) \in Nat
  BY LinkCounts, FS_CardinalityType DEF Names, Parents, Owed
<1>2. lost[i] \in Nat
  BY Before
<1>3. dinode[i].nlink = Names(i) + Parents(i) + lost[i] + One(i = ROOTINO) + Owed(i)
  BY DEF FsInv, LinkInv, One
<1> QED
  BY <1>1, <1>2, <1>3

LEMMA NamedLinked ==
  ASSUME FsInv, NEW x \in Inode, NEW n \in Name, NEW i \in Inode, dir[x][n] = i
  PROVE  dinode[i].nlink >= 1
<1>1. <<x, n>> \in NameEntries(i)
  BY DEF NameEntries
<1>2. Names(i) >= 1
  BY <1>1, LinkCounts, CountOne DEF Names
<1> QED
  BY <1>2, LinkSum DEF One

LEMMA OwedLinked ==
  ASSUME FsInv, NEW p \in Proc, NEW i \in Inode, Owes(th[p]) = i
  PROVE  dinode[i].nlink >= 1
<1>1. Owed(i) >= 1
  BY LinkCounts, CountOne DEF Owed
<1> QED
  BY <1>1, LinkSum DEF One

LEMMA RootLinked == ASSUME FsInv PROVE dinode[ROOTINO].nlink >= 1
BY RootIs, LinkSum DEF One

LEMMA LinkedSafe ==
  ASSUME FsInv, NEW i \in Inode, dinode[i].nlink >= 1
  PROVE  Safe(i)
<1>1. dinode[i].type # "none"
  BY DEF FsInv, AllocInv
<1>2. \A q \in Proc : th[q].pc = "trunc" => th[q].drop # i
  BY DEF FsInv, AllocInv
<1>3. ASSUME NEW q \in Proc, th[q].pc = "create", th[q].ip = i PROVE FALSE
  <2>1. dinode[i] = Dinode(NewType(q), 0)
    BY <1>3 DEF FsInv, AllocInv
  <2>2. dinode[i].nlink = 0
    BY <2>1 DEF Dinode
  <2> QED
    BY <2>2
<1> QED
  BY <1>1, <1>2, <1>3 DEF Safe

LEMMA NamedSafe ==
  ASSUME FsInv, NEW x \in Inode, NEW n \in Name, dir[x][n] # 0
  PROVE  dir[x][n] \in Inode /\ Safe(dir[x][n])
<1>1. dir[x][n] \in Inode
  BY Before DEF Entries, Entry
<1> QED
  BY <1>1, NamedLinked, LinkedSafe

LEMMA PathHead ==
  ASSUME NEW s \in Seq(Name), s # <<>>
  PROVE  Head(s) \in Name /\ Tail(s) \in Seq(Name)
BY HeadTailProperties

LEMMA WalkPathType ==
  ASSUME NEW p \in Proc, NEW r \in Requests[p]
  PROVE  /\ r \in Request /\ r.call \in PathCall
         /\ WalkPath(r.path) \in Seq(Name) /\ WalkPath(r.new) \in Seq(Name)
<1>1. r \in Request
  BY DEF Request
<1>2. ASSUME NEW s, s \in Seq(Name \cup {"/"}), s # <<>> => Tail(s) \in Seq(Name)
      PROVE  WalkPath(s) \in Seq(Name)
  <2>1. CASE s = <<>> \/ Head(s) = "/"
    BY <1>2, <2>1 DEF WalkPath
  <2>2. CASE s # <<>> /\ Head(s) # "/"
    <3>1. Len(s) \in Nat \ {0} /\ s \in [1 .. Len(s) -> Name \cup {"/"}] /\ s[1] # "/" /\ s[1] \in Name
      BY <1>2, <2>2
    <3>2. ASSUME NEW k \in 2 .. Len(s) PROVE s[k] \in Name
      <4>1. Tail(s) \in Seq(Name) /\ Len(Tail(s)) = Len(s) - 1
        BY <1>2, <2>2
      <4>2. k - 1 \in 1 .. Len(Tail(s)) /\ Tail(s)[k - 1] = s[k]
        BY <1>2, <2>2, <3>1, <4>1
      <4> QED
        BY <4>1, <4>2
    <3>3. \A k \in 1 .. Len(s) : s[k] \in Name
      BY <3>1, <3>2
    <3>4. s \in Seq(Name)
      BY <1>2, <3>1, <3>3
    <3> QED
      BY <2>2, <3>4 DEF WalkPath
  <2> QED
    BY <2>1, <2>2
<1>3. /\ r.call \in PathCall
      /\ \A s \in {r.path, r.new} :
           s \in Seq(Name \cup {"/"}) /\ (s # <<>> => Tail(s) \in Seq(Name))
  BY RequestsAssumption
<1> QED
  BY <1>1, <1>2, <1>3

LEMMA WalkFromSafe ==
  ASSUME FsInv, NEW p \in Proc, cwd[p] # 0, NEW s
  PROVE  WalkFrom(p, s) \in Inode /\ Safe(WalkFrom(p, s))
<1>1. cwd[p] \in Inode /\ Safe(cwd[p])
  BY Before DEF FsInv, AllocInv
<1>2. ROOTINO \in Inode /\ Safe(ROOTINO)
  BY RootIs, RootLinked, LinkedSafe
<1> QED
  BY <1>1, <1>2 DEF WalkFrom

-----------------------------------------------------------------------------
(* One lemma for each operation.                                           *)

LEMMA Here ==
  ASSUME FsInv, NEW p \in Proc
  PROVE  /\ th[p] \in Thread /\ Shape(th[p], cwd[p]) /\ cwd[p] \in Inode \cup {0}
         /\ cwd = [cwd EXCEPT ![p] = cwd[p]]
         /\ cwd[p] = 0 => \A d \in Fd : ofile[p][d] = 0
         /\ \A i \in Inode : itable[i].lock = p <=> i \in Locks(th[p])
BY Before DEF FsInv, CallInv, LockInv

LEMMA AtUser ==
  ASSUME FsInv, NEW p \in Proc, th[p].pc \in {"user", "exit"}
  PROVE  th[p].at = 0 /\ th[p].ip = 0 /\ th[p].drop = 0 /\ Locks(th[p]) = {} /\ Owes(th[p]) = 0
<1>1. th[p] \in Thread /\ Shape(th[p], cwd[p])
  BY Here
<1>2. Stage(th[p]) = th[p].pc
  BY DEF Stage, Putting
<1> QED
  BY <1>1, <1>2 DEF Shape, Locks, Owes, Putting, HasAt, HasIp

LEMMA IdleIs ==
  /\ Idle \in Thread /\ Idle.pc = "user" /\ Idle.at = 0 /\ Idle.ip = 0 /\ Idle.drop = 0
  /\ Idle.req = NoCall /\ Idle.then = "user"
<1>1. "user" \in Pc
  BY DEF Pc
<1>2. NoCall \in Request
  BY DEF Request
<1>3. <<>> \in Seq(Name)
  OBVIOUS
<1> QED
  BY <1>1, <1>2, <1>3 DEF Idle, Thread

LEMMA StartInv ==
  ASSUME FsInv, NEW p \in Proc, NEW r \in Requests[p], Start(p, r)
  PROVE  FsInv'
<1> DEFINE i == WalkFrom(p, r.path)
           t == [Idle EXCEPT !.pc = "walk", !.req = r, !.path = WalkPath(r.path), !.at = i]
<1>1. /\ th[p].pc = "user" /\ cwd[p] # 0 /\ itable' = iget(itable, i) /\ th' = [th EXCEPT ![p] = t]
      /\ UNCHANGED <<dinode, dir, file, ofile, cwd, lost>>
  BY DEF Start
<1>2. /\ th[p].at = 0 /\ th[p].ip = 0 /\ th[p].drop = 0 /\ Locks(th[p]) = {} /\ Owes(th[p]) = 0
      /\ cwd = [cwd EXCEPT ![p] = cwd[p]] /\ cwd[p] \in Inode \cup {0}
  BY <1>1, AtUser, Here
<1>3. i \in Inode /\ Safe(i)
  BY <1>1, WalkFromSafe
<1>4. r \in Request /\ r.call \in PathCall /\ WalkPath(r.path) \in Seq(Name)
  BY WalkPathType
<1> HIDE DEF i
<1>5. /\ t \in Thread /\ t.pc = "walk" /\ t.req = r /\ t.at = i /\ t.ip = 0 /\ t.drop = 0
  <2>1. "walk" \in Pc
    BY DEF Pc
  <2> QED
    BY <1>3, <1>4, <2>1, IdleIs DEF Thread
<1> HIDE DEF t
<1>6. Stage(t) = "walk" /\ i # 0
  BY <1>3, <1>5, RootIs DEF Stage, Putting
<1>11. Moves(p, t, cwd[p])
  <2>1. Shape(t, cwd[p])
    BY <1>1, <1>5, <1>6 DEF Shape, Putting, HasAt, HasIp
  <2> QED
    BY <1>1, <1>2, <1>5, <2>1 DEF Moves
<1>7. TableIs(0, NoProc, i, 0)
  BY <1>1, <1>3, TableGet
<1>8. Locks(t) = {} /\ Owes(t) = 0
  BY <1>5, <1>6 DEF Locks, Owes
<1>9. Keeps(p, t, cwd[p], 0, NoProc, i, 0)
  <2>1. \A k \in Inode : One(k = i) + Mine(th[p], cwd[p], k) = One(k = 0) + Mine(t, cwd[p], k)
    BY <1>2, <1>3, <1>5, RootIs DEF Mine, One
  <2> QED
    BY <1>2, <1>8, <2>1, RootIs DEF Keeps
<1>10. SafeAt(t, cwd[p]) /\ FoundAt(t)
  BY <1>1, <1>3, <1>5, <1>6, StillSafe DEF SafeAt, FoundAt
<1> QED
  BY <1>1, <1>2, <1>5, <1>7, <1>8, <1>9, <1>10, <1>11, QuietInv

LEMMA AfterIs ==
  ASSUME NEW t \in Thread, NEW i \in Inode, NEW s \in Pc, NEW u, u = After(t, i, s)
  PROVE  /\ u \in Thread /\ u.pc = "put" /\ u.drop = i /\ u.then = s /\ Stage(u) = s
         /\ u.at = t.at /\ u.ip = t.ip /\ u.req = t.req /\ u.path = t.path
BY DEF After, Thread, Pc, Stage, Putting

LEMMA FailedIs ==
  ASSUME FsInv, NEW p \in Proc, th[p].pc \in {"walk", "got", "parent", "exists", "open"}
  PROVE  /\ Stage(th[p]) = th[p].pc /\ th[p].at \in Inode /\ th[p].drop = 0 /\ cwd[p] # 0
         /\ th[p].ip # 0 => th[p].req.call = "link" /\ Failed(p) = "linkbad"
         /\ th[p].ip = 0 => Failed(p) = "user"
         /\ th[p].req.call # "link" => Failed(p) = "user"
         /\ th[p].pc \notin {"walk", "parent"} => th[p].ip = 0
         /\ th[p].pc # "open" => Locks(th[p]) = {}
         /\ th[p].pc = "open" => Locks(th[p]) = {th[p].at}
<1>1. th[p] \in Thread /\ Shape(th[p], cwd[p])
  BY Here
<1>2. Stage(th[p]) = th[p].pc /\ th[p].pc \notin Putting
  BY DEF Stage, Putting
<1>3. th[p].at \in Inode
  BY <1>1, <1>2 DEF Thread, Shape, HasAt
<1> QED
  BY <1>1, <1>2, <1>3 DEF Shape, HasIp, Failed, Second, Locks

\* A call lets go of the inode that it has come to, and fails.
LEMMA LetGo ==
  ASSUME FsInv, NEW p \in Proc, th[p].pc \in {"walk", "got", "parent", "exists", "open"},
         th' = [th EXCEPT ![p] = After([th[p] EXCEPT !.at = 0], th[p].at, Failed(p))],
         TableIs(IF th[p].pc = "open" THEN th[p].at ELSE 0, NoProc, 0, 0),
         UNCHANGED <<dinode, dir, file, ofile, cwd, lost>>
  PROVE  FsInv'
<1> DEFINE i == th[p].at
           t == [th[p] EXCEPT !.at = 0]
           u == After(t, i, Failed(p))
           c == cwd[p]
           l == IF th[p].pc = "open" THEN i ELSE 0
<1>1. /\ th[p] \in Thread /\ Shape(th[p], c) /\ cwd = [cwd EXCEPT ![p] = c] /\ c \in Inode \cup {0}
      /\ \A k \in Inode : itable[k].lock = p <=> k \in Locks(th[p])
  BY Here
<1>2. /\ Stage(th[p]) = th[p].pc /\ i \in Inode /\ th[p].drop = 0 /\ c # 0
      /\ th[p].ip # 0 => th[p].req.call = "link" /\ Failed(p) = "linkbad"
      /\ th[p].ip = 0 => Failed(p) = "user"
      /\ th[p].pc # "open" => Locks(th[p]) = {}
      /\ th[p].pc = "open" => Locks(th[p]) = {i}
  BY FailedIs
<1>3. t \in Thread /\ t.at = 0 /\ t.ip = th[p].ip /\ t.req = th[p].req /\ t.path = th[p].path
  BY <1>1 DEF Thread
<1>4. Failed(p) \in Pc /\ Failed(p) \in {"user", "linkbad"}
  BY DEF Failed, Pc
<1> HIDE DEF t
<1>5. /\ u \in Thread /\ u.pc = "put" /\ u.drop = i /\ Stage(u) = Failed(p)
      /\ u.at = 0 /\ u.ip = th[p].ip /\ u.req = th[p].req
  BY <1>2, <1>3, <1>4, AfterIs
<1>6. th' = [th EXCEPT ![p] = u]
  BY DEF t
<1> HIDE DEF u
<1>7. Shape(u, c)
  BY <1>2, <1>4, <1>5, RootIs DEF Shape, Putting, HasAt, HasIp
<1>8. Moves(p, u, c)
  BY <1>1, <1>5, <1>6, <1>7 DEF Moves
<1>9. Locks(u) = {} /\ Owes(u) = Owes(th[p])
  BY <1>2, <1>4, <1>5 DEF Locks, Owes
<1>10. Keeps(p, u, c, l, NoProc, 0, 0)
  <2>1. \A k \in Inode : One(k = 0) + Mine(th[p], c, k) = One(k = 0) + Mine(u, c, k)
    BY <1>2, <1>5, RootIs DEF Mine, One
  <2>2. l # 0 => itable[l].lock = p
    BY <1>1, <1>2
  <2>3. \A k \in Inode : k \in Locks(u) <=> IF k = l THEN NoProc = p ELSE k \in Locks(th[p])
    BY <1>2, <1>9
  <2> QED
    BY <2>1, <2>2, <2>3 DEF Keeps
<1>11. SafeAt(u, c) /\ FoundAt(u)
  <2>1. SafeAt(th[p], c) /\ FoundAt(th[p])
    BY StillSafe
  <2>2. Safe(i)
    BY <1>2, <2>1, RootIs DEF SafeAt
  <2> QED
    BY <1>2, <1>4, <1>5, <2>1, <2>2 DEF SafeAt, FoundAt
<1> HIDE DEF c, l
<1>12. TableIs(l, NoProc, 0, 0)
  BY DEF l
<1> QED
  BY <1>1, <1>2, <1>5, <1>8, <1>9, <1>10, <1>11, <1>12, QuietInv DEF c

\* A call goes on with the inode that it has come to.
LEMMA GoOn ==
  ASSUME FsInv, NEW p \in Proc, NEW s \in {"parent", "got", "open"}, GoesTo(p, s),
         th[p].pc \in {"walk", "got", "exists"},
         s = "parent" => /\ th[p].pc = "walk" /\ nameiparent(p) /\ th[p].path # <<>>
                         /\ dinode[th[p].at].type = "dir",
         s = "got" => th[p].pc = "walk" /\ ~ nameiparent(p),
         s = "open" => th[p].pc # "walk" /\ Unlocked(th[p].at),
         TableIs(IF s = "open" THEN th[p].at ELSE 0, IF s = "open" THEN p ELSE NoProc, 0, 0),
         UNCHANGED <<dinode, dir, file, ofile, cwd, lost>>
  PROVE  FsInv'
<1> DEFINE i == th[p].at
           u == [th[p] EXCEPT !.pc = s]
           c == cwd[p]
           l == IF s = "open" THEN i ELSE 0
           lk == IF s = "open" THEN p ELSE NoProc
<1>1. /\ th[p] \in Thread /\ Shape(th[p], c) /\ cwd = [cwd EXCEPT ![p] = c] /\ c \in Inode \cup {0}
      /\ \A k \in Inode : itable[k].lock = p <=> k \in Locks(th[p])
  BY Here
<1>2. /\ Stage(th[p]) = th[p].pc /\ i \in Inode /\ th[p].drop = 0 /\ c # 0
      /\ th[p].ip # 0 => th[p].req.call = "link"
      /\ th[p].pc \notin {"walk", "parent"} => th[p].ip = 0
      /\ Locks(th[p]) = {}
  BY FailedIs
<1>3. /\ u \in Thread /\ u.pc = s /\ u.drop = 0 /\ Stage(u) = s
      /\ u.at = i /\ u.ip = th[p].ip /\ u.req = th[p].req /\ u.path = th[p].path
  BY <1>1, <1>2 DEF Thread, Pc, Stage, Putting
<1>4. th' = [th EXCEPT ![p] = u]
  BY DEF GoesTo
<1> HIDE DEF u
<1>5. Shape(u, c)
  BY <1>2, <1>3, RootIs DEF Shape, Putting, HasAt, HasIp, nameiparent, Second
<1>6. Moves(p, u, c)
  BY <1>1, <1>3, <1>4, <1>5 DEF Moves
<1>7. Locks(u) = (IF s = "open" THEN {i} ELSE {}) /\ Owes(u) = Owes(th[p])
  BY <1>2, <1>3 DEF Locks, Owes
<1>8. Keeps(p, u, c, l, lk, 0, 0)
  <2>1. \A k \in Inode : One(k = 0) + Mine(th[p], c, k) = One(k = 0) + Mine(u, c, k)
    BY <1>2, <1>3, RootIs DEF Mine, One
  <2>2. l # 0 => itable[l].lock = NoProc
    BY DEF Unlocked
  <2>3. \A k \in Inode : k \in Locks(u) <=> IF k = l THEN lk = p ELSE k \in Locks(th[p])
    BY <1>2, <1>7, RootIs
  <2> QED
    BY <2>1, <2>2, <2>3 DEF Keeps
<1>9. SafeAt(u, c) /\ FoundAt(u)
  BY <1>2, <1>3, StillSafe DEF SafeAt, FoundAt
<1> HIDE DEF c, l, lk
<1>10. TableIs(l, lk, 0, 0)
  BY DEF l, lk
<1> QED
  BY <1>1, <1>2, <1>3, <1>6, <1>7, <1>8, <1>9, <1>10, QuietInv DEF c

LEMMA WalkInv ==
  ASSUME FsInv, NEW p \in Proc, Walk(p)
  PROVE  FsInv'
<1> DEFINE i == th[p].at
           e == ilock(i)
           n == Head(th[p].path)
           j == dir[i][n]
           c == cwd[p]
           last == nameiparent(p) /\ Len(th[p].path) = 1
<1>1. /\ th[p].pc = "walk" /\ th[p].path # <<>> /\ Unlocked(i)
      /\ UNCHANGED <<dinode, dir, file, ofile, cwd, lost>>
  BY DEF Walk
<1>2. i \in Inode
  BY <1>1, FailedIs
<1>3. e.type = dinode[i].type
  BY <1>1, <1>2, IlockCurrent, DiskIs
<1>4. CASE e.type = "dir" /\ last /\ itable' = [itable EXCEPT ![i] = e] /\ GoesTo(p, "parent")
  <2>1. TableIs(0, NoProc, 0, 0)
    BY <1>1, <1>2, <1>4, TableLook
  <2> QED
    BY <1>1, <1>3, <1>4, <2>1, GoOn
<1>5. CASE /\ e.type # "dir" \/ (j = 0 /\ ~ last)
           /\ itable' = [itable EXCEPT ![i] = e]
           /\ th' = [th EXCEPT ![p] = After([th[p] EXCEPT !.at = 0], i, Failed(p))]
  <2>1. TableIs(0, NoProc, 0, 0)
    BY <1>1, <1>2, <1>5, TableLook
  <2> QED
    BY <1>1, <1>5, <2>1, LetGo
<1>6. CASE /\ e.type = "dir" /\ ~ last /\ j # 0
           /\ itable' = iget([itable EXCEPT ![i] = e], j)
           /\ th' = [th EXCEPT ![p] = After([th[p] EXCEPT !.at = j, !.path = Tail(th[p].path)], i, "walk")]
  <2> DEFINE t == [th[p] EXCEPT !.at = j, !.path = Tail(th[p].path)]
             u == After(t, i, "walk")
  <2>1. /\ th[p] \in Thread /\ Shape(th[p], c) /\ cwd = [cwd EXCEPT ![p] = c] /\ c \in Inode \cup {0}
    BY Here
  <2>2. /\ Stage(th[p]) = "walk" /\ th[p].drop = 0 /\ c # 0 /\ Locks(th[p]) = {}
        /\ th[p].ip # 0 => th[p].req.call = "link"
    BY <1>1, FailedIs
  <2>3. n \in Name /\ Tail(th[p].path) \in Seq(Name)
    BY <1>1, <2>1, PathHead DEF Thread
  <2>4. j \in Inode /\ Safe(j)
    BY <1>2, <1>6, <2>3, NamedSafe
  <2> HIDE DEF j
  <2>5. t \in Thread /\ t.at = j /\ t.ip = th[p].ip /\ t.req = th[p].req
    BY <2>1, <2>3, <2>4 DEF Thread
  <2>6. th' = [th EXCEPT ![p] = u]
    BY <1>6
  <2> HIDE DEF t
  <2>7. /\ u \in Thread /\ u.pc = "put" /\ u.drop = i /\ Stage(u) = "walk"
        /\ u.at = j /\ u.ip = th[p].ip /\ u.req = th[p].req
    <3>1. "walk" \in Pc
      BY DEF Pc
    <3> QED
      BY <1>2, <2>5, <3>1, AfterIs
  <2> HIDE DEF u
  <2>8. Moves(p, u, c)
    <3>1. i # 0 /\ j # 0
      BY <1>2, <2>4, RootIs
    <3>2. Shape(u, c)
      BY <2>2, <2>7, <3>1 DEF Shape, Putting, HasAt, HasIp
    <3> QED
      BY <1>1, <2>1, <2>6, <2>7, <3>2 DEF Moves
  <2>9. Locks(u) = {} /\ Owes(u) = Owes(th[p])
    BY <2>2, <2>7 DEF Locks, Owes
  <2>10. itable[i].ref >= 1
    BY <1>2, RefHeld
  <2>11. TableIs(0, NoProc, j, 0)
    BY <1>1, <1>2, <1>6, <2>4, <2>10, TableLook
  <2>12. Keeps(p, u, c, 0, NoProc, j, 0)
    <3>1. \A k \in Inode : One(k = j) + Mine(th[p], c, k) = One(k = 0) + Mine(u, c, k)
      BY <2>2, <2>7, RootIs DEF Mine, One
    <3> QED
      BY <2>2, <2>9, <3>1 DEF Keeps
  <2>13. SafeAt(u, c) /\ FoundAt(u)
    <3>1. SafeAt(th[p], c) /\ FoundAt(th[p])
      BY StillSafe
    <3>2. Safe(i)
      BY <1>2, <3>1, RootIs DEF SafeAt
    <3> QED
      BY <1>1, <2>4, <2>7, <3>1, <3>2 DEF SafeAt, FoundAt
  <2> HIDE DEF c
  <2> QED
    BY <1>1, <2>1, <2>2, <2>7, <2>8, <2>9, <2>11, <2>12, <2>13, QuietInv DEF c
<1>7. <1>4!1 \/ <1>5!1 \/ <1>6!1
  BY DEF Walk
<1> QED
  BY <1>4, <1>5, <1>6, <1>7

LEMMA WalkEndInv ==
  ASSUME FsInv, NEW p \in Proc, WalkEnd(p)
  PROVE  FsInv'
<1>1. /\ th[p].pc = "walk" /\ TableIs(0, NoProc, 0, 0)
      /\ UNCHANGED <<dinode, dir, file, ofile, cwd, lost>>
  BY TableSame DEF WalkEnd
<1>2. CASE nameiparent(p)
  BY <1>1, <1>2, LetGo DEF WalkEnd
<1>3. CASE ~ nameiparent(p)
  BY <1>1, <1>3, GoOn DEF WalkEnd
<1> QED
  BY <1>2, <1>3

LEMMA CreateExistsInv ==
  ASSUME FsInv, NEW p \in Proc, CreateExists(p)
  PROVE  FsInv'
<1> DEFINE i == th[p].at
           e == ilock(i)
<1>1. /\ th[p].pc = "exists" /\ Unlocked(i)
      /\ UNCHANGED <<dinode, dir, file, ofile, cwd, lost>>
  BY DEF CreateExists
<1>2. i \in Inode /\ Failed(p) = "user"
  BY <1>1, FailedIs
<1>3. CASE itable' = [itable EXCEPT ![i] = [e EXCEPT !.lock = p]] /\ GoesTo(p, "open")
  <2>1. TableIs(i, p, 0, 0)
    BY <1>1, <1>2, <1>3, TableLock
  <2> QED
    BY <1>1, <1>3, <2>1, GoOn
<1>4. CASE /\ itable' = [itable EXCEPT ![i] = e]
           /\ th' = [th EXCEPT ![p] = After([th[p] EXCEPT !.at = 0], i, "user")]
  <2>1. TableIs(0, NoProc, 0, 0)
    BY <1>1, <1>2, <1>4, TableLook
  <2> QED
    BY <1>1, <1>2, <1>4, <2>1, LetGo
<1> QED
  BY <1>3, <1>4 DEF CreateExists

LEMMA OpenLockInv ==
  ASSUME FsInv, NEW p \in Proc, OpenLock(p)
  PROVE  FsInv'
<1> DEFINE i == th[p].at
           e == ilock(i)
<1>1. /\ th[p].pc = "got" /\ Unlocked(i)
      /\ UNCHANGED <<dinode, dir, file, ofile, cwd, lost>>
  BY DEF OpenLock
<1>2. i \in Inode /\ Failed(p) = "user"
  BY <1>1, FailedIs
<1>3. CASE itable' = [itable EXCEPT ![i] = [e EXCEPT !.lock = p]] /\ GoesTo(p, "open")
  <2>1. TableIs(i, p, 0, 0)
    BY <1>1, <1>2, <1>3, TableLock
  <2> QED
    BY <1>1, <1>3, <2>1, GoOn
<1>4. CASE /\ itable' = [itable EXCEPT ![i] = e]
           /\ th' = [th EXCEPT ![p] = After([th[p] EXCEPT !.at = 0], i, "user")]
  <2>1. TableIs(0, NoProc, 0, 0)
    BY <1>1, <1>2, <1>4, TableLook
  <2> QED
    BY <1>1, <1>2, <1>4, <2>1, LetGo
<1> QED
  BY <1>3, <1>4 DEF OpenLock

LEMMA ExecInv ==
  ASSUME FsInv, NEW p \in Proc, Exec(p)
  PROVE  FsInv'
<1> DEFINE i == th[p].at
<1>1. /\ th[p].pc = "got" /\ Unlocked(i) /\ itable' = [itable EXCEPT ![i] = ilock(i)]
      /\ th' = [th EXCEPT ![p] = After([th[p] EXCEPT !.at = 0], i, "user")]
      /\ UNCHANGED <<dinode, dir, file, ofile, cwd, lost>>
  BY DEF Exec
<1>2. i \in Inode /\ Failed(p) = "user"
  BY <1>1, FailedIs
<1>3. TableIs(0, NoProc, 0, 0)
  BY <1>1, <1>2, TableLook
<1> QED
  BY <1>1, <1>2, <1>3, LetGo

LEMMA ChdirInv ==
  ASSUME FsInv, NEW p \in Proc, Chdir(p)
  PROVE  FsInv'
<1> DEFINE i == th[p].at
           e == ilock(i)
           c == cwd[p]
<1>1. /\ th[p].pc = "got" /\ Unlocked(i) /\ itable' = [itable EXCEPT ![i] = e]
      /\ cwd' = [cwd EXCEPT ![p] = IF e.type = "dir" THEN i ELSE c]
      /\ th' = [th EXCEPT ![p] = After([th[p] EXCEPT !.at = 0], IF e.type = "dir" THEN c ELSE i, "user")]
      /\ UNCHANGED <<dinode, dir, file, ofile, lost>>
  BY DEF Chdir
<1>2. /\ i \in Inode /\ Failed(p) = "user" /\ th[p].ip = 0 /\ th[p].drop = 0 /\ c # 0
      /\ Locks(th[p]) = {} /\ Stage(th[p]) = "got"
  BY <1>1, FailedIs
<1>3. TableIs(0, NoProc, 0, 0)
  BY <1>1, <1>2, TableLook
<1>4. th[p] \in Thread /\ cwd = [cwd EXCEPT ![p] = c] /\ c \in Inode
  BY <1>2, Here
<1>5. CASE e.type # "dir"
  BY <1>1, <1>2, <1>3, <1>4, <1>5, LetGo
<1>6. CASE e.type = "dir"
  <2> DEFINE t == [th[p] EXCEPT !.at = 0]
             u == After(t, c, "user")
  <2>1. t \in Thread /\ t.at = 0 /\ t.ip = 0
    BY <1>2, <1>4 DEF Thread
  <2>2. th' = [th EXCEPT ![p] = u] /\ cwd' = [cwd EXCEPT ![p] = i]
    BY <1>1, <1>6
  <2> HIDE DEF t
  <2>3. u \in Thread /\ u.pc = "put" /\ u.drop = c /\ Stage(u) = "user" /\ u.at = 0 /\ u.ip = 0
    <3>1. "user" \in Pc
      BY DEF Pc
    <3> QED
      BY <1>4, <2>1, <3>1, AfterIs
  <2> HIDE DEF u
  <2>4. Moves(p, u, i)
    BY <1>2, <2>2, <2>3 DEF Moves, Shape, Putting, HasAt, HasIp
  <2>5. Locks(u) = {} /\ Owes(u) = 0 /\ Owes(th[p]) = 0
    BY <1>2, <2>3 DEF Locks, Owes
  <2>6. Keeps(p, u, i, 0, NoProc, 0, 0)
    <3>1. \A k \in Inode : One(k = 0) + Mine(th[p], c, k) = One(k = 0) + Mine(u, i, k)
      BY <1>2, <2>3, RootIs DEF Mine, One
    <3> QED
      BY <1>2, <2>5, <3>1 DEF Keeps
  <2>7. SafeAt(u, i) /\ FoundAt(u)
    BY <1>2, <2>3, StillSafe, RootIs DEF SafeAt, FoundAt
  <2> HIDE DEF c, i
  <2>8. i # 0
    BY <1>2, RootIs
  <2> QED
    BY <1>1, <1>3, <2>3, <2>4, <2>5, <2>6, <2>7, <2>8, QuietInv
<1> QED
  BY <1>5, <1>6

\* The reference is given up, and the call goes on.
LEMMA DroppedInv ==
  ASSUME FsInv, NEW p \in Proc, th[p].pc \in {"put", "unref"},
         itable' = [itable EXCEPT ![th[p].drop].ref = @ - 1],
         th' = [th EXCEPT ![p] = Dropped(th[p])],
         UNCHANGED <<dinode, dir, file, ofile, cwd, lost>>
  PROVE  FsInv'
<1> DEFINE i == th[p].drop
           c == cwd[p]
           u == Dropped(th[p])
<1>1. /\ th[p] \in Thread /\ Shape(th[p], c) /\ cwd = [cwd EXCEPT ![p] = c] /\ c \in Inode \cup {0}
      /\ c = 0 => \A d \in Fd : ofile[p][d] = 0
  BY Here
<1>2. Stage(th[p]) = th[p].then /\ th[p].pc \in Putting
  BY DEF Stage, Putting
<1>3. i \in Inode
  BY <1>1, <1>2 DEF Thread, Shape
<1>4. TableIs(0, NoProc, 0, i)
  BY <1>3, RefHeld, TableDrop
<1>5. /\ th[p].then = "user" => th[p].at = 0 /\ th[p].ip = 0
      /\ th[p].then \notin Putting \cup {"create", "unlink", "got", "parent"}
  BY <1>1, <1>2 DEF Shape, HasAt, HasIp
<1>6. Idle \in Thread
  BY IdleIs
<1>7. /\ u \in Thread /\ u.pc = th[p].then /\ u.drop = 0 /\ u.at = th[p].at /\ u.ip = th[p].ip
      /\ th[p].then # "user" => u.req = th[p].req /\ u.path = th[p].path
      /\ th[p].then = "user" => u.req = NoCall
  BY <1>1, <1>5, <1>6 DEF Dropped, Thread, Idle
<1> HIDE DEF u
<1>8. Stage(u) = th[p].then
  BY <1>5, <1>7 DEF Stage
<1>9. Shape(u, c)
  BY <1>1, <1>2, <1>5, <1>7, <1>8 DEF Shape, Putting
<1>10. Moves(p, u, c)
  BY <1>1, <1>7, <1>9 DEF Moves, u
<1>11. Locks(u) = Locks(th[p]) /\ Owes(u) = Owes(th[p])
  <2>1. CASE th[p].then = "user"
    BY <1>2, <1>5, <1>7, <1>8, <2>1 DEF Locks, Owes
  <2>2. CASE th[p].then # "user"
    BY <1>2, <1>5, <1>7, <1>8, <2>2 DEF Locks, Owes, Putting
  <2> QED
    BY <2>1, <2>2
<1>12. Keeps(p, u, c, 0, NoProc, 0, i)
  <2>1. \A k \in Inode : One(k = 0) + Mine(th[p], c, k) = One(k = i) + Mine(u, c, k)
    BY <1>7, RootIs DEF Mine, One
  <2> QED
    BY <1>11, <2>1, RootIs DEF Keeps
<1>13. SafeAt(u, c) /\ FoundAt(u)
  <2>1. SafeAt(th[p], c) /\ FoundAt(th[p])
    BY StillSafe
  <2>2. u.ip # 0 => u.req = th[p].req
    BY <1>5, <1>7
  <2> QED
    BY <1>2, <1>5, <1>7, <1>8, <2>1, <2>2 DEF SafeAt, FoundAt, Putting
<1>14. u.pc \notin {"trunc", "create", "freed"}
  BY <1>5, <1>7 DEF Putting
<1> HIDE DEF c, i
<1> QED
  BY <1>1, <1>4, <1>10, <1>11, <1>12, <1>13, <1>14, QuietInv DEF c

LEMMA FreedInv ==
  ASSUME FsInv, NEW p \in Proc, Freed(p)
  PROVE  FsInv'
<1> DEFINE i == th[p].drop
           c == cwd[p]
           u == [th[p] EXCEPT !.pc = "unref"]
<1>1. /\ th[p].pc = "freed" /\ itable' = [itable EXCEPT ![i].valid = FALSE, ![i].lock = NoProc]
      /\ th' = [th EXCEPT ![p] = u] /\ UNCHANGED <<dinode, dir, file, ofile, cwd, lost>>
  BY DEF Freed, GoesTo
<1>2. /\ th[p] \in Thread /\ Shape(th[p], c) /\ cwd = [cwd EXCEPT ![p] = c] /\ c \in Inode \cup {0}
      /\ c = 0 => \A d \in Fd : ofile[p][d] = 0
      /\ \A k \in Inode : itable[k].lock = p <=> k \in Locks(th[p])
  BY Here
<1>3. /\ u \in Thread /\ u.pc = "unref" /\ u.drop = i /\ u.then = th[p].then
      /\ u.at = th[p].at /\ u.ip = th[p].ip /\ u.req = th[p].req /\ u.path = th[p].path
  BY <1>2 DEF Thread, Pc
<1>4. Stage(u) = Stage(th[p]) /\ th[p].pc \in Putting /\ u.pc \in Putting
  BY <1>1, <1>3 DEF Stage, Putting
<1>5. i \in Inode
  BY <1>2, <1>4 DEF Thread, Shape
<1> HIDE DEF u
<1>6. Moves(p, u, c)
  BY <1>1, <1>2, <1>3, <1>4 DEF Moves, Shape
<1>7. i \in Locks(th[p])
  BY <1>1 DEF Locks
<1>8. \A k \in Inode : k \in Locks(u) <=> IF k = i THEN NoProc = p ELSE k \in Locks(th[p])
  <2>1. i # u.at /\ i # u.ip
    BY <1>1, <1>2, <1>3 DEF Shape
  <2>2. i \notin Locks(u)
    BY <1>3, <2>1 DEF Locks
  <2> QED
    BY <1>3, <1>4, <2>2 DEF Locks
<1>9. Keeps(p, u, c, i, NoProc, 0, 0)
  <2>1. \A k \in Inode : One(k = 0) + Mine(th[p], c, k) = One(k = 0) + Mine(u, c, k)
    BY <1>3 DEF Mine, One
  <2> QED
    BY <1>2, <1>5, <1>7, <1>8, <2>1 DEF Keeps
<1>10. TableIs(i, NoProc, 0, 0) /\ ~ itable'[i].valid
  <2>1. itable \in Table
    BY Before
  <2>2. /\ itable' \in Table
        /\ itable'[i].ref = itable[i].ref /\ itable'[i].lock = NoProc /\ itable'[i].valid = FALSE
        /\ \A k \in Inode \ {i} : itable'[k] = itable[k]
    <3> DEFINE e == [itable[i] EXCEPT !.valid = FALSE, !.lock = NoProc]
    <3>1. itable[i] \in [ref : Nat, valid : BOOLEAN, lock : Proc \cup {NoProc}, type : Type, nlink : Nat]
      BY <1>5, <2>1 DEF Table
    <3>2. itable' = [itable EXCEPT ![i] = e]
      BY <1>1, <1>5, <2>1 DEF Table
    <3>3. /\ e \in [ref : Nat, valid : BOOLEAN, lock : Proc \cup {NoProc}, type : Type, nlink : Nat]
          /\ e.ref = itable[i].ref /\ e.lock = NoProc /\ e.valid = FALSE
      BY <3>1
    <3> HIDE DEF e
    <3> QED
      BY <1>5, <2>1, <3>2, <3>3 DEF Table
  <2>3. \A k \in Inode : itable[k].lock # NoProc => itable[k].valid
    BY LockedRef DEF Unlocked
  <2>4. \A k \in Inode : itable[k].ref \in Nat
    BY <2>1 DEF Table
  <2>5. ASSUME NEW k \in Inode
        PROVE  /\ itable'[k].ref = itable[k].ref
               /\ itable'[k].lock = IF k = i THEN NoProc ELSE itable[k].lock
               /\ itable'[k].lock # NoProc => itable'[k].valid
               /\ itable'[k].valid => itable[k].valid /\ itable'[k] = itable[k]
    BY <2>2, <2>3
  <2> QED
    BY <2>2, <2>4, <2>5 DEF TableIs, One
<1>11. SafeAt(u, c) /\ FoundAt(u) /\ Owes(u) = Owes(th[p])
  BY <1>1, <1>3, <1>4, StillSafe DEF SafeAt, FoundAt, Owes
<1> HIDE DEF c
<1>12. /\ th[p].pc # "trunc" /\ u.pc \notin {"trunc", "create", "freed"}
       /\ UNCHANGED <<dinode, dir, lost, file, ofile>>
  BY <1>1, <1>3
<1> QED
  BY <1>2, <1>6, <1>9, <1>10, <1>11, <1>12, QuietInv DEF c

LEMMA UnrefInv ==
  ASSUME FsInv, NEW p \in Proc, Unref(p)
  PROVE  FsInv'
BY DroppedInv DEF Unref

LEMMA DropIpInv ==
  ASSUME FsInv, NEW p \in Proc, DropIp(p)
  PROVE  FsInv'
<1> DEFINE i == th[p].ip
           c == cwd[p]
           t == [th[p] EXCEPT !.ip = 0]
           u == After(t, i, "user")
           l == IF itable[i].lock = p THEN i ELSE 0
<1>1. /\ th[p].pc = "dropip" /\ th' = [th EXCEPT ![p] = u]
      /\ itable' = [itable EXCEPT ![i].lock = IF @ = p THEN NoProc ELSE @]
      /\ UNCHANGED <<dinode, dir, file, ofile, cwd, lost>>
  BY DEF DropIp
<1>2. /\ th[p] \in Thread /\ Shape(th[p], c) /\ cwd = [cwd EXCEPT ![p] = c] /\ c \in Inode \cup {0}
      /\ c = 0 => \A d \in Fd : ofile[p][d] = 0
      /\ \A k \in Inode : itable[k].lock = p <=> k \in Locks(th[p])
  BY Here
<1>3. Stage(th[p]) = "dropip" /\ th[p].pc \notin Putting
  BY <1>1 DEF Stage, Putting
<1>4. i \in Inode /\ th[p].at = 0 /\ th[p].drop = 0
  BY <1>2, <1>3 DEF Thread, Shape, HasIp, HasAt
<1>5. t \in Thread /\ t.at = 0 /\ t.ip = 0 /\ t.req = th[p].req
  BY <1>2, <1>4 DEF Thread
<1> HIDE DEF t
<1>6. /\ u \in Thread /\ u.pc = "put" /\ u.drop = i /\ Stage(u) = "user" /\ u.at = 0 /\ u.ip = 0
      /\ u.req = th[p].req
  <2>1. "user" \in Pc
    BY DEF Pc
  <2> QED
    BY <1>4, <1>5, <2>1, AfterIs
<1> HIDE DEF u
<1>7. Moves(p, u, c)
  <2>1. i # 0
    BY <1>4, RootIs
  <2>2. Shape(u, c)
    BY <1>6, <2>1 DEF Shape, Putting, HasAt, HasIp
  <2> QED
    BY <1>1, <1>2, <1>6, <2>2 DEF Moves
<1>8. Locks(u) = {} /\ Owes(u) = Owes(th[p]) /\ Locks(th[p]) \subseteq {i}
  BY <1>1, <1>3, <1>6 DEF Locks, Owes
<1>9. TableIs(l, NoProc, 0, 0)
  <2>1. CASE itable[i].lock = p
    <3>1. itable' = [itable EXCEPT ![i].lock = NoProc]
      BY <1>1, <2>1
    <3> QED
      BY <1>4, <2>1, <3>1, TableUnlock
  <2>2. CASE itable[i].lock # p
    <3>1. itable' = itable
      BY <1>1, <2>2, Before DEF Table
    <3> QED
      BY <2>2, <3>1, TableSame
  <2> QED
    BY <2>1, <2>2
<1>10. Keeps(p, u, c, l, NoProc, 0, 0)
  <2>1. \A k \in Inode : One(k = 0) + Mine(th[p], c, k) = One(k = 0) + Mine(u, c, k)
    BY <1>4, <1>6, RootIs DEF Mine, One
  <2>2. \A k \in Inode : k \in Locks(u) <=> IF k = l THEN NoProc = p ELSE k \in Locks(th[p])
    BY <1>2, <1>8
  <2> QED
    BY <1>2, <2>1, <2>2 DEF Keeps
<1>11. SafeAt(u, c) /\ FoundAt(u)
  <2>1. SafeAt(th[p], c)
    BY StillSafe
  <2>2. i # 0
    BY <1>4, RootIs
  <2> QED
    BY <1>1, <1>6, <2>1, <2>2 DEF SafeAt, FoundAt
<1> HIDE DEF c, l
<1> QED
  BY <1>1, <1>2, <1>6, <1>7, <1>8, <1>9, <1>10, <1>11, QuietInv DEF c

LEMMA DropDpInv ==
  ASSUME FsInv, NEW p \in Proc, DropDp(p)
  PROVE  FsInv'
<1> DEFINE i == th[p].at
           c == cwd[p]
           t == [th[p] EXCEPT !.at = 0]
           u == After(t, i, "user")
<1>1. /\ th[p].pc = "dropdp" /\ th' = [th EXCEPT ![p] = u]
      /\ itable' = [itable EXCEPT ![i].lock = NoProc]
      /\ UNCHANGED <<dinode, dir, file, ofile, cwd, lost>>
  BY DEF DropDp
<1>2. /\ th[p] \in Thread /\ Shape(th[p], c) /\ cwd = [cwd EXCEPT ![p] = c] /\ c \in Inode \cup {0}
      /\ c = 0 => \A d \in Fd : ofile[p][d] = 0
      /\ \A k \in Inode : itable[k].lock = p <=> k \in Locks(th[p])
  BY Here
<1>3. Stage(th[p]) = "dropdp" /\ th[p].pc \notin Putting
  BY <1>1 DEF Stage, Putting
<1>4. i \in Inode /\ th[p].ip = 0 /\ th[p].drop = 0
  BY <1>2, <1>3 DEF Thread, Shape, HasIp, HasAt
<1>5. t \in Thread /\ t.at = 0 /\ t.ip = 0 /\ t.req = th[p].req
  BY <1>2, <1>4 DEF Thread
<1> HIDE DEF t
<1>6. /\ u \in Thread /\ u.pc = "put" /\ u.drop = i /\ Stage(u) = "user" /\ u.at = 0 /\ u.ip = 0
      /\ u.req = th[p].req
  <2>1. "user" \in Pc
    BY DEF Pc
  <2> QED
    BY <1>4, <1>5, <2>1, AfterIs
<1> HIDE DEF u
<1>7. Moves(p, u, c)
  <2>1. i # 0
    BY <1>4, RootIs
  <2>2. Shape(u, c)
    BY <1>6, <2>1 DEF Shape, Putting, HasAt, HasIp
  <2> QED
    BY <1>1, <1>2, <1>6, <2>2 DEF Moves
<1>8. Locks(u) = {} /\ Owes(u) = Owes(th[p]) /\ Locks(th[p]) = {i}
  BY <1>1, <1>3, <1>4, <1>6 DEF Locks, Owes
<1>9. TableIs(i, NoProc, 0, 0)
  BY <1>1, <1>4, TableUnlock
<1>10. Keeps(p, u, c, i, NoProc, 0, 0)
  <2>1. \A k \in Inode : One(k = 0) + Mine(th[p], c, k) = One(k = 0) + Mine(u, c, k)
    BY <1>4, <1>6, RootIs DEF Mine, One
  <2>2. \A k \in Inode : k \in Locks(u) <=> IF k = i THEN NoProc = p ELSE k \in Locks(th[p])
    BY <1>2, <1>8
  <2> QED
    BY <1>2, <1>4, <1>8, <2>1, <2>2 DEF Keeps
<1>11. SafeAt(u, c) /\ FoundAt(u)
  <2>1. SafeAt(th[p], c)
    BY StillSafe
  <2>2. i # 0
    BY <1>4, RootIs
  <2> QED
    BY <1>1, <1>6, <2>1, <2>2 DEF SafeAt, FoundAt
<1> HIDE DEF c, i
<1> QED
  BY <1>1, <1>2, <1>6, <1>7, <1>8, <1>9, <1>10, <1>11, QuietInv DEF c

\* The name that create(), unlink() and link() are given, and the parent.
LEMMA AtParent ==
  ASSUME FsInv, NEW p \in Proc, th[p].pc = "parent"
  PROVE  /\ name(p) \in Name /\ name(p) # ".." /\ dinode[th[p].at].type = "dir"
         /\ dir[th[p].at][name(p)] \in Inode \cup {0}
         /\ dir[th[p].at][name(p)] # 0 => Safe(dir[th[p].at][name(p)])
<1>1. th[p].at \in Inode /\ Stage(th[p]) = "parent"
  BY FailedIs
<1>2. th[p].path \in Seq(Name) /\ th[p].path # <<>>
  BY <1>1, Here DEF Thread, Shape
<1>3. name(p) \in Name
  BY <1>2, PathHead DEF name
<1>4. name(p) # ".."
  BY <1>3
<1>5. dir[th[p].at][name(p)] \in Inode \cup {0}
  BY <1>1, <1>3, Before DEF Entries, Entry
<1>6. dir[th[p].at][name(p)] # 0 => Safe(dir[th[p].at][name(p)])
  BY <1>1, <1>3, NamedSafe
<1>7. dinode[th[p].at].type = "dir"
  BY <1>1, StillSafe DEF FoundAt
<1> QED
  BY <1>3, <1>4, <1>5, <1>6, <1>7

\* create() finds the name, or no inode is free.
LEMMA CreateNoneInv ==
  ASSUME FsInv, NEW p \in Proc, Create(p), dinode' = dinode
  PROVE  FsInv' \/ (dir[th[p].at][name(p)] = 0 /\ FreeInodes # {})
<1> DEFINE i == th[p].at
           e == ilock(i)
           j == dir[i][name(p)]
           c == cwd[p]
<1>1. /\ th[p].pc = "parent" /\ Creates(p) /\ Unlocked(i)
      /\ UNCHANGED <<dinode, dir, file, ofile, cwd, lost>>
  BY DEF Create
<1>2. /\ i \in Inode /\ Stage(th[p]) = "parent" /\ th[p].drop = 0 /\ c # 0 /\ Locks(th[p]) = {}
      /\ th[p].req.call \in ParentCall \ {"unlink"}
  BY <1>1, FailedIs DEF Creates
<1>3. th[p].ip = 0 /\ Failed(p) = "user"
  BY <1>1, <1>2, FailedIs DEF ParentCall
<1>4. CASE /\ j # 0
           /\ itable' = iget([itable EXCEPT ![i] = e], j)
           /\ th' = [th EXCEPT ![p] = After([th[p] EXCEPT !.at = j], i, "exists")]
  <2> DEFINE t == [th[p] EXCEPT !.at = j]
             u == After(t, i, "exists")
  <2>1. /\ th[p] \in Thread /\ Shape(th[p], c) /\ cwd = [cwd EXCEPT ![p] = c] /\ c \in Inode \cup {0}
    BY Here
  <2>2. j \in Inode /\ Safe(j)
    BY <1>1, <1>4, AtParent
  <2> HIDE DEF j
  <2>3. t \in Thread /\ t.at = j /\ t.ip = 0 /\ t.req = th[p].req
    BY <1>3, <2>1, <2>2 DEF Thread
  <2>4. th' = [th EXCEPT ![p] = u]
    BY <1>4
  <2> HIDE DEF t
  <2>5. /\ u \in Thread /\ u.pc = "put" /\ u.drop = i /\ Stage(u) = "exists"
        /\ u.at = j /\ u.ip = 0 /\ u.req = th[p].req
    <3>1. "exists" \in Pc
      BY DEF Pc
    <3> QED
      BY <1>2, <2>3, <3>1, AfterIs
  <2> HIDE DEF u
  <2>6. Moves(p, u, c)
    <3>1. i # 0 /\ j # 0
      BY <1>2, <2>2, RootIs
    <3>2. Shape(u, c)
      BY <1>2, <2>5, <3>1 DEF Shape, Putting, HasAt, HasIp
    <3> QED
      BY <1>1, <2>1, <2>4, <2>5, <3>2 DEF Moves
  <2>7. Locks(u) = {} /\ Owes(u) = Owes(th[p])
    BY <1>2, <1>3, <2>5 DEF Locks, Owes
  <2>8. TableIs(0, NoProc, j, 0)
    <3>1. itable[i].ref >= 1
      BY <1>2, RefHeld
    <3> QED
      BY <1>1, <1>2, <1>4, <2>2, <3>1, TableLook
  <2>9. Keeps(p, u, c, 0, NoProc, j, 0)
    <3>1. \A k \in Inode : One(k = j) + Mine(th[p], c, k) = One(k = 0) + Mine(u, c, k)
      BY <1>2, <1>3, <2>5, RootIs DEF Mine, One
    <3> QED
      BY <1>2, <2>7, <3>1 DEF Keeps
  <2>10. SafeAt(u, c) /\ FoundAt(u)
    <3>1. SafeAt(th[p], c) /\ FoundAt(th[p])
      BY StillSafe
    <3>2. Safe(i)
      BY <1>2, <3>1, RootIs DEF SafeAt
    <3> QED
      BY <1>1, <2>2, <2>5, <3>1, <3>2 DEF SafeAt, FoundAt
  <2> HIDE DEF c
  <2> QED
    BY <1>1, <1>2, <2>5, <2>6, <2>7, <2>8, <2>9, <2>10, QuietInv
<1>5. CASE /\ itable' = [itable EXCEPT ![i] = e]
           /\ th' = [th EXCEPT ![p] = After([th[p] EXCEPT !.at = 0], i, "user")]
  <2>1. TableIs(0, NoProc, 0, 0)
    BY <1>1, <1>2, <1>5, TableLook
  <2> QED
    BY <1>1, <1>3, <1>5, <2>1, LetGo
<1> QED
  BY <1>4, <1>5 DEF Create

\* unlink() holds the parent when it goes to the inode.
LEMMA UnlinkInv ==
  ASSUME FsInv, NEW p \in Proc, Unlink(p)
  PROVE  FsInv'
<1> DEFINE i == th[p].at
           e == ilock(i)
           j == dir[i][name(p)]
           c == cwd[p]
<1>1. /\ th[p].pc = "parent" /\ th[p].req.call = "unlink" /\ Unlocked(i)
      /\ UNCHANGED <<dinode, dir, file, ofile, cwd, lost>>
  BY DEF Unlink
<1>2. /\ i \in Inode /\ Stage(th[p]) = "parent" /\ th[p].drop = 0 /\ c # 0 /\ Locks(th[p]) = {}
      /\ th[p].ip = 0 /\ Failed(p) = "user"
  BY <1>1, FailedIs
<1>3. CASE /\ itable' = [itable EXCEPT ![i] = e]
           /\ th' = [th EXCEPT ![p] = After([th[p] EXCEPT !.at = 0], i, "user")]
  <2>1. TableIs(0, NoProc, 0, 0)
    BY <1>1, <1>2, <1>3, TableLook
  <2> QED
    BY <1>1, <1>2, <1>3, <2>1, LetGo
<1>4. CASE /\ j # 0
           /\ itable' = iget([itable EXCEPT ![i] = [e EXCEPT !.lock = p]], j)
           /\ th' = [th EXCEPT ![p].pc = "unlink", ![p].ip = j]
  <2> DEFINE u == [th[p] EXCEPT !.pc = "unlink", !.ip = j]
  <2>1. /\ th[p] \in Thread /\ Shape(th[p], c) /\ cwd = [cwd EXCEPT ![p] = c] /\ c \in Inode \cup {0}
        /\ \A k \in Inode : itable[k].lock = p <=> k \in Locks(th[p])
    BY Here
  <2>2. j \in Inode /\ Safe(j)
    BY <1>1, <1>4, AtParent
  <2>3. th' = [th EXCEPT ![p] = u]
    BY <1>4, <2>1, Before
  <2>4. FoundAt(u) <=> /\ dinode[i].type = "dir"
                       /\ j = u.ip
    <3>1. /\ u.pc = "unlink" /\ u.at = i /\ u.req = th[p].req /\ Head(u.path) = name(p)
      BY <2>1 DEF Thread, name
    <3>2. Stage(u) = "unlink"
      BY <3>1 DEF Stage, Putting
    <3> QED
      BY <1>1, <3>1, <3>2 DEF FoundAt
  <2> HIDE DEF j
  <2>5. /\ u \in Thread /\ u.pc = "unlink" /\ u.drop = 0 /\ u.at = i /\ u.ip = j
        /\ u.req = th[p].req /\ u.path = th[p].path
    <3>1. "unlink" \in Pc
      BY DEF Pc
    <3> QED
      BY <1>2, <2>1, <2>2, <3>1 DEF Thread
  <2> HIDE DEF u
  <2>6. Stage(u) = "unlink" /\ i # 0 /\ j # 0
    BY <1>2, <2>2, <2>5, RootIs DEF Stage, Putting
  <2>7. Moves(p, u, c)
    <3>1. Shape(u, c)
      BY <1>1, <1>2, <2>1, <2>5, <2>6 DEF Shape, Putting, HasAt, HasIp
    <3> QED
      BY <1>1, <2>1, <2>3, <2>5, <3>1 DEF Moves
  <2>8. Locks(u) = {i} /\ Owes(u) = Owes(th[p])
    BY <1>1, <1>2, <2>5, <2>6 DEF Locks, Owes
  <2>9. TableIs(i, p, j, 0)
    <3>1. itable[i].ref >= 1
      BY <1>2, RefHeld
    <3> QED
      BY <1>1, <1>2, <1>4, <2>2, <3>1, TableLock
  <2>10. Keeps(p, u, c, i, p, j, 0)
    <3>1. \A k \in Inode : One(k = j) + Mine(th[p], c, k) = One(k = 0) + Mine(u, c, k)
      BY <1>2, <2>5, RootIs DEF Mine, One
    <3> QED
      BY <1>1, <1>2, <2>8, <3>1 DEF Keeps, Unlocked
  <2>11. SafeAt(u, c) /\ FoundAt(u)
    <3>1. SafeAt(th[p], c) /\ dinode[i].type = "dir"
      BY <1>1, StillSafe, AtParent
    <3> QED
      BY <2>2, <2>4, <2>5, <3>1 DEF SafeAt
  <2> HIDE DEF c, i
  <2> QED
    BY <1>1, <1>2, <2>5, <2>7, <2>8, <2>9, <2>10, <2>11, QuietInv
<1> QED
  BY <1>1, <1>3, <1>4, AtParent DEF Unlink

\* create() gives up its new inode, or unlink() one that it may not remove; the
\* parent stays locked.
LEMMA GiveUpInv ==
  ASSUME FsInv, NEW p \in Proc, th[p].pc \in {"create", "unlink"}, Unlocked(th[p].ip),
         itable' = [itable EXCEPT ![th[p].ip] = ilock(th[p].ip)],
         th' = [th EXCEPT ![p] = After([th[p] EXCEPT !.ip = 0], th[p].ip, "dropdp")],
         UNCHANGED <<dinode, dir, file, ofile, cwd, lost>>
  PROVE  FsInv'
<1> DEFINE i == th[p].ip
           c == cwd[p]
           t == [th[p] EXCEPT !.ip = 0]
           u == After(t, i, "dropdp")
<1>1. th' = [th EXCEPT ![p] = u]
  OBVIOUS
<1>2. /\ th[p] \in Thread /\ Shape(th[p], c) /\ cwd = [cwd EXCEPT ![p] = c] /\ c \in Inode \cup {0}
      /\ c = 0 => \A d \in Fd : ofile[p][d] = 0
  BY Here
<1>3. Stage(th[p]) = th[p].pc /\ th[p].pc \notin Putting
  BY DEF Stage, Putting
<1>4. i \in Inode /\ th[p].at \in Inode /\ th[p].drop = 0 /\ c # 0
  BY <1>2, <1>3 DEF Thread, Shape, HasIp, HasAt
<1>5. t \in Thread /\ t.at = th[p].at /\ t.ip = 0 /\ t.req = th[p].req
  BY <1>2, <1>4 DEF Thread
<1> HIDE DEF t
<1>6. /\ u \in Thread /\ u.pc = "put" /\ u.drop = i /\ Stage(u) = "dropdp" /\ u.at = th[p].at
      /\ u.ip = 0 /\ u.req = th[p].req
  <2>1. "dropdp" \in Pc
    BY DEF Pc
  <2> QED
    BY <1>4, <1>5, <2>1, AfterIs
<1> HIDE DEF u
<1>7. Moves(p, u, c)
  <2>1. i # 0 /\ th[p].at # 0
    BY <1>4, RootIs
  <2>2. Shape(u, c)
    BY <1>4, <1>6, <2>1 DEF Shape, Putting, HasAt, HasIp
  <2> QED
    BY <1>1, <1>2, <1>6, <2>2 DEF Moves
<1>8. Locks(u) = Locks(th[p]) /\ Owes(u) = Owes(th[p])
  <2>1. th[p].req.call # "link"
    BY <1>2, <1>3 DEF Shape, ParentCall
  <2> QED
    BY <1>3, <1>6, <2>1 DEF Locks, Owes
<1>9. TableIs(0, NoProc, 0, 0)
  BY <1>4, TableLook
<1>10. Keeps(p, u, c, 0, NoProc, 0, 0)
  <2>1. \A k \in Inode : One(k = 0) + Mine(th[p], c, k) = One(k = 0) + Mine(u, c, k)
    BY <1>4, <1>6, RootIs DEF Mine, One
  <2> QED
    BY <1>8, <2>1, RootIs DEF Keeps
<1>11. FoundAt(u)
  <2>1. FoundAt(th[p])
    BY StillSafe
  <2> QED
    BY <1>3, <1>6, <2>1 DEF FoundAt
<1>12. SafeAt(th[p], cwd[p])'
  <2>1. th'[p] = u /\ cwd'[p] = c /\ \A q \in Proc \ {p} : th'[q] = th[q]
    BY <1>7, MovesTo
  <2>2. \A k : Safe(k) => Safe(k)'
    BY <1>6, <1>7, SafeStep
  <2>3. SafeAt(th[p], c)
    BY StillSafe
  <2>4. ASSUME NEW k, k = i PROVE Safe(k)'
    <3>1. CASE th[p].pc = "unlink"
      BY <1>4, <2>2, <2>3, <2>4, <3>1, RootIs DEF SafeAt
    <3>2. CASE th[p].pc = "create"
      <4>1. dinode[i] = Dinode(NewType(p), 0) /\ \A q \in Proc \ {p} : th[q].pc = "create" => th[q].ip # i
        BY <3>2 DEF FsInv, AllocInv
      <4>2. dinode[i].type # "none"
        BY <4>1 DEF Dinode, NewType
      <4>3. \A q \in Proc : th[q].pc = "trunc" => th[q].drop # i
        BY <3>2 DEF FsInv, AllocInv
      <4> QED
        BY <1>6, <2>1, <2>4, <4>1, <4>2, <4>3 DEF Safe
    <3> QED
      BY <3>1, <3>2
  <2>5. Safe(cwd'[p]) /\ Safe(th'[p].at) /\ th'[p].drop = i /\ th'[p].ip = 0
    BY <1>4, <1>6, <2>1, <2>3, RootIs DEF SafeAt
  <2> QED
    BY <2>2, <2>4, <2>5 DEF SafeAt
<1> QED
  BY <1>2, <1>4, <1>6, <1>7, <1>8, <1>9, <1>10, <1>11, <1>12, QuietInv

LEMMA CreateFailInv ==
  ASSUME FsInv, NEW p \in Proc, CreateFail(p)
  PROVE  FsInv'
<1> DEFINE i == th[p].ip
           e == [ilock(i) EXCEPT !.nlink = 0]
<1>1. /\ th[p].pc = "create" /\ Unlocked(i)
      /\ itable' = [itable EXCEPT ![i] = e] /\ dinode' = [dinode EXCEPT ![i] = iupdate(e)]
      /\ th' = [th EXCEPT ![p] = After([th[p] EXCEPT !.ip = 0], i, "dropdp")]
      /\ UNCHANGED <<dir, file, ofile, cwd, lost>>
  BY DEF CreateFail
<1>2. i \in Inode
  BY <1>1, Here DEF Thread, Shape, HasIp, Stage, Putting
<1>3. dinode[i] = Dinode(NewType(p), 0)
  BY <1>1 DEF FsInv, AllocInv
<1>4. ilock(i).nlink = 0 /\ ilock(i).type = NewType(p)
  <2>1. Dinode(ilock(i).type, ilock(i).nlink) = dinode[i]
    BY <1>1, <1>2, IlockCurrent
  <2> QED
    BY <1>3, <2>1 DEF Dinode
<1>5. e = ilock(i)
  BY <1>2, <1>4, IlockIs
<1>6. dinode' = dinode
  <2>1. iupdate(e) = dinode[i]
    BY <1>3, <1>4, <1>5 DEF iupdate
  <2> QED
    BY <1>1, <1>2, <2>1, Before DEF Disk
<1> HIDE DEF e
<1> QED
  BY <1>1, <1>5, <1>6, GiveUpInv

\* unlink() of a directory that is not empty.
LEMMA UnlinkFailInv ==
  ASSUME FsInv, NEW p \in Proc, UnlinkEntry(p),
         ilock(th[p].ip).type = "dir" /\ ~ isdirempty(th[p].ip)
  PROVE  FsInv'
BY GiveUpInv DEF UnlinkEntry

\* link() of a directory.
LEMMA LinkDirInv ==
  ASSUME FsInv, NEW p \in Proc, Link(p), ilock(th[p].at).type = "dir"
  PROVE  FsInv'
<1> DEFINE i == th[p].at
<1>1. /\ th[p].pc = "got" /\ Unlocked(i) /\ itable' = [itable EXCEPT ![i] = ilock(i)]
      /\ th' = [th EXCEPT ![p] = After([th[p] EXCEPT !.at = 0], i, "user")]
      /\ UNCHANGED <<dinode, dir, file, ofile, cwd, lost>>
  BY DEF Link
<1>2. i \in Inode /\ Failed(p) = "user"
  BY <1>1, FailedIs
<1>3. TableIs(0, NoProc, 0, 0)
  BY <1>1, <1>2, TableLook
<1> QED
  BY <1>1, <1>2, <1>3, LetGo

\* The new name of link() exists, or no block is left.
LEMMA LinkFailInv ==
  ASSUME FsInv, NEW p \in Proc, LinkEntry(p), dir' = dir,
         th' = [th EXCEPT ![p] = After([th[p] EXCEPT !.at = 0], th[p].at, "linkbad")]
  PROVE  FsInv'
<1> DEFINE i == th[p].at
<1>1. /\ th[p].pc = "parent" /\ Second(p) /\ Unlocked(i) /\ itable' = [itable EXCEPT ![i] = ilock(i)]
      /\ UNCHANGED <<dinode, dir, file, ofile, cwd, lost>>
  BY DEF LinkEntry
<1>2. i \in Inode /\ Failed(p) = "linkbad"
  BY <1>1, FailedIs DEF Second
<1>3. TableIs(0, NoProc, 0, 0)
  BY <1>1, <1>2, TableLook
<1> QED
  BY <1>1, <1>2, <1>3, LetGo

\* iput() takes the last reference to an inode without links.
LEMMA PutLastInv ==
  ASSUME FsInv, NEW p \in Proc, Put(p), LastOfUnlinked(th[p].drop)
  PROVE  FsInv'
<1> DEFINE i == th[p].drop
           c == cwd[p]
           u == [th[p] EXCEPT !.pc = "trunc"]
<1>1. /\ th[p].pc = "put" /\ Unlocked(i) /\ itable[i].ref = 1 /\ itable[i].valid /\ itable[i].nlink = 0
      /\ itable' = [itable EXCEPT ![i].lock = p] /\ th' = [th EXCEPT ![p] = u]
      /\ UNCHANGED <<dinode, dir, file, ofile, cwd, lost>>
  BY DEF Put, GoesTo, LastOfUnlinked
<1>2. /\ th[p] \in Thread /\ Shape(th[p], c) /\ cwd = [cwd EXCEPT ![p] = c] /\ c \in Inode \cup {0}
      /\ c = 0 => \A d \in Fd : ofile[p][d] = 0
      /\ \A k \in Inode : itable[k].lock = p <=> k \in Locks(th[p])
  BY Here
<1>3. i \in Inode
  BY <1>1, <1>2 DEF Thread, Shape, Putting
<1>4. /\ \A q \in Proc : cwd[q] # i /\ th[q].at # i /\ th[q].ip # i
      /\ \A q \in Proc \ {p} : th[q].drop # i
      /\ \A f \in File : file[f].ip # i
  BY <1>1, <1>3, RefAlone
<1>5. /\ u \in Thread /\ u.pc = "trunc" /\ u.drop = i /\ u.then = th[p].then
      /\ u.at = th[p].at /\ u.ip = th[p].ip /\ u.req = th[p].req /\ u.path = th[p].path
  <2>1. "trunc" \in Pc
    BY DEF Pc
  <2> QED
    BY <1>2, <2>1 DEF Thread
<1> HIDE DEF u
<1>6. Stage(u) = Stage(th[p]) /\ th[p].pc \in Putting /\ u.pc \in Putting
  BY <1>1, <1>5 DEF Stage, Putting
<1>7. Moves(p, u, c)
  <2>1. Shape(u, c)
    BY <1>2, <1>4, <1>5, <1>6 DEF Shape
  <2> QED
    BY <1>1, <1>2, <1>5, <2>1 DEF Moves
<1>8. /\ th'[p] = u /\ cwd' = cwd /\ \A q \in Proc \ {p} : th'[q] = th[q]
  BY <1>1, <1>7, MovesTo
<1>9. /\ itable' \in Table
      /\ itable'[i].ref = itable[i].ref /\ itable'[i].lock = p /\ itable'[i].valid = itable[i].valid
      /\ itable'[i].type = itable[i].type /\ itable'[i].nlink = itable[i].nlink
      /\ \A k \in Inode \ {i} : itable'[k] = itable[k]
  <2> DEFINE e == [itable[i] EXCEPT !.lock = p]
  <2>1. itable \in Table /\ itable[i] \in [ref : Nat, valid : BOOLEAN, lock : Proc \cup {NoProc}, type : Type, nlink : Nat]
    BY <1>3, Before DEF Table
  <2>2. itable' = [itable EXCEPT ![i] = e]
    BY <1>1, <1>3, <2>1 DEF Table
  <2>3. /\ e \in [ref : Nat, valid : BOOLEAN, lock : Proc \cup {NoProc}, type : Type, nlink : Nat]
        /\ e.ref = itable[i].ref /\ e.lock = p /\ e.valid = itable[i].valid
        /\ e.type = itable[i].type /\ e.nlink = itable[i].nlink
    BY <2>1
  <2> HIDE DEF e
  <2> QED
    BY <1>3, <2>1, <2>2, <2>3 DEF Table
<1>10. TableIs(i, p, 0, 0)
  <2>1. \A k \in Inode : itable[k].lock # NoProc => itable[k].valid
    BY LockedRef DEF Unlocked
  <2>2. ASSUME NEW k \in Inode
        PROVE  /\ itable'[k].ref = itable[k].ref
               /\ itable'[k].lock = IF k = i THEN p ELSE itable[k].lock
               /\ itable'[k].lock # NoProc => itable'[k].valid
               /\ itable'[k].valid = itable[k].valid /\ itable'[k].type = itable[k].type
               /\ itable'[k].nlink = itable[k].nlink
    BY <1>1, <1>9, <2>1
  <2>3. \A k \in Inode : itable[k].ref \in Nat
    BY Before DEF Table
  <2> QED
    BY <1>9, <2>2, <2>3, RootIs DEF TableIs, One
<1>11. Keeps(p, u, c, i, p, 0, 0)
  <2>1. \A k \in Inode : One(k = 0) + Mine(th[p], c, k) = One(k = 0) + Mine(u, c, k)
    BY <1>5 DEF Mine, One
  <2>2. \A k \in Inode : k \in Locks(u) <=> IF k = i THEN p = p ELSE k \in Locks(th[p])
    BY <1>1, <1>5, <1>6 DEF Locks
  <2> QED
    BY <1>1, <2>1, <2>2 DEF Keeps, Unlocked
<1>12. CallInv' /\ RefCounts'
  <2>1. Relocks(p, u) /\ itable' \in Table /\ Recounts(p, u, c)
    BY <1>10, <1>11, KeepsCore
  <2>2. dinode' \in Disk /\ dir' \in Entries /\ lost' \in [Inode -> Nat]
    BY <1>1, Before
  <2>3. file' = file /\ ofile' = ofile /\ (c = 0 => \A d \in Fd : ofile[p][d] = 0)
    BY <1>1, <1>2
  <2> HIDE DEF c
  <2> QED
    BY <1>7, <2>1, <2>2, <2>3, CoreInv
<1>13. CacheInv'
  <2>1. \A k \in Inode : CurrentAt(p, k)
    BY <1>1, <1>10 DEF TableIs, CurrentAt
  <2> QED
    BY <1>5, <1>7, <2>1, CacheStep
<1>14. LinkInv' /\ TreeInv' /\ FoundInv' /\ RankInv'
  <2>1. FoundAt(u) /\ Owes(u) = Owes(th[p])
    <3>1. FoundAt(th[p])
      BY StillSafe
    <3> QED
      BY <1>5, <1>6, <3>1 DEF FoundAt, Owes
  <2> QED
    BY <1>1, <1>7, <2>1, DiskSame
<1>15. AllocInv'
  <2>1. \A k : Safe(k) /\ k # i => Safe(k)'
    BY <1>1, <1>5, <1>8 DEF Safe
  <2>2. ASSUME NEW q \in Proc
        PROVE  /\ (cwd[q] # 0 => Safe(cwd[q]))'
               /\ (th[q].at # 0 => Safe(th[q].at))'
               /\ (th[q].ip # 0 /\ th[q].pc # "create" => Safe(th[q].ip))'
               /\ (th[q].pc = "put" => Safe(th[q].drop))'
    <3>1. SafeAt(th[q], cwd[q])
      BY StillSafe
    <3>2. /\ cwd'[q] # 0 => Safe(cwd'[q]) /\ cwd'[q] # i
          /\ th'[q].at # 0 => Safe(th'[q].at) /\ th'[q].at # i
          /\ th'[q].ip # 0 /\ th'[q].pc # "create" => Safe(th'[q].ip) /\ th'[q].ip # i
          /\ th'[q].pc = "put" => Safe(th'[q].drop) /\ th'[q].drop # i
      BY <1>1, <1>4, <1>5, <1>8, <3>1 DEF SafeAt
    <3> QED
      BY <2>1, <3>2
  <2>3. \A f \in File : (file[f].ip # 0 => Safe(file[f].ip))'
    <3>1. \A f \in File : file'[f].ip # 0 => Safe(file'[f].ip) /\ file'[f].ip # i
      BY <1>1, <1>4, StillSafe
    <3> QED
      BY <2>1, <3>1
  <2>4. dinode[i].type # "none" /\ dinode[i].nlink = 0 /\ \A r \in Proc : th[r].pc = "create" => th[r].ip # i
    <3>1. ilock(i) = itable[i]
      BY <1>1 DEF ilock
    <3>2. dinode[i].nlink = 0
      BY <1>1, <1>3, <3>1, IlockCurrent, DiskIs
    <3> QED
      BY <1>1, <1>4, <3>2 DEF FsInv, AllocInv, Safe
  <2>5. \A q \in Proc : th'[q].pc = "trunc" =>
          /\ dinode'[th'[q].drop].type # "none" /\ dinode'[th'[q].drop].nlink = 0
          /\ \A r \in Proc : th'[r].pc = "create" => th'[r].ip # th'[q].drop
    <3>1. \A q \in Proc : th[q].pc = "trunc" =>
            /\ dinode[th[q].drop].type # "none" /\ dinode[th[q].drop].nlink = 0
            /\ \A r \in Proc : th[r].pc = "create" => th[r].ip # th[q].drop
      BY DEF FsInv, AllocInv
    <3> QED
      BY <1>1, <1>5, <1>8, <2>4, <3>1
  <2>6. ASSUME NEW q \in Proc, th'[q].pc = "create"
        PROVE  /\ dinode'[th'[q].ip] = Dinode(NewType(q)', 0) /\ dir'[th'[q].ip] = NoEntries
               /\ \A r \in Proc \ {q} : th'[r].pc = "create" => th'[r].ip # th'[q].ip
    <3>1. q # p /\ th'[q] = th[q] /\ NewType(q)' = NewType(q)
      BY <1>5, <1>8, <2>6 DEF NewType
    <3>2. /\ dinode[th[q].ip] = Dinode(NewType(q), 0) /\ dir[th[q].ip] = NoEntries
          /\ \A r \in Proc \ {q} : th[r].pc = "create" => th[r].ip # th[q].ip
      BY <2>6, <3>1 DEF FsInv, AllocInv
    <3> QED
      BY <1>1, <1>5, <1>8, <3>1, <3>2
  <2>7. \A k \in Inode : dinode'[k].type = "none" => dinode'[k].nlink = 0
    BY <1>1 DEF FsInv, AllocInv
  <2> QED
    BY <2>2, <2>3, <2>5, <2>6, <2>7 DEF AllocInv
<1> QED
  BY <1>12, <1>13, <1>14, <1>15 DEF FsInv

LEMMA PutInv ==
  ASSUME FsInv, NEW p \in Proc, Put(p)
  PROVE  FsInv'
<1>1. CASE LastOfUnlinked(th[p].drop)
  BY <1>1, PutLastInv
<1>2. CASE ~ LastOfUnlinked(th[p].drop)
  BY <1>2, DroppedInv DEF Put
<1> QED
  BY <1>1, <1>2

-----------------------------------------------------------------------------
(* Steps that change a link count.                                         *)

Owing(t, i) == One(Owes(t) = i)

\* The link count of k follows its links.
Relinks(p, t, k) ==
  /\ Names(k)' \in Nat /\ Parents(k)' \in Nat /\ lost'[k] \in Nat
  /\ dinode'[k].nlink + Names(k) + Parents(k) + lost[k] + Owing(th[p], k)
       = dinode[k].nlink + Names(k)' + Parents(k)' + lost'[k] + Owing(t, k)

LEMMA OwedMove ==
  ASSUME FsInv, NEW p \in Proc, NEW t, NEW c, Moves(p, t, c), NEW i
  PROVE  /\ Owed(i) \in Nat /\ Owed(i)' \in Nat
         /\ Owed(i)' + Owing(th[p], i) = Owed(i) + Owing(t, i)
<1> DEFINE A == {q \in Proc : Owes(th[q]) = i}
           B == {q \in Proc : Owes(th'[q]) = i}
<1>1. th'[p] = t /\ \A q \in Proc \ {p} : th'[q] = th[q]
  BY MovesTo
<1>2. /\ A \in SUBSET Proc /\ B \in SUBSET Proc /\ \A q \in Proc \ {p} : q \in A <=> q \in B
      /\ (p \in A <=> Owes(th[p]) = i) /\ (p \in B <=> Owes(t) = i)
  BY <1>1
<1>3. Owed(i) = Cardinality(A) /\ Owed(i)' = Cardinality(B)
  BY DEF Owed
<1> HIDE DEF A, B
<1>4. /\ Cardinality(A) \in Nat /\ Cardinality(B) \in Nat
      /\ Cardinality(B) + (IF p \in A THEN 1 ELSE 0) = Cardinality(A) + (IF p \in B THEN 1 ELSE 0)
  BY <1>2, CountMove
<1> QED
  BY <1>2, <1>3, <1>4 DEF Owing, One

LEMMA LinkStep ==
  ASSUME FsInv, NEW p \in Proc, NEW t, NEW c, Moves(p, t, c), dinode' \in Disk,
         \A k \in Inode : Relinks(p, t, k)
  PROVE  LinkInv'
<1> SUFFICES ASSUME NEW k \in Inode
             PROVE  dinode'[k].nlink = Names(k)' + Parents(k)' + lost'[k] + One(k = ROOTINO) + Owed(k)'
  BY DEF LinkInv, One
<1> DEFINE a == Owing(th[p], k)
           b == Owing(t, k)
           r == One(k = ROOTINO)
<1>1. Owed(k) \in Nat /\ Owed(k)' \in Nat /\ Owed(k)' + a = Owed(k) + b
  BY OwedMove
<1>2. /\ Names(k) \in Nat /\ Parents(k) \in Nat /\ lost[k] \in Nat
      /\ dinode[k].nlink = Names(k) + Parents(k) + lost[k] + r + Owed(k)
  BY LinkSum
<1>3. a \in Nat /\ b \in Nat /\ r \in Nat /\ dinode'[k].nlink \in Nat
  BY DEF Owing, One, Disk
<1>4. /\ Names(k)' \in Nat /\ Parents(k)' \in Nat /\ lost'[k] \in Nat
      /\ dinode'[k].nlink + Names(k) + Parents(k) + lost[k] + a
           = dinode[k].nlink + Names(k)' + Parents(k)' + lost'[k] + b
  BY DEF Relinks
<1> HIDE DEF a, b, r
<1>5. dinode'[k].nlink = Names(k)' + Parents(k)' + lost'[k] + r + Owed(k)'
  BY <1>1, <1>2, <1>3, <1>4, SMTT(20)
<1> QED
  BY <1>5 DEF r

LEMMA DirSame ==
  ASSUME dir' = dir, NEW i
  PROVE  Names(i)' = Names(i) /\ Parents(i)' = Parents(i)
<1>1. \A j : NameEntries(j)' = NameEntries(j)
  BY DEF NameEntries
<1>2. Subdirs(i)' = Subdirs(i)
  BY <1>1 DEF Subdirs
<1> QED
  BY <1>1, <1>2 DEF Names, Parents

LEMMA SafeMove ==
  ASSUME FsInv, NEW p \in Proc, NEW t, NEW c, Moves(p, t, c), t.pc \notin {"trunc", "create"},
         \A k \in Inode : dinode'[k].type = dinode[k].type, SafeAt(t, c)
  PROVE  SafeAt(th[p], cwd[p])'
<1>1. \A k \in Inode : Safe(k) => Safe(k)'
  BY SafeStep
<1>2. /\ SafeAt(th'[p], cwd'[p]) /\ th'[p] \in Thread /\ cwd'[p] \in Inode \cup {0}
      /\ Shape(th'[p], cwd'[p])
  BY MovesTo DEF Moves
<1>3. /\ cwd'[p] # 0 => Safe(cwd'[p]) /\ cwd'[p] \in Inode
      /\ th'[p].at # 0 => Safe(th'[p].at) /\ th'[p].at \in Inode
      /\ th'[p].ip # 0 /\ th'[p].pc # "create" => Safe(th'[p].ip) /\ th'[p].ip \in Inode
      /\ th'[p].pc = "put" => Safe(th'[p].drop) /\ th'[p].drop \in Inode
  BY <1>2 DEF SafeAt, Thread, Shape, Putting
<1> QED
  BY <1>1, <1>3 DEF SafeAt

\* The link count of an inode in use becomes n.
LEMMA RelinkInv ==
  ASSUME FsInv, NEW p \in Proc, NEW t, NEW c, Moves(p, t, c), CallInv', RefCounts',
         NEW i \in Inode, NEW n \in Nat, Safe(i),
         dinode' = [dinode EXCEPT ![i] = Dinode(dinode[i].type, n)],
         dir' = dir, lost' = lost, file' = file,
         t.pc \notin {"trunc", "create", "freed"}, th[p].pc # "trunc",
         SafeAt(t, c), FoundAt(t), \A k \in Inode : CurrentAt(p, k),
         n + Owing(th[p], i) = dinode[i].nlink + Owing(t, i),
         \A k \in Inode \ {i} : Owes(t) = k <=> Owes(th[p]) = k
  PROVE  FsInv'
<1>1. /\ dinode \in Disk /\ dinode'[i].type = dinode[i].type /\ dinode'[i].nlink = n
      /\ \A k \in Inode \ {i} : dinode'[k] = dinode[k]
  BY Before DEF Disk, Dinode
<1>2. dinode' \in Disk /\ \A k \in Inode : dinode'[k].type = dinode[k].type
  <2>1. dinode[i].type \in Type
    BY <1>1 DEF Disk
  <2> QED
    BY <1>1, <2>1 DEF Disk, Dinode
<1>3. AllocInv'
  <2>1. \A k \in Inode : Safe(k) => Safe(k)'
    BY <1>2, SafeStep
  <2>2. SafeAt(th[p], cwd[p])'
    BY <1>2, SafeMove
  <2>3. \A f \in File : (file[f].ip # 0 => Safe(file[f].ip))'
    <3>1. \A f \in File : file[f].ip \in Inode \cup {0}
      BY Before
    <3> QED
      BY <2>1, <3>1, StillSafe
  <2>4. \A k \in Inode : dinode'[k].type = "none" => dinode'[k].nlink = 0
    BY <1>1 DEF FsInv, AllocInv, Safe
  <2>5. \A k \in Inode : Safe(k) \/ (dinode'[k] = dinode[k] /\ dir'[k] = dir[k])
    BY <1>1
  <2> QED
    BY <1>2, <2>2, <2>3, <2>4, <2>5, AllocKept
<1>4. CacheInv'
  BY CacheStep
<1>5. LinkInv'
  <2>1. ASSUME NEW k \in Inode
        PROVE  Relinks(p, t, k)
    <3>1. /\ Names(k) \in Nat /\ Parents(k) \in Nat /\ lost[k] \in Nat
          /\ Names(k)' = Names(k) /\ Parents(k)' = Parents(k)
      BY LinkSum, DirSame
    <3>2. /\ dinode'[k].nlink \in Nat /\ dinode[k].nlink \in Nat
      BY <1>1, <1>2 DEF Disk
    <3>3. dinode'[k].nlink + Owing(th[p], k) = dinode[k].nlink + Owing(t, k)
      <4>1. CASE k = i
        BY <1>1, <4>1
      <4>2. CASE k # i
        BY <1>1, <3>2, <4>2 DEF Owing, One
      <4> QED
        BY <4>1, <4>2
    <3>4. Owing(th[p], k) \in Nat /\ Owing(t, k) \in Nat
      BY DEF Owing, One
    <3> QED
      BY <3>1, <3>2, <3>3, <3>4 DEF Relinks
  <2> QED
    BY <1>2, <2>1, LinkStep
<1>6. TreeInv' /\ RankInv'
  BY <1>2 DEF FsInv, TreeInv, RankInv, Below
<1>7. FoundInv'
  <2>1. \A q \in Proc : FoundAt(th'[q]) /\ th'[q] \in Thread /\ Shape(th'[q], cwd'[q])
    <3>1. th'[p] = t /\ cwd'[p] = c /\ \A q \in Proc \ {p} : th'[q] = th[q] /\ cwd'[q] = cwd[q]
      BY MovesTo
    <3>2. t \in Thread /\ Shape(t, c)
      BY DEF Moves
    <3>3. \A q \in Proc : FoundAt(th[q]) /\ th[q] \in Thread /\ Shape(th[q], cwd[q])
      BY StillSafe, Here
    <3> QED
      BY <3>1, <3>2, <3>3
  <2>2. \A q \in Proc : /\ Stage(th'[q]) \in {"parent", "create", "unlink", "dropdp"} => th'[q].at \in Inode
                        /\ th'[q].ip # 0 => th'[q].ip \in Inode
    BY <2>1 DEF Thread, Shape, HasAt
  <2> QED
    BY <1>2, <2>1, <2>2 DEF FoundAt, FoundInv, name
<1> QED
  BY <1>3, <1>4, <1>5, <1>6, <1>7 DEF FsInv

\* unlink() takes the link away, or link() takes it back; the inode is put.
LEMMA UnlinkOne ==
  ASSUME FsInv, NEW p \in Proc, th[p].pc \in {"unlinked", "linkbad"},
         NEW e, e = [ilock(th[p].ip) EXCEPT !.nlink = @ - 1, !.lock = NoProc],
         th[p].pc = "linkbad" => Unlocked(th[p].ip),
         itable' = [itable EXCEPT ![th[p].ip] = e],
         dinode' = [dinode EXCEPT ![th[p].ip] = iupdate(e)],
         th' = [th EXCEPT ![p] = After([th[p] EXCEPT !.ip = 0], th[p].ip, "user")],
         UNCHANGED <<dir, file, ofile, cwd, lost>>
  PROVE  FsInv'
<1> DEFINE i == th[p].ip
           c == cwd[p]
           t == [th[p] EXCEPT !.ip = 0]
           u == After(t, i, "user")
<1>1. th' = [th EXCEPT ![p] = u]
  OBVIOUS
<1>2. /\ th[p] \in Thread /\ Shape(th[p], c) /\ cwd = [cwd EXCEPT ![p] = c] /\ c \in Inode \cup {0}
      /\ c = 0 => \A d \in Fd : ofile[p][d] = 0
      /\ \A k \in Inode : itable[k].lock = p <=> k \in Locks(th[p])
  BY Here
<1>3. Stage(th[p]) = th[p].pc /\ th[p].pc \notin Putting
  BY DEF Stage, Putting
<1>4. i \in Inode /\ th[p].at = 0 /\ th[p].drop = 0 /\ i # 0
  BY <1>2, <1>3, RootIs DEF Thread, Shape, HasIp, HasAt
<1>5. t \in Thread /\ t.at = 0 /\ t.ip = 0 /\ t.req = th[p].req
  BY <1>2, <1>4 DEF Thread
<1> HIDE DEF t
<1>6. /\ u \in Thread /\ u.pc = "put" /\ u.drop = i /\ Stage(u) = "user" /\ u.at = 0
      /\ u.ip = 0 /\ u.req = th[p].req
  <2>1. "user" \in Pc
    BY DEF Pc
  <2> QED
    BY <1>4, <1>5, <2>1, AfterIs
<1> HIDE DEF u
<1>7. Moves(p, u, c)
  <2>1. Shape(u, c)
    BY <1>4, <1>6 DEF Shape, Putting, HasAt, HasIp
  <2> QED
    BY <1>1, <1>2, <1>6, <2>1 DEF Moves
<1>8. /\ Locks(u) = {} /\ Owes(u) = 0 /\ Owes(th[p]) = i
      /\ th[p].pc = "unlinked" => Locks(th[p]) = {i}
      /\ th[p].pc = "linkbad" => Locks(th[p]) = {}
  <2>1. th[p].pc = "linkbad" => th[p].req.call = "link"
    BY <1>2, <1>3 DEF Shape
  <2> QED
    BY <1>3, <1>6, <2>1 DEF Locks, Owes
<1>9. /\ ilock(i) \in [ref : Nat, valid : BOOLEAN, lock : Proc \cup {NoProc}, type : Type, nlink : Nat]
      /\ ilock(i).ref = itable[i].ref /\ ilock(i).valid
      /\ ilock(i).type = dinode[i].type /\ ilock(i).nlink = dinode[i].nlink
  <2>1. Unlocked(i) \/ itable[i].lock = p
    BY <1>2, <1>4, <1>8
  <2> QED
    BY <1>4, <2>1, IlockIs, IlockCurrent, DiskIs
<1> DEFINE n == dinode[i].nlink - 1
<1>10. n \in Nat
  <2>1. dinode[i].nlink >= 1 /\ dinode[i].nlink \in Nat
    BY <1>4, <1>8, OwedLinked, Before DEF Disk
  <2> QED
    BY <2>1
<1>11. /\ e \in [ref : Nat, valid : BOOLEAN, lock : Proc \cup {NoProc}, type : Type, nlink : Nat]
       /\ e.ref = itable[i].ref /\ e.valid /\ e.lock = NoProc /\ e.type = dinode[i].type /\ e.nlink = n
  BY <1>9, <1>10
<1>12. itable' \in Table /\ itable'[i] = e /\ \A k \in Inode \ {i} : itable'[k] = itable[k]
  BY <1>4, <1>11, Before DEF Table
<1>13. dinode' = [dinode EXCEPT ![i] = Dinode(dinode[i].type, n)]
  BY <1>11 DEF iupdate
<1>14. dinode' \in Disk /\ dinode'[i] = Dinode(dinode[i].type, n) /\ \A k \in Inode \ {i} : dinode'[k] = dinode[k]
  <2>1. Dinode(dinode[i].type, n) \in [type : Type, nlink : Nat]
    BY <1>4, <1>10, Before DEF Disk, Dinode
  <2> QED
    BY <1>4, <1>13, <2>1, Before DEF Disk
<1> HIDE DEF n
<1>15. CallInv' /\ RefCounts'
  <2>1. Relocks(p, u)
    <3>1. \A k \in Inode : itable[k].lock # NoProc => itable[k].valid
      BY LockedRef DEF Unlocked
    <3>2. \A k \in Inode \ {i} : itable[k].lock # p
      BY <1>2, <1>8
    <3> QED
      <4> SUFFICES ASSUME NEW k \in Inode
                   PROVE  /\ itable'[k].lock = IF itable[k].lock = p THEN NoProc ELSE itable[k].lock
                          /\ itable[k].lock \notin {p, NoProc} => itable'[k].valid
        BY <1>8 DEF Relocks
      <4>1. CASE k = i
        <5>1. itable'[k].lock = NoProc /\ itable'[k].valid
          BY <1>11, <1>12, <4>1
        <5>2. itable[k].lock \in {p, NoProc}
          <6>1. CASE th[p].pc = "unlinked"
            BY <1>2, <1>4, <1>8, <4>1, <6>1
          <6>2. CASE th[p].pc = "linkbad"
            BY <4>1, <6>2 DEF Unlocked
          <6> QED
            BY <6>1, <6>2
        <5> QED
          BY <5>1, <5>2
      <4>2. CASE k # i
        BY <1>12, <3>1, <3>2, <4>2
      <4> QED
        BY <4>1, <4>2
  <2>2. Recounts(p, u, c)
    <3>1. \A k \in Inode : itable'[k].ref = itable[k].ref
      BY <1>11, <1>12
    <3>2. \A k \in Inode : Mine(th[p], cwd[p], k) = Mine(u, c, k)
      BY <1>4, <1>6, RootIs DEF Mine, One
    <3> QED
      BY <3>1, <3>2 DEF Recounts
  <2>3. dir' \in Entries /\ lost' \in [Inode -> Nat] /\ file' = file /\ ofile' = ofile
    BY Before
  <2> HIDE DEF c
  <2> QED
    BY <1>2, <1>7, <1>12, <1>14, <2>1, <2>2, <2>3, CoreInv
<1>16. \A k \in Inode : CurrentAt(p, k)
  <2>1. CurrentAt(p, i)
    <3>1. dinode[i].type # "none"
      BY <1>4, InUse
    <3>2. dinode'[i].type = dinode[i].type
      BY <1>14 DEF Dinode
    <3> QED
      BY <1>11, <1>12, <1>14, <3>1, <3>2 DEF CurrentAt
  <2>2. ASSUME NEW k \in Inode \ {i} PROVE CurrentAt(p, k)
    BY <1>12, <1>14 DEF CurrentAt
  <2> QED
    BY <2>1, <2>2
<1>17. SafeAt(u, c) /\ FoundAt(u) /\ Safe(i)
  <2>1. SafeAt(th[p], c)
    BY StillSafe
  <2> QED
    BY <1>4, <1>6, <2>1 DEF SafeAt, FoundAt
<1>18. n + Owing(th[p], i) = dinode[i].nlink + Owing(u, i)
  <2>1. dinode[i].nlink \in Nat
    BY <1>4, Before DEF Disk
  <2> QED
    BY <1>4, <1>8, <2>1 DEF n, Owing, One
<1>19. \A k \in Inode \ {i} : Owes(u) = k <=> Owes(th[p]) = k
  BY <1>8, RootIs
<1> HIDE DEF c, i
<1>20. file' = file /\ dir' = dir /\ lost' = lost
  OBVIOUS
<1> QED
  BY <1>4, <1>6, <1>7, <1>10, <1>13, <1>15, <1>16, <1>17, <1>18, <1>19, <1>20, RelinkInv

LEMMA UnlinkedInv ==
  ASSUME FsInv, NEW p \in Proc, Unlinked(p)
  PROVE  FsInv'
<1> DEFINE i == th[p].ip
<1>1. th[p].pc = "unlinked"
  BY DEF Unlinked
<1>2. i \in Inode /\ i \in Locks(th[p]) /\ itable[i].lock = p
  BY <1>1, Here DEF Thread, Shape, Stage, Putting, HasIp, Locks
<1>3. ilock(i) = itable[i]
  BY <1>2, LockedRef DEF Unlocked, ilock
<1> QED
  BY <1>1, <1>3, UnlinkOne DEF Unlinked

LEMMA LinkBadInv ==
  ASSUME FsInv, NEW p \in Proc, LinkBad(p)
  PROVE  FsInv'
<1> DEFINE i == th[p].ip
<1>1. th[p].pc = "linkbad" /\ Unlocked(i)
  BY DEF LinkBad
<1>2. i \in Inode
  BY <1>1, Here DEF Thread, Shape, Stage, Putting, HasIp
<1>3. [ilock(i) EXCEPT !.nlink = @ - 1, !.lock = NoProc] = [ilock(i) EXCEPT !.nlink = @ - 1]
  BY <1>1, <1>2, IlockIs DEF Unlocked
<1> QED
  BY <1>1, <1>3, UnlinkOne DEF LinkBad

\* link() counts the new name in advance.
LEMMA LinkUpInv ==
  ASSUME FsInv, NEW p \in Proc, Link(p), ilock(th[p].at).type # "dir"
  PROVE  FsInv'
<1> DEFINE i == th[p].at
           c == cwd[p]
           e == [ilock(i) EXCEPT !.nlink = @ + 1]
           new == th[p].req.new
           w == WalkFrom(p, new)
           tab == [itable EXCEPT ![i] = e]
           u == [th[p] EXCEPT !.pc = "walk", !.ip = i, !.at = w, !.path = WalkPath(new)]
           n == dinode[i].nlink + 1
<1>1. /\ th[p].pc = "got" /\ th[p].req.call = "link" /\ Unlocked(i)
      /\ itable' = iget(tab, w) /\ dinode' = [dinode EXCEPT ![i] = iupdate(e)]
      /\ th' = [th EXCEPT ![p] = u]
      /\ UNCHANGED <<dir, file, ofile, cwd, lost>>
  BY Before DEF Link
<1>2. /\ th[p] \in Thread /\ Shape(th[p], c) /\ cwd = [cwd EXCEPT ![p] = c] /\ c \in Inode \cup {0}
      /\ \A k \in Inode : itable[k].lock = p <=> k \in Locks(th[p])
  BY Here
<1>3. /\ i \in Inode /\ Stage(th[p]) = "got" /\ th[p].drop = 0 /\ c # 0 /\ Locks(th[p]) = {}
      /\ th[p].ip = 0 /\ i # 0
  BY <1>1, FailedIs, RootIs
<1>4. w \in Inode /\ Safe(w) /\ w # 0
  BY <1>3, WalkFromSafe, RootIs
<1>5. WalkPath(new) \in Seq(Name)
  <2>1. th[p].req \in Request /\ th[p].req # NoCall
    BY <1>1, <1>2 DEF Thread, NoCall
  <2>2. PICK q \in Proc : th[p].req \in Requests[q]
    BY <2>1 DEF Request
  <2> QED
    BY <2>2, WalkPathType
<1> HIDE DEF w
<1>6. /\ u \in Thread /\ u.pc = "walk" /\ u.drop = 0 /\ u.at = w /\ u.ip = i /\ u.req = th[p].req
  <2>1. "walk" \in Pc
    BY DEF Pc
  <2> QED
    BY <1>2, <1>3, <1>4, <1>5, <2>1 DEF Thread
<1> HIDE DEF u
<1>7. Stage(u) = "walk"
  BY <1>6 DEF Stage, Putting
<1>8. Moves(p, u, c)
  <2>1. Shape(u, c)
    BY <1>1, <1>3, <1>4, <1>6, <1>7 DEF Shape, Putting, HasAt, HasIp
  <2> QED
    BY <1>1, <1>2, <1>6, <2>1 DEF Moves
<1>9. Locks(u) = {} /\ Owes(u) = i /\ Owes(th[p]) = 0
  BY <1>1, <1>3, <1>6, <1>7 DEF Locks, Owes
<1>10. /\ ilock(i) \in [ref : Nat, valid : BOOLEAN, lock : Proc \cup {NoProc}, type : Type, nlink : Nat]
       /\ ilock(i).ref = itable[i].ref /\ ilock(i).lock = NoProc /\ ilock(i).valid
       /\ ilock(i).type = dinode[i].type /\ ilock(i).nlink = dinode[i].nlink
  BY <1>1, <1>3, IlockIs, IlockCurrent, DiskIs DEF Unlocked
<1>11. n \in Nat
  BY <1>10
<1>12. /\ e \in [ref : Nat, valid : BOOLEAN, lock : Proc \cup {NoProc}, type : Type, nlink : Nat]
       /\ e.ref = itable[i].ref /\ e.valid /\ e.lock = NoProc /\ e.type = dinode[i].type /\ e.nlink = n
  BY <1>10, <1>11
<1>13. dinode' = [dinode EXCEPT ![i] = Dinode(dinode[i].type, n)]
  BY <1>1, <1>12 DEF iupdate
<1> HIDE DEF e
<1>14. tab \in Table /\ tab[i] = e /\ \A k \in Inode \ {i} : tab[k] = itable[k]
  BY <1>3, <1>12, Before DEF Table
<1> HIDE DEF tab
<1>15. dinode' \in Disk /\ dinode'[i] = Dinode(dinode[i].type, n) /\ \A k \in Inode \ {i} : dinode'[k] = dinode[k]
  <2>1. Dinode(dinode[i].type, n) \in [type : Type, nlink : Nat]
    BY <1>3, <1>11, Before DEF Disk, Dinode
  <2> QED
    BY <1>3, <1>13, <2>1, Before DEF Disk
<1> HIDE DEF n
<1>16. /\ itable' \in Table /\ itable'[w].ref = tab[w].ref + 1
       /\ itable'[w].valid => tab[w].valid /\ tab[w].ref > 0
       /\ tab[w].valid /\ tab[w].ref > 0 => itable'[w].valid
       /\ itable'[w].lock = tab[w].lock /\ itable'[w].type = tab[w].type
       /\ itable'[w].nlink = tab[w].nlink
       /\ \A k \in Inode \ {w} : itable'[k] = tab[k]
  BY <1>1, <1>4, <1>14, IgetIs
<1>17. \A k \in Inode : itable[k].lock # NoProc => itable[k].valid /\ itable[k].ref > 0 /\ k # i
  BY <1>1, LockedRef DEF Unlocked
<1>18. ASSUME NEW k \in Inode
       PROVE  /\ itable'[k].lock = itable[k].lock
              /\ itable'[k].lock # NoProc => itable'[k].valid
              /\ itable'[k].ref = itable[k].ref + (IF k = w THEN 1 ELSE 0)
              /\ CurrentAt(p, k)
  <2>1. /\ tab[k].ref = itable[k].ref /\ tab[k].lock = itable[k].lock /\ itable[k].ref \in Nat
        /\ tab[k].lock # NoProc => tab[k].valid /\ tab[k].ref > 0
    BY <1>1, <1>12, <1>14, <1>17, Before DEF Unlocked, Table
  <2>2. tab[k].valid => \/ Dinode(tab[k].type, tab[k].nlink) = dinode'[k] /\ dinode'[k].type # "none"
                        \/ tab[k] = itable[k] /\ dinode'[k] = dinode[k]
    <3>1. dinode[i].type # "none"
      BY <1>3, InUse
    <3>2. dinode'[i].type = dinode[i].type
      BY <1>15 DEF Dinode
    <3> QED
      BY <1>12, <1>14, <1>15, <3>1, <3>2
  <2>3. /\ itable'[k].ref = tab[k].ref + (IF k = w THEN 1 ELSE 0)
        /\ itable'[k].lock = tab[k].lock /\ itable'[k].type = tab[k].type /\ itable'[k].nlink = tab[k].nlink
        /\ itable'[k].valid => tab[k].valid /\ (itable'[k].ref > 0 => tab[k].ref > 0)
        /\ tab[k].valid /\ tab[k].ref > 0 => itable'[k].valid
    <3>1. CASE k = w
      BY <1>16, <3>1
    <3>2. CASE k # w
      <4>1. itable'[k] = tab[k]
        BY <1>16, <3>2
      <4> QED
        BY <2>1, <3>2, <4>1
    <3> QED
      BY <3>1, <3>2
  <2>4. CurrentAt(p, k)
    BY <1>1, <2>2, <2>3 DEF CurrentAt
  <2> QED
    BY <2>1, <2>3, <2>4
<1>19. CallInv' /\ RefCounts'
  <2>1. Relocks(p, u)
    BY <1>2, <1>3, <1>9, <1>18 DEF Relocks
  <2>2. Recounts(p, u, c)
    <3> SUFFICES ASSUME NEW k \in Inode
                 PROVE  itable'[k].ref + Mine(th[p], cwd[p], k) = itable[k].ref + Mine(u, c, k)
      BY DEF Recounts
    <3>1. itable'[k].ref = itable[k].ref + One(k = w) /\ itable[k].ref \in Nat
      BY <1>18, Before DEF One, Table
    <3>2. One(k = w) + Mine(th[p], cwd[p], k) = Mine(u, c, k)
      BY <1>3, <1>6, RootIs DEF Mine, One
    <3>3. One(k = w) \in Nat /\ Mine(th[p], cwd[p], k) \in Nat /\ Mine(u, c, k) \in Nat
      BY DEF Mine, One
    <3> QED
      BY <3>1, <3>2, <3>3
  <2>3. dir' \in Entries /\ lost' \in [Inode -> Nat] /\ file' = file /\ ofile' = ofile
    BY <1>1, Before
  <2> HIDE DEF c
  <2> QED
    BY <1>2, <1>3, <1>8, <1>15, <1>16, <2>1, <2>2, <2>3, CoreInv
<1>20. SafeAt(u, c) /\ FoundAt(u) /\ Safe(i)
  <2>1. SafeAt(th[p], c) /\ dinode[i].type # "dir"
    BY <1>10, StillSafe
  <2> QED
    BY <1>3, <1>4, <1>6, <1>7, <2>1 DEF SafeAt, FoundAt
<1>21. n + Owing(th[p], i) = dinode[i].nlink + Owing(u, i)
  BY <1>3, <1>9, <1>10 DEF n, Owing, One
<1>22. \A k \in Inode \ {i} : Owes(u) = k <=> Owes(th[p]) = k
  BY <1>9, RootIs
<1>23. file' = file /\ dir' = dir /\ lost' = lost /\ \A k \in Inode : CurrentAt(p, k)
  BY <1>1, <1>18
<1> HIDE DEF c, i
<1> QED
  BY <1>1, <1>3, <1>6, <1>8, <1>11, <1>13, <1>19, <1>20, <1>21, <1>22, <1>23, RelinkInv

LEMMA LinkFirst ==
  ASSUME FsInv, NEW p \in Proc, Link(p)
  PROVE  FsInv'
BY LinkDirInv, LinkUpInv

-----------------------------------------------------------------------------
(* Steps that change a directory.                                          *)

\* One entry of one directory changes: from i to j.
LEMMA EntryMove ==
  ASSUME FsInv, dir' \in Entries, NEW x \in Inode, NEW n \in Name,
         \A y \in Inode, m \in Name : <<y, m>> # <<x, n>> => dir'[y][m] = dir[y][m],
         NEW k \in Inode
  PROVE  /\ Names(k) \in Nat /\ Names(k)' \in Nat
         /\ Names(k)' + One(dir[x][n] = k) = Names(k) + One(dir'[x][n] = k)
<1> DEFINE S == Inode \X Name
           A == {z \in S : dir[z[1]][z[2]] = k}
           B == {z \in S : dir'[z[1]][z[2]] = k}
           z0 == <<x, n>>
<1>1. IsFiniteSet(S)
  BY FiniteTables, FS_Product
<1>2. z0 \in S /\ z0[1] = x /\ z0[2] = n
  OBVIOUS
<1>3. \A z \in S \ {z0} : z \in A <=> z \in B
  <2> SUFFICES ASSUME NEW z \in S, z # z0 PROVE dir'[z[1]][z[2]] = dir[z[1]][z[2]]
    OBVIOUS
  <2>1. PICK y \in Inode, m \in Name : z = <<y, m>>
    OBVIOUS
  <2> QED
    BY <2>1
<1>4. A \in SUBSET S /\ B \in SUBSET S /\ (z0 \in A <=> dir[x][n] = k) /\ (z0 \in B <=> dir'[x][n] = k)
  BY <1>2
<1>5. Names(k) = Cardinality(A) /\ Names(k)' = Cardinality(B)
  BY DEF Names, NameEntries
<1> HIDE DEF A, B, S, z0
<1>6. /\ Cardinality(A) \in Nat /\ Cardinality(B) \in Nat
      /\ Cardinality(B) + (IF z0 \in A THEN 1 ELSE 0) = Cardinality(A) + (IF z0 \in B THEN 1 ELSE 0)
  BY <1>1, <1>2, <1>3, <1>4, CountMove
<1> QED
  BY <1>4, <1>5, <1>6 DEF One

\* Directories change only where nobody else has them locked.
LEMMA EntryInv ==
  ASSUME FsInv, NEW p \in Proc, NEW t, NEW c, Moves(p, t, c), CallInv', RefCounts',
         dinode' \in Disk, t.pc = "put", th[p].pc # "trunc", file' = file,
         \A k \in Inode : dinode'[k].type = dinode[k].type,
         \A k \in Inode : Safe(k) \/ (th[p].pc = "create" /\ th[p].ip = k)
                           \/ (dinode'[k] = dinode[k] /\ dir'[k] = dir[k]),
         \A k \in Inode : dir'[k] = dir[k] \/ itable[k].lock \in {p, NoProc},
         SafeAt(th[p], cwd[p])', FoundAt(t),
         \A k \in Inode : CurrentAt(p, k), \A k \in Inode : Relinks(p, t, k), TreeInv', RankInv'
  PROVE  FsInv'
<1>1. AllocInv'
  <2>1. \A k \in Inode : Safe(k) => Safe(k)'
    BY SafeStep
  <2>2. \A f \in File : (file[f].ip # 0 => Safe(file[f].ip))'
    <3>1. \A f \in File : file[f].ip \in Inode \cup {0}
      BY Before
    <3> QED
      BY <2>1, <3>1, StillSafe
  <2>3. \A k \in Inode : dinode'[k].type = "none" => dinode'[k].nlink = 0
    <3> SUFFICES ASSUME NEW k \in Inode, dinode'[k].type = "none" PROVE dinode'[k].nlink = 0
      OBVIOUS
    <3>1. dinode[k].type = "none" /\ dinode[k].nlink = 0
      BY DEF FsInv, AllocInv
    <3>2. ~ Safe(k)
      BY <3>1 DEF Safe
    <3>3. ~ (th[p].pc = "create" /\ th[p].ip = k)
      <4>1. th[p].pc = "create" => dinode[th[p].ip] = Dinode(NewType(p), 0)
        BY DEF FsInv, AllocInv
      <4>2. NewType(p) # "none"
        BY DEF NewType
      <4> QED
        BY <3>1, <4>1, <4>2 DEF Dinode
    <3> QED
      BY <3>1, <3>2, <3>3
  <2> QED
    BY <2>2, <2>3, AllocKept
<1>2. CacheInv'
  BY CacheStep
<1>3. LinkInv'
  BY LinkStep
<1>4. FoundInv'
  <2>1. th'[p] = t /\ cwd'[p] = c /\ \A q \in Proc \ {p} : th'[q] = th[q] /\ cwd'[q] = cwd[q]
    BY MovesTo
  <2>2. ASSUME NEW q \in Proc
        PROVE  /\ Stage(th'[q]) \in {"parent", "create", "unlink", "dropdp"} => dinode'[th'[q].at].type = "dir"
               /\ th'[q].req.call = "link" /\ th'[q].ip # 0 => dinode'[th'[q].ip].type # "dir"
    <3>1. FoundAt(th'[q]) /\ th'[q] \in Thread /\ Shape(th'[q], cwd'[q])
      BY <2>1, StillSafe, Here DEF Moves
    <3>2. /\ Stage(th'[q]) \in {"parent", "create", "unlink", "dropdp"} => th'[q].at \in Inode
          /\ th'[q].ip # 0 => th'[q].ip \in Inode
      BY <3>1 DEF Thread, Shape, HasAt
    <3> QED
      BY <3>1, <3>2 DEF FoundAt
  <2>3. ASSUME NEW q \in Proc, th'[q].pc \in {"create", "unlink"}
        PROVE  q # p /\ th'[q] = th[q] /\ dir'[th[q].at] = dir[th[q].at]
    <3>1. q # p /\ th'[q] = th[q]
      BY <2>1, <2>3
    <3>2. th[q].at \in Inode /\ th[q].at \in Locks(th[q])
      BY <2>3, <3>1, Here DEF Thread, Shape, Stage, Putting, HasAt, Locks
    <3>3. itable[th[q].at].lock = q
      BY <3>2, Here
    <3> QED
      BY <3>1, <3>2, <3>3
  <2>4. \A q \in Proc : FoundAt(th[q])
    BY StillSafe
  <2> QED
    BY <2>2, <2>3, <2>4 DEF FoundInv, FoundAt, name
<1> QED
  BY <1>1, <1>2, <1>3, <1>4 DEF FsInv

\* link() makes the name that it has counted.
LEMMA LinkMakesInv ==
  ASSUME FsInv, NEW p \in Proc, LinkEntry(p), dir[th[p].at][name(p)] = 0,
         dir' = [dir EXCEPT ![th[p].at][name(p)] = th[p].ip],
         th' = [th EXCEPT ![p] = After([th[p] EXCEPT !.at = 0], th[p].at, "dropip")]
  PROVE  FsInv'
<1> DEFINE dp == th[p].at
           i == th[p].ip
           c == cwd[p]
           n == name(p)
           t == [th[p] EXCEPT !.at = 0]
           u == After(t, dp, "dropip")
<1>1. /\ th[p].pc = "parent" /\ th[p].req.call = "link" /\ i # 0 /\ Unlocked(dp)
      /\ itable' = [itable EXCEPT ![dp] = ilock(dp)] /\ th' = [th EXCEPT ![p] = u]
      /\ UNCHANGED <<dinode, file, ofile, cwd, lost>>
  BY DEF LinkEntry, Second
<1>2. /\ th[p] \in Thread /\ Shape(th[p], c) /\ cwd = [cwd EXCEPT ![p] = c] /\ c \in Inode \cup {0}
      /\ c = 0 => \A d \in Fd : ofile[p][d] = 0
  BY Here
<1>3. /\ dp \in Inode /\ Stage(th[p]) = "parent" /\ th[p].drop = 0 /\ c # 0 /\ Locks(th[p]) = {}
      /\ dp # 0 /\ i \in Inode
  BY <1>1, <1>2, FailedIs, RootIs DEF Thread
<1>4. n \in Name /\ n # ".." /\ dinode[dp].type = "dir"
  BY <1>1, AtParent
<1>5. dinode[i].type # "dir" /\ i # dp
  BY <1>1, <1>4, StillSafe DEF FoundAt
<1>6. dir[i] = NoEntries /\ dir[i][".."] = 0
  BY <1>3, <1>5 DEF FsInv, TreeInv, NoEntries, Entry
<1>7. t \in Thread /\ t.at = 0 /\ t.ip = i /\ t.req = th[p].req
  BY <1>2 DEF Thread
<1> HIDE DEF t
<1>8. /\ u \in Thread /\ u.pc = "put" /\ u.drop = dp /\ Stage(u) = "dropip" /\ u.at = 0
      /\ u.ip = i /\ u.req = th[p].req
  <2>1. "dropip" \in Pc
    BY DEF Pc
  <2> QED
    BY <1>3, <1>7, <2>1, AfterIs
<1> HIDE DEF u
<1>9. Moves(p, u, c)
  <2>1. Shape(u, c)
    BY <1>1, <1>3, <1>8 DEF Shape, Putting, HasAt, HasIp
  <2> QED
    BY <1>1, <1>2, <1>8, <2>1 DEF Moves
<1>10. Locks(u) = {} /\ Owes(u) = 0 /\ Owes(th[p]) = i
  BY <1>1, <1>3, <1>8 DEF Locks, Owes
<1> HIDE DEF dp, i, n
<1>11. dir \in [Inode -> [Entry -> Inode \cup {0}]] /\ n \in Entry /\ ".." \in Entry
  BY <1>4, Before DEF Entries, Entry
<1>12. /\ dir' \in Entries /\ dir'[dp] = [dir[dp] EXCEPT ![n] = i]
       /\ \A k \in Inode \ {dp} : dir'[k] = dir[k]
  BY <1>3, <1>11 DEF Entries, dp, n, i
<1>13. /\ dir[dp][n] = 0 /\ dir'[dp][n] = i /\ \A m \in Entry \ {n} : dir'[dp][m] = dir[dp][m]
  BY <1>3, <1>11, <1>12 DEF dp, n, i
<1>14. /\ \A y \in Inode, m \in Name : <<y, m>> # <<dp, n>> => dir'[y][m] = dir[y][m]
       /\ \A y \in Inode : dir'[y][".."] = dir[y][".."]
  BY <1>4, <1>11, <1>12, <1>13 DEF Entry
<1>15. TableIs(0, NoProc, 0, 0)
  BY <1>1, <1>3, TableLook DEF dp
<1>16. CallInv' /\ RefCounts'
  <2>1. Keeps(p, u, c, 0, NoProc, 0, 0)
    <3>1. \A k \in Inode : Mine(th[p], cwd[p], k) = Mine(u, c, k)
      BY <1>3, <1>8, RootIs DEF Mine, One, dp, i
    <3> QED
      BY <1>3, <1>10, <3>1 DEF Keeps
  <2>2. Relocks(p, u) /\ itable' \in Table /\ Recounts(p, u, c)
    BY <1>15, <2>1, KeepsCore
  <2>3. dinode' \in Disk /\ lost' \in [Inode -> Nat] /\ file' = file /\ ofile' = ofile
    BY <1>1, Before
  <2> HIDE DEF c
  <2> QED
    BY <1>2, <1>9, <1>12, <2>2, <2>3, CoreInv
<1>17. \A k \in Inode : CurrentAt(p, k)
  BY <1>1, <1>15 DEF CurrentAt, TableIs
<1>18. ASSUME NEW k \in Inode PROVE Relinks(p, u, k)
  <2>1. /\ Names(k) \in Nat /\ Names(k)' \in Nat
        /\ Names(k)' + One(dir[dp][n] = k) = Names(k) + One(dir'[dp][n] = k)
    BY <1>3, <1>4, <1>12, <1>14, EntryMove
  <2>2. Subdirs(k)' = Subdirs(k)
    <3>1. \A d \in Inode \ {i} : NameEntries(d)' = NameEntries(d)
      <4> SUFFICES ASSUME NEW d \in Inode \ {i}, NEW y \in Inode, NEW m \in Name
                   PROVE  dir'[y][m] = d <=> dir[y][m] = d
        BY DEF NameEntries
      <4> QED
        BY <1>13, <1>14, RootIs
    <3>2. \A d \in Inode : dir'[d][".."] = k => d # i
      BY <1>6, <1>14, RootIs DEF i
    <3> QED
      BY <1>14, <3>1, <3>2 DEF Subdirs
  <2>3. Parents(k)' = Parents(k) /\ Parents(k) \in Nat /\ lost[k] \in Nat /\ lost' = lost
    BY <1>1, <2>2, LinkSum DEF Parents
  <2>4. Owing(th[p], k) = One(i = k) /\ Owing(u, k) = 0 /\ One(dir[dp][n] = k) = 0 /\ One(dir'[dp][n] = k) = One(i = k)
    BY <1>10, <1>13, RootIs DEF Owing, One, i
  <2>5. dinode[k].nlink \in Nat /\ dinode' = dinode /\ One(i = k) \in Nat
    BY <1>1, Before DEF Disk, One
  <2>6. /\ Names(k)' \in Nat /\ Parents(k)' \in Nat /\ lost'[k] \in Nat
        /\ dinode'[k].nlink + Names(k) + Parents(k) + lost[k] + Owing(th[p], k)
             = dinode[k].nlink + Names(k)' + Parents(k)' + lost'[k] + Owing(u, k)
    BY <2>1, <2>3, <2>4, <2>5
  <2> QED
    BY <2>6 DEF Relinks
<1>19. /\ SafeAt(th[p], cwd[p])' /\ FoundAt(u) /\ Safe(dp)
  <2>1. SafeAt(th[p], c) /\ Safe(i) /\ Safe(dp)
    BY <1>1, <1>3, StillSafe DEF SafeAt, dp, i
  <2>2. SafeAt(u, c)
    BY <1>8, <2>1 DEF SafeAt, i
  <2>3. FoundAt(u)
    BY <1>5, <1>8 DEF FoundAt, i
  <2>4. \A k \in Inode : dinode'[k].type = dinode[k].type
    BY <1>1
  <2> HIDE DEF c
  <2>5. SafeAt(th[p], cwd[p])'
    BY <1>8, <1>9, <2>2, <2>4, SafeMove
  <2> QED
    BY <2>1, <2>3, <2>5
<1>20. \A x, y \in Inode, m \in Name : dir'[x][m] = y /\ dinode[y].type = "dir" => dir[x][m] = y
  BY <1>5, <1>13, <1>14 DEF i
<1>21. TreeInv'
  <2>1. \A k \in Inode : dinode'[k].type # "dir" => dir'[k] = NoEntries
    BY <1>1, <1>4, <1>12 DEF FsInv, TreeInv, dp
  <2>2. \A x, y \in Inode, m \in Name : dir'[x][m] = y /\ dinode'[y].type = "dir" =>
          /\ dir'[y][".."] = x /\ y # ROOTINO
          /\ \A l \in Name : dir'[x][l] = y => l = m
    BY <1>1, <1>14, <1>20 DEF FsInv, TreeInv
  <2> QED
    BY <2>1, <2>2 DEF TreeInv
<1>22. RankInv'
  BY <1>1, <1>20 DEF FsInv, RankInv, Below
<1>23. /\ \A k \in Inode : dinode'[k].type = dinode[k].type
       /\ \A k \in Inode : Safe(k) \/ (dinode'[k] = dinode[k] /\ dir'[k] = dir[k])
       /\ \A k \in Inode : dir'[k] = dir[k] \/ itable[k].lock \in {p, NoProc}
       /\ dinode' \in Disk /\ file' = file
  BY <1>1, <1>12, <1>19, Before DEF Unlocked, dp
<1> HIDE DEF c
<1> QED
  BY <1>1, <1>8, <1>9, <1>16, <1>17, <1>18, <1>19, <1>21, <1>22, <1>23, EntryInv

LEMMA LinkEntryInv ==
  ASSUME FsInv, NEW p \in Proc, LinkEntry(p)
  PROVE  FsInv'
BY LinkMakesInv, LinkFailInv DEF LinkEntry

\* The links of parents, when only names of i and its own parent change.
LEMMA ParentMove ==
  ASSUME FsInv, NEW i \in Inode, NEW k \in Inode,
         \A d \in Inode \ {i} : dir'[d][".."] = dir[d][".."],
         \A y \in Inode, m \in Name :
           dir'[y][m] = dir[y][m] \/ (dir'[y][m] \in {0, i} /\ dir[y][m] \in {0, i})
  PROVE  /\ Parents(k) \in Nat /\ Parents(k)' \in Nat
         /\ Parents(k)' + One(i \in Subdirs(k)) = Parents(k) + One(i \in Subdirs(k)')
<1> DEFINE A == Subdirs(k)
           B == Subdirs(k)'
<1>1. A \in SUBSET Inode /\ B \in SUBSET Inode
  BY DEF Subdirs
<1>2. \A d \in Inode \ {i} : d \in A <=> d \in B
  <2>1. \A d \in Inode \ {i} : NameEntries(d)' = NameEntries(d)
    <3> SUFFICES ASSUME NEW d \in Inode \ {i}, NEW y \in Inode, NEW m \in Name
                 PROVE  dir'[y][m] = d <=> dir[y][m] = d
      BY DEF NameEntries
    <3> QED
      BY RootIs
  <2> QED
    BY <2>1 DEF Subdirs
<1>3. Parents(k) = Cardinality(A) /\ Parents(k)' = Cardinality(B)
  BY DEF Parents
<1> HIDE DEF A, B
<1>4. /\ Cardinality(A) \in Nat /\ Cardinality(B) \in Nat
      /\ Cardinality(B) + (IF i \in A THEN 1 ELSE 0) = Cardinality(A) + (IF i \in B THEN 1 ELSE 0)
  BY <1>1, <1>2, FiniteTables, CountMove
<1> QED
  BY <1>3, <1>4 DEF One, A, B

\* A directory has the one name by which it was found.
LEMMA OneName ==
  ASSUME FsInv, NEW x \in Inode, NEW n \in Name, NEW i \in Inode, dir[x][n] = i,
         dinode[i].type = "dir"
  PROVE  /\ dir[i][".."] = x /\ i # ROOTINO
         /\ \A y \in Inode, m \in Name : dir[y][m] = i => y = x /\ m = n
BY DEF FsInv, TreeInv

\* A process in create() or unlink() holds the lock of the parent.
LEMMA AtChild ==
  ASSUME FsInv, NEW p \in Proc, th[p].pc \in {"create", "unlink"}
  PROVE  /\ Stage(th[p]) = th[p].pc /\ th[p].drop = 0 /\ cwd[p] # 0 /\ Locks(th[p]) = {th[p].at}
         /\ th[p].at \in Inode /\ th[p].ip \in Inode /\ itable[th[p].at].lock = p
         /\ itable[th[p].at].valid /\ Safe(th[p].at)
         /\ itable[th[p].at].type = dinode[th[p].at].type
         /\ itable[th[p].at].nlink = dinode[th[p].at].nlink
         /\ name(p) \in Name /\ name(p) # ".." /\ dinode[th[p].at].type = "dir"
         /\ Unlocked(th[p].ip) => th[p].ip # th[p].at
<1>1. th[p] \in Thread /\ Shape(th[p], cwd[p]) /\ \A k \in Inode : itable[k].lock = p <=> k \in Locks(th[p])
  BY Here
<1>2. Stage(th[p]) = th[p].pc /\ th[p].pc \notin Putting
  BY DEF Stage, Putting
<1>3. /\ th[p].at \in Inode /\ th[p].ip \in Inode /\ th[p].drop = 0 /\ cwd[p] # 0 /\ th[p].path # <<>>
  BY <1>1, <1>2 DEF Thread, Shape, HasAt, HasIp
<1>4. Locks(th[p]) = {th[p].at} /\ itable[th[p].at].lock = p
  BY <1>1, <1>2, <1>3 DEF Locks
<1>5. itable[th[p].at].valid /\ ilock(th[p].at) = itable[th[p].at]
  BY <1>3, <1>4, LockedRef DEF Unlocked, ilock
<1>6. itable[th[p].at].type = dinode[th[p].at].type /\ itable[th[p].at].nlink = dinode[th[p].at].nlink
  BY <1>3, <1>4, <1>5, IlockCurrent, DiskIs
<1>7. Safe(th[p].at) /\ dinode[th[p].at].type = "dir"
  <2>1. th[p].at # 0
    BY <1>3, RootIs
  <2> QED
    BY <1>2, <2>1, StillSafe DEF SafeAt, FoundAt
<1>8. name(p) \in Name /\ name(p) # ".."
  <2>1. th[p].path \in Seq(Name)
    BY <1>1 DEF Thread
  <2> QED
    BY <1>3, <2>1, PathHead DEF name
<1> QED
  BY <1>2, <1>3, <1>4, <1>5, <1>6, <1>7, <1>8 DEF Unlocked

\* unlink() removes the name, and with a directory the link to its parent.
LEMMA UnlinkGoesInv ==
  ASSUME FsInv, NEW p \in Proc, UnlinkEntry(p),
         ~ (ilock(th[p].ip).type = "dir" /\ ~ isdirempty(th[p].ip))
  PROVE  FsInv'
<1> DEFINE dp == th[p].at
           i == th[p].ip
           c == cwd[p]
           n == name(p)
           isdir == dinode[i].type = "dir"
           l == dinode[dp].nlink - (IF isdir THEN 1 ELSE 0)
           e == [ilock(i) EXCEPT !.lock = p]
           d == [itable[dp] EXCEPT !.nlink = IF ilock(i).type = "dir" THEN @ - 1 ELSE @, !.lock = NoProc]
           t == [th[p] EXCEPT !.at = 0]
           u == After(t, dp, "unlinked")
<1>1. /\ th[p].pc = "unlink" /\ Unlocked(i)
      /\ itable' = [itable EXCEPT ![i] = e, ![dp] = d]
      /\ dinode' = [dinode EXCEPT ![dp] = iupdate(d)]
      /\ dir' = [dir EXCEPT ![dp][n] = 0] /\ th' = [th EXCEPT ![p] = u]
      /\ UNCHANGED <<file, ofile, cwd, lost>>
  BY DEF UnlinkEntry
<1>2. /\ th[p] \in Thread /\ Shape(th[p], c) /\ cwd = [cwd EXCEPT ![p] = c] /\ c \in Inode \cup {0}
      /\ c = 0 => \A x \in Fd : ofile[p][x] = 0
      /\ \A k \in Inode : itable[k].lock = p <=> k \in Locks(th[p])
  BY Here
<1>3. /\ Stage(th[p]) = "unlink" /\ th[p].drop = 0 /\ c # 0 /\ Locks(th[p]) = {dp}
      /\ dp \in Inode /\ i \in Inode /\ itable[dp].lock = p /\ itable[dp].valid /\ Safe(dp)
      /\ itable[dp].type = dinode[dp].type /\ itable[dp].nlink = dinode[dp].nlink
      /\ n \in Name /\ n # ".." /\ dinode[dp].type = "dir" /\ i # dp
  BY <1>1, AtChild
<1>4. dp # 0 /\ i # 0 /\ Safe(i) /\ dir[dp][n] = i /\ th[p].req.call = "unlink"
  <2>1. dp # 0 /\ i # 0
    BY <1>3, RootIs
  <2> QED
    BY <1>1, <1>2, <1>3, <2>1, StillSafe DEF SafeAt, FoundAt, name, Shape
<1>5. /\ ilock(i) \in [ref : Nat, valid : BOOLEAN, lock : Proc \cup {NoProc}, type : Type, nlink : Nat]
      /\ ilock(i).ref = itable[i].ref /\ ilock(i).valid
      /\ ilock(i).type = dinode[i].type /\ ilock(i).nlink = dinode[i].nlink
  BY <1>1, <1>3, IlockIs, IlockCurrent, DiskIs
<1>6. t \in Thread /\ t.at = 0 /\ t.ip = i /\ t.req = th[p].req
  BY <1>2 DEF Thread
<1> HIDE DEF t
<1>7. /\ u \in Thread /\ u.pc = "put" /\ u.drop = dp /\ Stage(u) = "unlinked" /\ u.at = 0
      /\ u.ip = i /\ u.req = th[p].req
  <2>1. "unlinked" \in Pc
    BY DEF Pc
  <2> QED
    BY <1>3, <1>6, <2>1, AfterIs
<1> HIDE DEF u
<1>8. Moves(p, u, c)
  <2>1. Shape(u, c)
    BY <1>3, <1>4, <1>7 DEF Shape, Putting, HasAt, HasIp
  <2> QED
    BY <1>1, <1>2, <1>7, <2>1 DEF Moves
<1>9. Locks(u) = {i} /\ Owes(u) = i /\ Owes(th[p]) = 0
  BY <1>3, <1>4, <1>7 DEF Locks, Owes
<1> HIDE DEF dp, i, n
<1>10. dir \in [Inode -> [Entry -> Inode \cup {0}]] /\ n \in Entry /\ ".." \in Entry
  BY <1>3, Before DEF Entries, Entry
<1>11. /\ dir' \in Entries /\ dir'[dp] = [dir[dp] EXCEPT ![n] = 0]
       /\ \A k \in Inode \ {dp} : dir'[k] = dir[k]
  BY <1>1, <1>3, <1>10 DEF Entries
<1>12. /\ dir'[dp][n] = 0 /\ \A m \in Entry \ {n} : dir'[dp][m] = dir[dp][m]
  BY <1>3, <1>10, <1>11
<1>13. /\ \A y \in Inode, m \in Name : <<y, m>> # <<dp, n>> => dir'[y][m] = dir[y][m]
       /\ \A y \in Inode : dir'[y][".."] = dir[y][".."]
       /\ \A y \in Inode, m \in Name : dir'[y][m] # 0 => dir'[y][m] = dir[y][m]
  BY <1>3, <1>10, <1>11, <1>12 DEF Entry
<1>14. ASSUME NEW k \in Inode
       PROVE  /\ Parents(k) \in Nat /\ Parents(k)' \in Nat
              /\ Parents(k)' + One(isdir /\ k = dp) = Parents(k)
  <2>1. \A y \in Inode, m \in Name :
          dir'[y][m] = dir[y][m] \/ (dir'[y][m] \in {0, i} /\ dir[y][m] \in {0, i})
    BY <1>4, <1>12, <1>13
  <2>2. /\ Parents(k) \in Nat /\ Parents(k)' \in Nat
        /\ Parents(k)' + One(i \in Subdirs(k)) = Parents(k) + One(i \in Subdirs(k)')
    BY <1>3, <1>13, <2>1, ParentMove
  <2>3. i \in Subdirs(k) <=> (isdir /\ k = dp)
    <3>1. CASE isdir
      <4>1. dir[i][".."] = dp /\ i # ROOTINO
        BY <1>3, <1>4, <3>1, OneName
      <4>2. <<dp, n>> \in NameEntries(i)
        BY <1>3, <1>4 DEF NameEntries
      <4> QED
        BY <1>3, <3>1, <4>1, <4>2 DEF Subdirs
    <3>2. CASE ~ isdir
      <4>1. dir[i][".."] = 0
        BY <1>3, <1>10, <3>2 DEF FsInv, TreeInv, NoEntries
      <4> QED
        BY <3>2, <4>1, RootIs DEF Subdirs
    <3> QED
      BY <3>1, <3>2
  <2>4. i \notin Subdirs(k)'
    <3>1. CASE isdir
      <4>1. \A y \in Inode, m \in Name : dir[y][m] = i => y = dp /\ m = n
        BY <1>3, <1>4, <3>1, OneName
      <4>2. \A y \in Inode, m \in Name : dir'[y][m] # i
        BY <1>4, <1>12, <1>13, <4>1
      <4> QED
        BY <4>2 DEF Subdirs, NameEntries
    <3>2. CASE ~ isdir
      <4>1. dir'[i][".."] = 0
        BY <1>3, <1>10, <1>13, <3>2 DEF FsInv, TreeInv, NoEntries
      <4> QED
        BY <4>1, RootIs DEF Subdirs
    <3> QED
      BY <3>1, <3>2
  <2> QED
    BY <2>2, <2>3, <2>4 DEF One
<1>15. l \in Nat
  <2>1. dinode[dp].nlink \in Nat
    BY <1>3, Before DEF Disk
  <2>2. isdir => dinode[dp].nlink >= 1
    <3>1. isdir => Parents(dp) >= 1
      <4> SUFFICES ASSUME isdir PROVE Parents(dp) >= 1
        OBVIOUS
      <4>1. \A k \in Inode : k = dp => Parents(k)' + 1 = Parents(k) /\ Parents(k)' \in Nat
        BY <1>14 DEF One
      <4> QED
        BY <1>3, <4>1
    <3>2. /\ Names(dp) \in Nat /\ Parents(dp) \in Nat /\ lost[dp] \in Nat /\ Owed(dp) \in Nat
          /\ dinode[dp].nlink = Names(dp) + Parents(dp) + lost[dp] + One(dp = ROOTINO) + Owed(dp)
          /\ One(dp = ROOTINO) \in Nat
      BY <1>3, LinkSum DEF One
    <3> QED
      BY <3>1, <3>2
  <2> QED
    BY <2>1, <2>2
<1>16. /\ e \in [ref : Nat, valid : BOOLEAN, lock : Proc \cup {NoProc}, type : Type, nlink : Nat]
       /\ e.ref = itable[i].ref /\ e.valid /\ e.lock = p /\ e.type = dinode[i].type /\ e.nlink = dinode[i].nlink
  BY <1>5 DEF i
<1>17. /\ d \in [ref : Nat, valid : BOOLEAN, lock : Proc \cup {NoProc}, type : Type, nlink : Nat]
       /\ d.ref = itable[dp].ref /\ d.valid /\ d.lock = NoProc /\ d.type = dinode[dp].type /\ d.nlink = l
  <2>1. itable[dp] \in [ref : Nat, valid : BOOLEAN, lock : Proc \cup {NoProc}, type : Type, nlink : Nat]
    BY <1>3, Before DEF Table
  <2>2. l = IF ilock(i).type = "dir" THEN itable[dp].nlink - 1 ELSE itable[dp].nlink
    BY <1>3, <1>5, <2>1 DEF i
  <2>3. d = [itable[dp] EXCEPT !.nlink = l, !.lock = NoProc]
    BY <2>1, <2>2
  <2> HIDE DEF l
  <2> QED
    BY <1>3, <1>15, <2>1, <2>3
<1> HIDE DEF e, d
<1>18. itable' \in Table /\ itable'[i] = e /\ itable'[dp] = d /\ \A k \in Inode \ {i, dp} : itable'[k] = itable[k]
  BY <1>1, <1>3, <1>16, <1>17, Before DEF Table
<1>19. /\ dinode' \in Disk /\ dinode'[dp] = Dinode(dinode[dp].type, l)
       /\ \A k \in Inode \ {dp} : dinode'[k] = dinode[k]
  <2>1. iupdate(d) = Dinode(dinode[dp].type, l)
    BY <1>17 DEF iupdate
  <2>2. Dinode(dinode[dp].type, l) \in [type : Type, nlink : Nat]
    BY <1>3, <1>15, Before DEF Disk, Dinode
  <2> HIDE DEF l
  <2> QED
    BY <1>1, <1>3, <2>1, <2>2, Before DEF Disk
<1>20. dinode'[dp].type = dinode[dp].type /\ dinode'[dp].nlink = l /\ \A k \in Inode : dinode'[k].type = dinode[k].type
  BY <1>19 DEF Dinode
<1> HIDE DEF l
<1>21. CallInv' /\ RefCounts'
  <2>1. Relocks(p, u)
    <3>1. \A k \in Inode : itable[k].lock # NoProc => itable[k].valid
      BY LockedRef DEF Unlocked
    <3>2. \A k \in Inode \ {dp} : itable[k].lock # p
      BY <1>2, <1>3 DEF dp
    <3> SUFFICES ASSUME NEW k \in Inode
                 PROVE  /\ k = i => itable[k].lock \in {p, NoProc} /\ itable'[k].lock = p /\ itable'[k].valid
                        /\ k # i => itable'[k].lock = IF itable[k].lock = p THEN NoProc ELSE itable[k].lock
                        /\ itable[k].lock \notin {p, NoProc} => itable'[k].valid
      BY <1>9 DEF Relocks
    <3>3. CASE k = i
      BY <1>1, <1>16, <1>18, <3>3 DEF Unlocked, i
    <3>4. CASE k = dp
      BY <1>3, <1>17, <1>18, <3>4
    <3>5. CASE k # i /\ k # dp
      BY <1>18, <3>1, <3>2, <3>5
    <3> QED
      BY <3>3, <3>4, <3>5
  <2>2. Recounts(p, u, c)
    <3>1. \A k \in Inode : itable'[k].ref = itable[k].ref
      BY <1>16, <1>17, <1>18
    <3>2. \A k \in Inode : Mine(th[p], cwd[p], k) = Mine(u, c, k)
      BY <1>3, <1>7, RootIs DEF Mine, One, dp, i
    <3> QED
      BY <3>1, <3>2 DEF Recounts
  <2>3. lost' \in [Inode -> Nat] /\ file' = file /\ ofile' = ofile
    BY <1>1, Before
  <2> HIDE DEF c
  <2> QED
    BY <1>2, <1>8, <1>11, <1>18, <1>19, <2>1, <2>2, <2>3, CoreInv
<1>22. \A k \in Inode : CurrentAt(p, k)
  <2>1. CurrentAt(p, i)
    <3>1. dinode[i] = Dinode(dinode[i].type, dinode[i].nlink)
      BY <1>3, Before DEF Disk, Dinode
    <3>2. dinode'[i] = dinode[i] /\ dinode[i].type # "none"
      BY <1>3, <1>4, <1>19 DEF Safe, i
    <3> QED
      BY <1>16, <1>18, <3>1, <3>2 DEF CurrentAt
  <2>2. CurrentAt(p, dp)
    BY <1>3, <1>17, <1>18, <1>19, <1>20 DEF CurrentAt
  <2>3. ASSUME NEW k \in Inode \ {i, dp} PROVE CurrentAt(p, k)
    BY <1>1, <1>18, <1>19 DEF CurrentAt
  <2> QED
    BY <2>1, <2>2, <2>3
<1>23. ASSUME NEW k \in Inode PROVE Relinks(p, u, k)
  <2>1. /\ Names(k) \in Nat /\ Names(k)' \in Nat
        /\ Names(k)' + One(dir[dp][n] = k) = Names(k) + One(dir'[dp][n] = k)
    <3>1. \A y \in Inode, m \in Name : <<y, m>> # <<dp, n>> => dir'[y][m] = dir[y][m]
      BY <1>13
    <3>2. dir' \in Entries /\ dp \in Inode /\ n \in Name
      BY <1>3, <1>11
    <3> QED
      BY <3>1, <3>2, EntryMove
  <2>2. /\ Parents(k) \in Nat /\ Parents(k)' \in Nat
        /\ Parents(k)' + One(isdir /\ k = dp) = Parents(k)
    BY <1>14
  <2>3. lost[k] \in Nat /\ lost' = lost
    BY <1>1, Before
  <2>4. Owing(th[p], k) = 0 /\ Owing(u, k) = One(i = k) /\ One(dir[dp][n] = k) = One(i = k) /\ One(dir'[dp][n] = k) = 0
    BY <1>4, <1>9, <1>12, RootIs DEF Owing, One
  <2>5. dinode[k].nlink \in Nat /\ dinode'[k].nlink \in Nat /\ One(i = k) \in Nat /\ One(isdir /\ k = dp) \in Nat
    BY <1>19, Before DEF Disk, One
  <2>6. dinode'[k].nlink + One(isdir /\ k = dp) = dinode[k].nlink
    <3>1. CASE k = dp
      BY <1>20, <2>5, <3>1 DEF l, One
    <3>2. CASE k # dp
      BY <1>19, <2>5, <3>2 DEF One
    <3> QED
      BY <3>1, <3>2
  <2> DEFINE a == One(isdir /\ k = dp)
             b == One(i = k)
  <2> HIDE DEF a, b, isdir
  <2>7. /\ a \in Nat /\ b \in Nat /\ Names(k)' + b = Names(k) /\ Parents(k)' + a = Parents(k)
        /\ dinode'[k].nlink + a = dinode[k].nlink /\ Owing(u, k) = b
    BY <2>1, <2>2, <2>4, <2>5, <2>6 DEF a, b
  <2>8. /\ Names(k)' \in Nat /\ Parents(k)' \in Nat /\ lost'[k] \in Nat
        /\ dinode'[k].nlink + Names(k) + Parents(k) + lost[k] + Owing(th[p], k)
             = dinode[k].nlink + Names(k)' + Parents(k)' + lost'[k] + Owing(u, k)
    BY <2>1, <2>2, <2>3, <2>4, <2>5, <2>7
  <2> QED
    BY <2>8 DEF Relinks
<1>24. SafeAt(th[p], cwd[p])' /\ FoundAt(u)
  <2>1. SafeAt(th[p], c)
    BY StillSafe
  <2>2. SafeAt(u, c) /\ FoundAt(u)
    BY <1>3, <1>4, <1>7, <2>1 DEF SafeAt, FoundAt
  <2> HIDE DEF c
  <2>3. SafeAt(th[p], cwd[p])'
    BY <1>7, <1>8, <1>20, <2>2, SafeMove
  <2> QED
    BY <2>2, <2>3
<1>25. TreeInv'
  <2>1. \A k \in Inode : dinode'[k].type # "dir" => dir'[k] = NoEntries
    BY <1>3, <1>11, <1>20 DEF FsInv, TreeInv
  <2>2. \A x, y \in Inode, m \in Name : dir'[x][m] = y /\ dinode'[y].type = "dir" =>
          /\ dir'[y][".."] = x /\ y # ROOTINO
          /\ \A m2 \in Name : dir'[x][m2] = y => m2 = m
    BY <1>13, <1>20, RootIs DEF FsInv, TreeInv
  <2> QED
    BY <2>1, <2>2 DEF TreeInv
<1>26. RankInv'
  <2>1. \A x, y \in Inode, m \in Name : dir'[x][m] = y /\ dinode'[y].type = "dir" => dir[x][m] = y /\ dinode[y].type = "dir"
    BY <1>13, <1>20, RootIs
  <2> QED
    BY <2>1 DEF FsInv, RankInv, Below
<1>27. /\ \A k \in Inode : Safe(k) \/ (dinode'[k] = dinode[k] /\ dir'[k] = dir[k])
       /\ \A k \in Inode : dir'[k] = dir[k] \/ itable[k].lock \in {p, NoProc}
       /\ file' = file
  BY <1>1, <1>3, <1>11, <1>19
<1> HIDE DEF c
<1> QED
  BY <1>1, <1>7, <1>8, <1>19, <1>20, <1>21, <1>22, <1>23, <1>24, <1>25, <1>26, <1>27, EntryInv

LEMMA UnlinkEntryInv ==
  ASSUME FsInv, NEW p \in Proc, UnlinkEntry(p)
  PROVE  FsInv'
BY UnlinkGoesInv, UnlinkFailInv

\* create() gives the new inode its link and its name.
LEMMA CreateLinkInv ==
  ASSUME FsInv, NEW p \in Proc, CreateLink(p)
  PROVE  FsInv'
<1> DEFINE dp == th[p].at
           i == th[p].ip
           c == cwd[p]
           n == name(p)
           isdir == NewType(p) = "dir"
           l == dinode[dp].nlink + (IF isdir THEN 1 ELSE 0)
           e == [ilock(i) EXCEPT !.nlink = 1, !.lock = p]
           d == [itable[dp] EXCEPT !.nlink = IF isdir THEN @ + 1 ELSE @, !.lock = NoProc]
           up == IF isdir THEN dp ELSE 0
           u == IF NewType(p) = "file"
                THEN After([th[p] EXCEPT !.at = i, !.ip = 0], dp, "open")
                ELSE After([th[p] EXCEPT !.at = 0], dp, "dropip")
<1>1. /\ th[p].pc = "create" /\ Unlocked(i)
      /\ itable' = [itable EXCEPT ![i] = e, ![dp] = d]
      /\ dinode' = [dinode EXCEPT ![i] = iupdate(e), ![dp] = iupdate(d)]
      /\ dir' = [dir EXCEPT ![i][".."] = up, ![dp][n] = i] /\ th' = [th EXCEPT ![p] = u]
      /\ UNCHANGED <<file, ofile, cwd, lost>>
  BY DEF CreateLink
<1>2. /\ th[p] \in Thread /\ Shape(th[p], c) /\ cwd = [cwd EXCEPT ![p] = c] /\ c \in Inode \cup {0}
      /\ c = 0 => \A x \in Fd : ofile[p][x] = 0
      /\ \A k \in Inode : itable[k].lock = p <=> k \in Locks(th[p])
  BY Here
<1>3. /\ Stage(th[p]) = "create" /\ th[p].drop = 0 /\ c # 0 /\ Locks(th[p]) = {dp}
      /\ dp \in Inode /\ i \in Inode /\ itable[dp].lock = p /\ itable[dp].valid /\ Safe(dp)
      /\ itable[dp].type = dinode[dp].type /\ itable[dp].nlink = dinode[dp].nlink
      /\ n \in Name /\ n # ".." /\ dinode[dp].type = "dir" /\ i # dp
  BY <1>1, AtChild
<1>4. dp # 0 /\ i # 0 /\ dir[dp][n] = 0 /\ th[p].req.call \in {"creat", "mkdir", "mknod"}
  <2>1. dp # 0 /\ i # 0
    BY <1>3, RootIs
  <2> QED
    BY <1>1, <1>2, <1>3, <2>1, StillSafe DEF FoundAt, name, Shape, ParentCall
<1>5. dinode[i] = Dinode(NewType(p), 0) /\ dir[i] = NoEntries
  BY <1>1 DEF FsInv, AllocInv
<1>6. /\ NewType(p) \in Type /\ NewType(p) # "none"
      /\ NewType(p) = "file" => th[p].req.call = "creat"
      /\ NewType(p) # "file" => th[p].req.call \in {"mkdir", "mknod"}
  BY <1>4 DEF NewType, Type
<1>7. dinode[i].type = NewType(p) /\ dinode[i].nlink = 0
  BY <1>5 DEF Dinode
<1> HIDE DEF isdir
<1>8. /\ ilock(i) \in [ref : Nat, valid : BOOLEAN, lock : Proc \cup {NoProc}, type : Type, nlink : Nat]
      /\ ilock(i).ref = itable[i].ref /\ ilock(i).valid /\ ilock(i).type = NewType(p)
  BY <1>1, <1>3, <1>7, IlockIs, IlockCurrent, DiskIs
<1>9. i # ROOTINO /\ \A y \in Inode, m \in Name : dir[y][m] # i
  <2>1. i # ROOTINO
    BY <1>7, RootLinked
  <2>2. ASSUME NEW y \in Inode, NEW m \in Name, dir[y][m] = i PROVE FALSE
    BY <1>3, <1>7, <2>2, NamedLinked
  <2> QED
    BY <2>1, <2>2
<1>10. /\ u \in Thread /\ u.pc = "put" /\ u.drop = dp /\ u.req = th[p].req
       /\ NewType(p) = "file" => Stage(u) = "open" /\ u.at = i /\ u.ip = 0
       /\ NewType(p) # "file" => Stage(u) = "dropip" /\ u.at = 0 /\ u.ip = i
  <2>1. "dropip" \in Pc /\ "open" \in Pc
    BY DEF Pc
  <2>2. ASSUME NewType(p) = "file", NEW t, t = [th[p] EXCEPT !.at = i, !.ip = 0]
        PROVE  t \in Thread /\ t.at = i /\ t.ip = 0 /\ t.req = th[p].req
    BY <1>2, <1>3, <2>2 DEF Thread
  <2>3. ASSUME NewType(p) # "file", NEW t, t = [th[p] EXCEPT !.at = 0]
        PROVE  t \in Thread /\ t.at = 0 /\ t.ip = i /\ t.req = th[p].req
    BY <1>2, <1>3, <2>3 DEF Thread
  <2>4. CASE NewType(p) = "file"
    BY <1>3, <2>1, <2>2, <2>4, AfterIs
  <2>5. CASE NewType(p) # "file"
    BY <1>3, <2>1, <2>3, <2>5, AfterIs
  <2> QED
    BY <2>4, <2>5
<1> HIDE DEF u
<1>11. Moves(p, u, c)
  <2>1. Shape(u, c)
    BY <1>3, <1>4, <1>6, <1>10 DEF Shape, Putting, HasAt, HasIp, ParentCall
  <2> QED
    BY <1>1, <1>2, <1>10, <2>1 DEF Moves
<1>12. Locks(u) = {i} /\ Owes(u) = 0 /\ Owes(th[p]) = 0
  BY <1>3, <1>4, <1>6, <1>10 DEF Locks, Owes
<1> HIDE DEF dp, i, n
<1>13. dir \in [Inode -> [Entry -> Inode \cup {0}]] /\ n \in Entry /\ ".." \in Entry /\ up \in Inode \cup {0}
  BY <1>3, Before DEF Entries, Entry
<1> HIDE DEF up
<1>14. /\ dir' \in Entries /\ dir'[i] = [dir[i] EXCEPT ![".."] = up] /\ dir'[dp] = [dir[dp] EXCEPT ![n] = i]
       /\ \A k \in Inode \ {dp, i} : dir'[k] = dir[k]
  BY <1>1, <1>3, <1>13 DEF Entries
<1>15. /\ dir'[dp][n] = i /\ \A m \in Entry \ {n} : dir'[dp][m] = dir[dp][m]
       /\ dir'[i][".."] = up /\ \A m \in Name : dir'[i][m] = 0 /\ dir[i][m] = 0
       /\ dir[i][".."] = 0
  <2>1. \A m \in Entry : dir[i][m] = 0
    BY <1>5 DEF NoEntries, i
  <2>2. \A m \in Name : m \in Entry /\ m # ".."
    BY DEF Entry
  <2> QED
    BY <1>3, <1>13, <1>14, <2>1, <2>2
<1>16. /\ \A y \in Inode, m \in Name : <<y, m>> # <<dp, n>> => dir'[y][m] = dir[y][m]
       /\ \A y \in Inode \ {i} : dir'[y][".."] = dir[y][".."]
  <2>1. \A m \in Name : m \in Entry /\ m # ".."
    BY DEF Entry
  <2> QED
    BY <1>3, <1>13, <1>14, <1>15, <2>1
<1>17. ASSUME NEW k \in Inode
       PROVE  /\ Parents(k) \in Nat /\ Parents(k)' \in Nat
              /\ Parents(k)' = Parents(k) + One(isdir /\ k = dp)
  <2>1. \A y \in Inode, m \in Name :
          dir'[y][m] = dir[y][m] \/ (dir'[y][m] \in {0, i} /\ dir[y][m] \in {0, i})
    BY <1>4, <1>15, <1>16 DEF dp, n
  <2>2. /\ Parents(k) \in Nat /\ Parents(k)' \in Nat
        /\ Parents(k)' + One(i \in Subdirs(k)) = Parents(k) + One(i \in Subdirs(k)')
    BY <1>3, <1>16, <2>1, ParentMove
  <2>3. i \notin Subdirs(k)
    BY <1>15, RootIs DEF Subdirs
  <2>4. i \in Subdirs(k)' <=> (isdir /\ k = dp)
    <3>1. \A j : i \in Subdirs(j)' <=> i \in Inode \ {ROOTINO} /\ dir'[i][".."] = j /\ \E z \in Inode \X Name : dir'[z[1]][z[2]] = i
      BY DEF Subdirs, NameEntries
    <3>2. dir'[<<dp, n>>[1]][<<dp, n>>[2]] = i /\ <<dp, n>> \in Inode \X Name
      BY <1>3, <1>15
    <3>3. i \in Subdirs(k)' <=> up = k
      BY <1>3, <1>9, <1>15, <3>1, <3>2
    <3> QED
      BY <3>3, RootIs DEF up
  <2> QED
    BY <2>2, <2>3, <2>4 DEF One
<1>18. l \in Nat /\ dinode[dp].nlink \in Nat
  BY <1>3, Before DEF Disk
<1>19. /\ e \in [ref : Nat, valid : BOOLEAN, lock : Proc \cup {NoProc}, type : Type, nlink : Nat]
       /\ e.ref = itable[i].ref /\ e.valid /\ e.lock = p /\ e.type = NewType(p) /\ e.nlink = 1
  BY <1>8 DEF i
<1>20. /\ d \in [ref : Nat, valid : BOOLEAN, lock : Proc \cup {NoProc}, type : Type, nlink : Nat]
       /\ d.ref = itable[dp].ref /\ d.valid /\ d.lock = NoProc /\ d.type = dinode[dp].type /\ d.nlink = l
  <2>1. itable[dp] \in [ref : Nat, valid : BOOLEAN, lock : Proc \cup {NoProc}, type : Type, nlink : Nat]
    BY <1>3, Before DEF Table
  <2>2. l = IF isdir THEN itable[dp].nlink + 1 ELSE itable[dp].nlink
    BY <1>3, <2>1
  <2>3. d = [itable[dp] EXCEPT !.nlink = l, !.lock = NoProc]
    BY <2>1, <2>2
  <2> HIDE DEF l
  <2> QED
    BY <1>3, <1>18, <2>1, <2>3
<1> HIDE DEF e, d
<1>21. itable' \in Table /\ itable'[i] = e /\ itable'[dp] = d /\ \A k \in Inode \ {i, dp} : itable'[k] = itable[k]
  BY <1>1, <1>3, <1>19, <1>20, Before DEF Table
<1>22. /\ dinode' \in Disk /\ dinode'[dp] = Dinode(dinode[dp].type, l) /\ dinode'[i] = Dinode(NewType(p), 1)
       /\ \A k \in Inode \ {dp, i} : dinode'[k] = dinode[k]
  <2>1. iupdate(d) = Dinode(dinode[dp].type, l) /\ iupdate(e) = Dinode(NewType(p), 1)
    BY <1>19, <1>20 DEF iupdate
  <2>2. Dinode(dinode[dp].type, l) \in [type : Type, nlink : Nat] /\ Dinode(NewType(p), 1) \in [type : Type, nlink : Nat]
    BY <1>3, <1>6, <1>18, Before DEF Disk, Dinode
  <2> HIDE DEF l
  <2> QED
    BY <1>1, <1>3, <2>1, <2>2, Before DEF Disk
<1>23. /\ dinode'[dp].type = dinode[dp].type /\ dinode'[dp].nlink = l /\ dinode'[i].nlink = 1
       /\ \A k \in Inode : dinode'[k].type = dinode[k].type
  BY <1>7, <1>22 DEF Dinode, i
<1> HIDE DEF l
<1>24. CallInv' /\ RefCounts'
  <2>1. Relocks(p, u)
    <3>1. \A k \in Inode : itable[k].lock # NoProc => itable[k].valid
      BY LockedRef DEF Unlocked
    <3>2. \A k \in Inode \ {dp} : itable[k].lock # p
      BY <1>2, <1>3 DEF dp
    <3> SUFFICES ASSUME NEW k \in Inode
                 PROVE  /\ k = i => itable[k].lock \in {p, NoProc} /\ itable'[k].lock = p /\ itable'[k].valid
                        /\ k # i => itable'[k].lock = IF itable[k].lock = p THEN NoProc ELSE itable[k].lock
                        /\ itable[k].lock \notin {p, NoProc} => itable'[k].valid
      BY <1>12 DEF Relocks
    <3>3. CASE k = i
      BY <1>1, <1>19, <1>21, <3>3 DEF Unlocked, i
    <3>4. CASE k = dp
      BY <1>3, <1>20, <1>21, <3>4
    <3>5. CASE k # i /\ k # dp
      BY <1>21, <3>1, <3>2, <3>5
    <3> QED
      BY <3>3, <3>4, <3>5
  <2>2. Recounts(p, u, c)
    <3>1. \A k \in Inode : itable'[k].ref = itable[k].ref
      BY <1>19, <1>20, <1>21
    <3>2. \A k \in Inode : Mine(th[p], cwd[p], k) = Mine(u, c, k)
      BY <1>3, <1>10, RootIs DEF Mine, One, dp, i
    <3> QED
      BY <3>1, <3>2 DEF Recounts
  <2>3. lost' \in [Inode -> Nat] /\ file' = file /\ ofile' = ofile
    BY <1>1, Before
  <2> HIDE DEF c
  <2> QED
    BY <1>2, <1>11, <1>14, <1>21, <1>22, <2>1, <2>2, <2>3, CoreInv
<1>25. \A k \in Inode : CurrentAt(p, k)
  <2>1. CurrentAt(p, i)
    BY <1>6, <1>19, <1>21, <1>22 DEF CurrentAt, Dinode
  <2>2. CurrentAt(p, dp)
    BY <1>3, <1>20, <1>21, <1>22, <1>23 DEF CurrentAt
  <2>3. ASSUME NEW k \in Inode \ {i, dp} PROVE CurrentAt(p, k)
    BY <1>1, <1>21, <1>22 DEF CurrentAt
  <2> QED
    BY <2>1, <2>2, <2>3
<1>26. ASSUME NEW k \in Inode PROVE Relinks(p, u, k)
  <2>1. /\ Names(k) \in Nat /\ Names(k)' \in Nat
        /\ Names(k)' + One(dir[dp][n] = k) = Names(k) + One(dir'[dp][n] = k)
    <3>1. \A y \in Inode, m \in Name : <<y, m>> # <<dp, n>> => dir'[y][m] = dir[y][m]
      BY <1>16
    <3>2. dir' \in Entries /\ dp \in Inode /\ n \in Name
      BY <1>3, <1>14
    <3> QED
      BY <3>1, <3>2, EntryMove
  <2>2. /\ Parents(k) \in Nat /\ Parents(k)' \in Nat
        /\ Parents(k)' = Parents(k) + One(isdir /\ k = dp)
    BY <1>17
  <2>3. lost[k] \in Nat /\ lost' = lost
    BY <1>1, Before
  <2>4. Owing(th[p], k) = 0 /\ Owing(u, k) = 0 /\ One(dir[dp][n] = k) = 0 /\ One(dir'[dp][n] = k) = One(i = k)
    BY <1>4, <1>12, <1>15, RootIs DEF Owing, One, dp, n
  <2>5. dinode[k].nlink \in Nat /\ dinode'[k].nlink \in Nat /\ One(i = k) \in Nat /\ One(isdir /\ k = dp) \in Nat
    BY <1>22, Before DEF Disk, One
  <2>6. dinode'[k].nlink = dinode[k].nlink + One(isdir /\ k = dp) + One(i = k)
    <3>1. CASE k = dp
      BY <1>3, <1>18, <1>23, <2>5, <3>1 DEF l, One
    <3>2. CASE k = i
      BY <1>3, <1>7, <1>23, <2>5, <3>2 DEF One, i
    <3>3. CASE k # dp /\ k # i
      BY <1>22, <2>5, <3>3 DEF One
    <3> QED
      BY <3>1, <3>2, <3>3
  <2> DEFINE a == One(isdir /\ k = dp)
             b == One(i = k)
  <2> HIDE DEF a, b
  <2>7. /\ a \in Nat /\ b \in Nat /\ Names(k)' = Names(k) + b /\ Parents(k)' = Parents(k) + a
        /\ dinode'[k].nlink = dinode[k].nlink + a + b
    BY <2>1, <2>2, <2>4, <2>5, <2>6 DEF a, b
  <2>8. /\ Names(k)' \in Nat /\ Parents(k)' \in Nat /\ lost'[k] \in Nat
        /\ dinode'[k].nlink + Names(k) + Parents(k) + lost[k] + Owing(th[p], k)
             = dinode[k].nlink + Names(k)' + Parents(k)' + lost'[k] + Owing(u, k)
    BY <2>1, <2>2, <2>3, <2>4, <2>5, <2>7
  <2> QED
    BY <2>8 DEF Relinks
<1>27. SafeAt(th[p], cwd[p])' /\ FoundAt(u)
  <2>1. \A k \in Inode : Safe(k) => Safe(k)'
    BY <1>10, <1>11, <1>23, SafeStep
  <2>2. \A k \in Inode : k = i => Safe(k)'
    <3> SUFFICES ASSUME NEW k \in Inode, k = i PROVE Safe(k)'
      OBVIOUS
    <3>1. th'[p] = u /\ \A q \in Proc \ {p} : th'[q] = th[q]
      BY <1>11, MovesTo
    <3>2. dinode'[k].type # "none"
      BY <1>6, <1>7, <1>23 DEF i
    <3>3. \A q \in Proc : /\ th[q].pc = "trunc" => th[q].drop # k
                          /\ q # p /\ th[q].pc = "create" => th[q].ip # k
      BY <1>1 DEF FsInv, AllocInv, i
    <3> QED
      BY <1>10, <3>1, <3>2, <3>3 DEF Safe
  <2>3. c # 0 => Safe(c)
    BY StillSafe DEF SafeAt
  <2>4. /\ cwd'[p] # 0 => cwd'[p] \in Inode /\ Safe(cwd'[p])
        /\ th'[p].at # 0 => th'[p].at = i /\ th'[p].at \in Inode
        /\ th'[p].ip # 0 => th'[p].ip = i /\ th'[p].ip \in Inode
        /\ th'[p].drop \in Inode /\ Safe(th'[p].drop)
    <3>1. th'[p] = u /\ cwd'[p] = c
      BY <1>11, MovesTo
    <3> QED
      BY <1>2, <1>3, <1>10, <2>3, <3>1
  <2>5. FoundAt(u)
    BY <1>4, <1>10 DEF FoundAt
  <2>6. SafeAt(th[p], cwd[p])'
    BY <2>1, <2>2, <2>4 DEF SafeAt
  <2> QED
    BY <2>5, <2>6
<1>28. \A x, y \in Inode, m \in Name : dir'[x][m] = y => (x = dp /\ m = n /\ y = i) \/ (dir[x][m] = y /\ y # i /\ x # i)
  BY <1>9, <1>15, <1>16, RootIs DEF i
<1>29. TreeInv'
  <2>1. ASSUME NEW k \in Inode, dinode'[k].type # "dir" PROVE dir'[k] = NoEntries
    <3>1. k # dp
      BY <1>3, <1>23, <2>1
    <3>2. CASE k = i
      <4>1. up = 0
        BY <1>7, <1>23, <2>1, <3>2 DEF up, isdir, i
      <4>2. [NoEntries EXCEPT ![".."] = 0] = NoEntries
        BY <1>13 DEF NoEntries
      <4> QED
        BY <1>5, <1>14, <3>2, <4>1, <4>2 DEF i
    <3>3. CASE k # i
      BY <1>14, <1>23, <2>1, <3>1, <3>3 DEF FsInv, TreeInv
    <3> QED
      BY <3>2, <3>3
  <2>2. ASSUME NEW x \in Inode, NEW y \in Inode, NEW m \in Name, dir'[x][m] = y, dinode'[y].type = "dir"
        PROVE  dir'[y][".."] = x /\ y # ROOTINO /\ \A m2 \in Name : dir'[x][m2] = y => m2 = m
    <3>1. CASE x = dp /\ m = n /\ y = i
      <4>1. up = dp
        BY <1>7, <1>23, <2>2, <3>1 DEF up, isdir, i
      <4>2. \A m2 \in Name : dir'[x][m2] = y => m2 = m
        BY <1>28, <3>1, <2>2
      <4> QED
        BY <1>9, <1>15, <3>1, <4>1, <4>2 DEF i
    <3>2. CASE dir[x][m] = y /\ y # i /\ x # i
      <4>1. dir[y][".."] = x /\ y # ROOTINO /\ \A m2 \in Name : dir[x][m2] = y => m2 = m
        BY <1>23, <2>2, <3>2 DEF FsInv, TreeInv
      <4>2. \A m2 \in Name : dir'[x][m2] = y => dir[x][m2] = y
        BY <1>28, <3>2
      <4> QED
        BY <1>16, <3>2, <4>1, <4>2
    <3> QED
      BY <1>28, <2>2, <3>1, <3>2
  <2> QED
    BY <2>1, <2>2 DEF TreeInv
<1>30. RankInv'
  <2>1. PICK rank \in [Inode -> Nat] : Below(rank)
    BY DEF FsInv, RankInv
  <2> DEFINE r2 == [k \in Inode |-> IF k = i THEN 0 ELSE rank[k] + 1]
  <2>2. r2 \in [Inode -> Nat]
    OBVIOUS
  <2>3. ASSUME NEW x \in Inode, NEW y \in Inode, NEW m \in Name, dir'[x][m] = y, dinode'[y].type = "dir"
        PROVE  r2[y] < r2[x]
    <3>1. CASE x = dp /\ m = n /\ y = i
      BY <1>3, <3>1
    <3>2. CASE dir[x][m] = y /\ y # i /\ x # i
      <4>1. rank[y] < rank[x] /\ rank[y] \in Nat /\ rank[x] \in Nat
        BY <1>23, <2>1, <2>3, <3>2 DEF Below
      <4> QED
        BY <3>2, <4>1
    <3> QED
      BY <1>28, <2>3, <3>1, <3>2
  <2> HIDE DEF r2
  <2> QED
    BY <2>2, <2>3 DEF RankInv, Below
<1>31. /\ \A k \in Inode : Safe(k) \/ (th[p].pc = "create" /\ th[p].ip = k) \/ (dinode'[k] = dinode[k] /\ dir'[k] = dir[k])
       /\ \A k \in Inode : dir'[k] = dir[k] \/ itable[k].lock \in {p, NoProc}
       /\ file' = file
  BY <1>1, <1>3, <1>14, <1>22 DEF Unlocked, i
<1> HIDE DEF c
<1> QED
  BY <1>1, <1>10, <1>11, <1>22, <1>23, <1>24, <1>25, <1>26, <1>27, <1>29, <1>30, <1>31, EntryInv

\* The entries of directory i vanish.
LEMMA Vanish ==
  ASSUME FsInv, NEW i \in Inode, \A m \in Name : dir'[i][m] = 0,
         \A y \in Inode \ {i} : dir'[y] = dir[y], NEW k \in Inode
  PROVE  /\ Names(k) \in Nat /\ Names(k)' \in Nat
         /\ Cardinality({m \in Name : dir[i][m] = k}) \in Nat
         /\ Names(k)' + Cardinality({m \in Name : dir[i][m] = k}) = Names(k)
<1> DEFINE S == Inode \X Name
           A == {z \in S : dir[z[1]][z[2]] = k}
           B == {z \in S : dir'[z[1]][z[2]] = k}
           D == {m \in Name : dir[i][m] = k}
           C == {z \in S : z[1] = i /\ dir[z[1]][z[2]] = k}
           f == [m \in D |-> <<i, m>>]
<1>1. /\ IsFiniteSet(A) /\ Cardinality(A) \in Nat /\ IsFiniteSet(B) /\ Cardinality(B) \in Nat
      /\ IsFiniteSet(C) /\ IsFiniteSet(D) /\ Cardinality(D) \in Nat
  <2>1. IsFiniteSet(S)
    BY FiniteTables, FS_Product
  <2> QED
    BY <2>1, FinitePart
<1>2. Cardinality(C) = Cardinality(D)
  <2>1. f \in [D -> C]
    OBVIOUS
  <2>2. \A a, b \in D : f[a] = f[b] => a = b
    OBVIOUS
  <2>3. \A z \in C : \E m \in D : f[m] = z
    <3> SUFFICES ASSUME NEW z \in C PROVE \E m \in D : f[m] = z
      OBVIOUS
    <3>1. PICK y \in Inode, m \in Name : z = <<y, m>>
      OBVIOUS
    <3>2. y = i /\ m \in D
      BY <3>1
    <3> QED
      BY <3>1, <3>2
  <2> HIDE DEF f, C, D
  <2>4. f \in Injection(D, C)
    BY <2>1, <2>2 DEF Injection, IsInjective
  <2>5. f \in Surjection(D, C)
    BY <2>1, <2>3 DEF Surjection
  <2> QED
    BY <1>1, <2>4, <2>5, FS_Injection
<1>3. A = B \cup C /\ B \cap C = {}
  <2>1. ASSUME NEW z \in S PROVE (z \in A <=> z \in B \/ z \in C) /\ ~ (z \in B /\ z \in C)
    <3>1. PICK y \in Inode, m \in Name : z = <<y, m>>
      OBVIOUS
    <3>2. CASE y = i
      BY <3>1, <3>2, RootIs
    <3>3. CASE y # i
      <4>1. dir'[y] = dir[y]
        BY <3>3
      <4> QED
        BY <3>1, <3>3, <4>1
    <3> QED
      BY <3>2, <3>3
  <2>2. A \subseteq S /\ B \subseteq S /\ C \subseteq S
    OBVIOUS
  <2> HIDE DEF A, B, C, S
  <2> QED
    BY <2>1, <2>2
<1>4. Names(k) = Cardinality(A) /\ Names(k)' = Cardinality(B)
  BY DEF Names, NameEntries
<1> HIDE DEF A, B, C, D, S
<1>5. Cardinality(A) = Cardinality(B) + Cardinality(C) - Cardinality({})
  BY <1>1, <1>3, FS_Union
<1>6. Names(k) \in Nat /\ Names(k)' \in Nat /\ Cardinality(D) \in Nat /\ Names(k)' + Cardinality(D) = Names(k)
  BY <1>1, <1>2, <1>4, <1>5, FS_EmptySet
<1> QED
  BY <1>6 DEF D

\* iput() frees the inode on disk.
LEMMA TruncInv ==
  ASSUME FsInv, NEW p \in Proc, Trunc(p)
  PROVE  FsInv'
<1> DEFINE i == th[p].drop
           c == cwd[p]
           u == [th[p] EXCEPT !.pc = "freed"]
<1>1. /\ th[p].pc = "trunc" /\ itable' = [itable EXCEPT ![i].type = "none"]
      /\ dinode' = [dinode EXCEPT ![i] = Dinode("none", 0)] /\ dir' = [dir EXCEPT ![i] = NoEntries]
      /\ lost' = [j \in Inode |-> lost[j] + Cardinality({m \in Name : dir[i][m] = j})]
      /\ th' = [th EXCEPT ![p] = u] /\ UNCHANGED <<file, ofile, cwd>>
  BY DEF Trunc, GoesTo
<1>2. /\ th[p] \in Thread /\ Shape(th[p], c) /\ cwd = [cwd EXCEPT ![p] = c] /\ c \in Inode \cup {0}
      /\ c = 0 => \A d \in Fd : ofile[p][d] = 0
      /\ \A k \in Inode : itable[k].lock = p <=> k \in Locks(th[p])
  BY Here
<1>3. i \in Inode /\ i \in Locks(th[p]) /\ itable[i].lock = p
  BY <1>1, <1>2 DEF Thread, Shape, Putting, Locks
<1>4. /\ u \in Thread /\ u.pc = "freed" /\ u.drop = i /\ u.then = th[p].then
      /\ u.at = th[p].at /\ u.ip = th[p].ip /\ u.req = th[p].req /\ u.path = th[p].path
  <2>1. "freed" \in Pc
    BY DEF Pc
  <2> QED
    BY <1>2, <2>1 DEF Thread
<1> HIDE DEF u
<1>5. Stage(u) = Stage(th[p]) /\ th[p].pc \in Putting /\ u.pc \in Putting
  BY <1>1, <1>4 DEF Stage, Putting
<1>6. Moves(p, u, c)
  <2>1. Shape(u, c)
    BY <1>1, <1>2, <1>4, <1>5 DEF Shape
  <2> QED
    BY <1>1, <1>2, <1>4, <2>1 DEF Moves
<1>7. Locks(u) = Locks(th[p]) /\ Owes(u) = Owes(th[p])
  BY <1>1, <1>4, <1>5 DEF Locks, Owes
<1>8. /\ th'[p] = u /\ cwd' = cwd /\ file' = file /\ ofile' = ofile /\ \A q \in Proc \ {p} : th'[q] = th[q]
  BY <1>1, <1>6, MovesTo
<1> HIDE DEF i
<1>9. /\ itable' \in Table
      /\ itable'[i].ref = itable[i].ref /\ itable'[i].lock = p /\ itable'[i].valid = itable[i].valid
      /\ \A k \in Inode \ {i} : itable'[k] = itable[k]
  <2>1. itable[i] \in [ref : Nat, valid : BOOLEAN, lock : Proc \cup {NoProc}, type : Type, nlink : Nat]
    BY <1>3, Before DEF Table
  <2>2. "none" \in Type
    BY DEF Type
  <2> DEFINE e == [itable[i] EXCEPT !.type = "none"]
  <2>3. /\ e \in [ref : Nat, valid : BOOLEAN, lock : Proc \cup {NoProc}, type : Type, nlink : Nat]
        /\ e.ref = itable[i].ref /\ e.lock = p /\ e.valid = itable[i].valid
    BY <1>3, <2>1, <2>2
  <2>4. itable' = [itable EXCEPT ![i] = e]
    BY <1>1
  <2> HIDE DEF e
  <2> QED
    BY <1>3, <2>3, <2>4, Before DEF Table
<1>10. /\ dinode' \in Disk /\ dinode'[i].type = "none" /\ dinode'[i].nlink = 0
       /\ \A k \in Inode \ {i} : dinode'[k] = dinode[k]
  <2>1. Dinode("none", 0) \in [type : Type, nlink : Nat] /\ Dinode("none", 0).type = "none" /\ Dinode("none", 0).nlink = 0
    BY DEF Type, Dinode
  <2> QED
    BY <1>1, <1>3, <2>1, Before DEF Disk
<1>11. /\ dir' \in Entries /\ dir'[i] = NoEntries /\ \A k \in Inode \ {i} : dir'[k] = dir[k]
       /\ \A m \in Entry : dir'[i][m] = 0
  <2>1. NoEntries \in [Entry -> Inode \cup {0}] /\ \A m \in Entry : NoEntries[m] = 0
    BY DEF NoEntries
  <2> QED
    BY <1>1, <1>3, <2>1, Before DEF Entries
<1>12. /\ dinode[i].type # "none" /\ dinode[i].nlink = 0
       /\ \A q \in Proc : th[q].pc = "create" => th[q].ip # i
       /\ \A q \in Proc \ {p} : th[q].pc = "trunc" => th[q].drop # i
       /\ \A k : Safe(k) => k # i
  <2>1. ASSUME NEW q \in Proc, q # p, th[q].pc = "trunc", th[q].drop = i PROVE FALSE
    <3>1. i \in Locks(th[q])
      BY <2>1 DEF Locks
    <3> QED
      BY <1>3, <2>1, <3>1, Here
  <2>2. \A k : Safe(k) => k # i
    BY <1>1 DEF Safe, i
  <2> QED
    BY <1>1, <2>1, <2>2 DEF FsInv, AllocInv, i
<1>13. ASSUME NEW k \in Inode
       PROVE  /\ Names(k) \in Nat /\ Names(k)' \in Nat /\ lost[k] \in Nat /\ lost'[k] \in Nat
              /\ Names(k)' + lost'[k] = Names(k) + lost[k]
  <2>1. \A m \in Name : dir'[i][m] = 0
    BY <1>11 DEF Entry
  <2>2. /\ Names(k) \in Nat /\ Names(k)' \in Nat
        /\ Cardinality({m \in Name : dir[i][m] = k}) \in Nat
        /\ Names(k)' + Cardinality({m \in Name : dir[i][m] = k}) = Names(k)
    BY <1>3, <1>11, <2>1, Vanish
  <2>3. lost'[k] = lost[k] + Cardinality({m \in Name : dir[i][m] = k}) /\ lost[k] \in Nat
    BY <1>1, Before DEF i
  <2> QED
    BY <2>2, <2>3
<1>14. lost' \in [Inode -> Nat]
  <2>1. DOMAIN lost' = Inode /\ lost' = [j \in Inode |-> lost'[j]]
    BY <1>1
  <2> QED
    BY <1>13, <2>1
<1>15. CallInv' /\ RefCounts'
  <2>1. Relocks(p, u)
    <3>1. \A k \in Inode : itable[k].lock # NoProc => itable[k].valid
      BY LockedRef DEF Unlocked
    <3>2. \A k \in Inode : itable'[k].lock = itable[k].lock /\ itable'[k].valid = itable[k].valid
      BY <1>3, <1>9
    <3> QED
      BY <1>2, <1>7, <3>1, <3>2 DEF Relocks
  <2>2. Recounts(p, u, c)
    <3>1. \A k \in Inode : itable'[k].ref = itable[k].ref
      BY <1>9
    <3>2. \A k \in Inode : Mine(th[p], cwd[p], k) = Mine(u, c, k)
      BY <1>4 DEF Mine, i
    <3> QED
      BY <3>1, <3>2 DEF Recounts
  <2> HIDE DEF c
  <2> QED
    BY <1>2, <1>6, <1>8, <1>9, <1>10, <1>11, <1>14, <2>1, <2>2, CoreInv
<1>16. AllocInv'
  <2>1. \A k \in Inode : Safe(k) => Safe(k)'
    BY <1>4, <1>8, <1>10, <1>12 DEF Safe
  <2>2. ASSUME NEW q \in Proc
        PROVE  /\ (cwd[q] # 0 => Safe(cwd[q]))'
               /\ (th[q].at # 0 => Safe(th[q].at))'
               /\ (th[q].ip # 0 /\ th[q].pc # "create" => Safe(th[q].ip))'
               /\ (th[q].pc = "put" => Safe(th[q].drop))'
    <3>1. SafeAt(th[q], cwd[q]) /\ th[q] \in Thread /\ Shape(th[q], cwd[q]) /\ cwd[q] \in Inode \cup {0}
      BY StillSafe, Here
    <3>2. /\ cwd[q] # 0 => Safe(cwd[q]) /\ cwd[q] \in Inode
          /\ th[q].at # 0 => Safe(th[q].at) /\ th[q].at \in Inode
          /\ th[q].ip # 0 /\ th[q].pc # "create" => Safe(th[q].ip) /\ th[q].ip \in Inode
          /\ th[q].pc = "put" => Safe(th[q].drop) /\ th[q].drop \in Inode
      BY <3>1 DEF SafeAt, Thread, Shape, Putting
    <3>3. /\ cwd'[q] # 0 => Safe(cwd'[q]) /\ cwd'[q] \in Inode
          /\ th'[q].at # 0 => Safe(th'[q].at) /\ th'[q].at \in Inode
          /\ th'[q].ip # 0 /\ th'[q].pc # "create" => Safe(th'[q].ip) /\ th'[q].ip \in Inode
          /\ th'[q].pc = "put" => Safe(th'[q].drop) /\ th'[q].drop \in Inode
      BY <1>1, <1>4, <1>8, <3>2
    <3> QED
      BY <2>1, <3>3
  <2>3. \A f \in File : (file[f].ip # 0 => Safe(file[f].ip))'
    <3>1. \A f \in File : file'[f].ip # 0 => Safe(file'[f].ip) /\ file'[f].ip \in Inode
      BY <1>8, StillSafe, Before
    <3> QED
      BY <2>1, <3>1
  <2>4. ASSUME NEW q \in Proc, th'[q].pc = "trunc"
        PROVE  /\ dinode'[th'[q].drop].type # "none" /\ dinode'[th'[q].drop].nlink = 0
               /\ \A r \in Proc : th'[r].pc = "create" => th'[r].ip # th'[q].drop
    <3>1. q # p /\ th'[q] = th[q]
      BY <1>4, <1>8, <2>4
    <3>2. /\ dinode[th[q].drop].type # "none" /\ dinode[th[q].drop].nlink = 0
          /\ \A r \in Proc : th[r].pc = "create" => th[r].ip # th[q].drop
      BY <2>4, <3>1 DEF FsInv, AllocInv
    <3>3. th[q].drop \in Inode \ {i}
      <4>1. th[q] \in Thread /\ Shape(th[q], cwd[q])
        BY Here
      <4> QED
        BY <1>12, <2>4, <3>1, <4>1 DEF Thread, Shape, Putting
    <3> QED
      BY <1>4, <1>8, <1>10, <3>1, <3>2, <3>3
  <2>5. ASSUME NEW q \in Proc, th'[q].pc = "create"
        PROVE  /\ dinode'[th'[q].ip] = Dinode(NewType(q)', 0) /\ dir'[th'[q].ip] = NoEntries
               /\ \A r \in Proc \ {q} : th'[r].pc = "create" => th'[r].ip # th'[q].ip
    <3>1. q # p /\ th'[q] = th[q] /\ NewType(q)' = NewType(q)
      BY <1>4, <1>8, <2>5 DEF NewType
    <3>2. /\ dinode[th[q].ip] = Dinode(NewType(q), 0) /\ dir[th[q].ip] = NoEntries
          /\ \A r \in Proc \ {q} : th[r].pc = "create" => th[r].ip # th[q].ip
      BY <2>5, <3>1 DEF FsInv, AllocInv
    <3>3. th[q].ip \in Inode \ {i}
      BY <1>12, <2>5, <3>1, AtChild
    <3>4. dinode'[th[q].ip] = dinode[th[q].ip] /\ dir'[th[q].ip] = dir[th[q].ip]
      BY <1>10, <1>11, <3>3
    <3> QED
      BY <1>4, <1>8, <3>1, <3>2, <3>4
  <2>6. \A k \in Inode : dinode'[k].type = "none" => dinode'[k].nlink = 0
    BY <1>10 DEF FsInv, AllocInv
  <2> QED
    BY <2>2, <2>3, <2>4, <2>5, <2>6 DEF AllocInv
<1>17. CacheInv'
  <2> SUFFICES ASSUME NEW k \in Inode, itable'[k].valid, \A q \in Proc : th'[q].pc = "freed" => th'[q].drop # k
               PROVE  /\ Dinode(itable'[k].type, itable'[k].nlink) = dinode'[k]
                      /\ itable'[k].ref > 0 => dinode'[k].type # "none"
    BY DEF CacheInv
  <2>1. k # i
    BY <1>4, <1>8
  <2>2. itable'[k] = itable[k] /\ dinode'[k] = dinode[k]
    BY <1>9, <1>10, <2>1
  <2>3. \A q \in Proc : th[q].pc = "freed" => th[q].drop # k
    BY <1>1, <1>8
  <2> QED
    BY <2>2, <2>3 DEF FsInv, CacheInv
<1>18. ASSUME NEW k \in Inode PROVE Subdirs(k)' = Subdirs(k)
  <2>1. NameEntries(i) = {} /\ Subdirs(i) = {}
    <3>1. /\ Names(i) \in Nat /\ Parents(i) \in Nat /\ lost[i] \in Nat /\ Owed(i) \in Nat
          /\ One(i = ROOTINO) \in Nat
          /\ dinode[i].nlink = Names(i) + Parents(i) + lost[i] + One(i = ROOTINO) + Owed(i)
      BY <1>3, LinkSum DEF One
    <3>2. Names(i) = 0 /\ Parents(i) = 0
      BY <1>12, <3>1
    <3> QED
      BY <1>3, <3>2, LinkCounts, CountNone DEF Names, Parents
  <2>2. ASSUME NEW d \in Inode \ {i}, dir[d][".."] = k PROVE NameEntries(d)' = NameEntries(d)
    <3>1. dinode[d].type = "dir"
      <4>1. dir[d] # NoEntries
        BY <2>2, RootIs DEF NoEntries, Entry
      <4> QED
        BY <4>1 DEF FsInv, TreeInv
    <3>2. \A m \in Name : dir[i][m] # d
      <4> SUFFICES ASSUME NEW m \in Name, dir[i][m] = d PROVE FALSE
        OBVIOUS
      <4>1. dir[d][".."] = i /\ d # ROOTINO
        BY <1>3, <3>1, OneName
      <4>2. <<i, m>> \in NameEntries(d)
        BY <1>3 DEF NameEntries
      <4>3. d \in Subdirs(i)
        BY <4>1, <4>2 DEF Subdirs
      <4> QED
        BY <2>1, <4>3
    <3>3. \A m \in Name : dir'[i][m] # d
      BY <1>11, RootIs DEF Entry
    <3>4. \A y \in Inode, m \in Name : dir'[y][m] = d <=> dir[y][m] = d
      BY <1>11, <3>2, <3>3
    <3> QED
      BY <3>4 DEF NameEntries
  <2>3. i \notin Subdirs(k) /\ i \notin Subdirs(k)'
    <3>1. dir'[i][".."] = 0
      BY <1>11 DEF Entry
    <3> QED
      BY <2>1, <3>1, RootIs DEF Subdirs
  <2>4. \A d \in Inode \ {i} : d \in Subdirs(k)' <=> d \in Subdirs(k)
    BY <1>11, <2>2 DEF Subdirs
  <2>5. Subdirs(k) \subseteq Inode /\ Subdirs(k)' \subseteq Inode
    BY DEF Subdirs
  <2> QED
    BY <1>3, <2>3, <2>4, <2>5
<1>19. LinkInv'
  <2>1. ASSUME NEW k \in Inode PROVE Relinks(p, u, k)
    <3>1. /\ Names(k) \in Nat /\ Names(k)' \in Nat /\ lost[k] \in Nat /\ lost'[k] \in Nat
          /\ Names(k)' + lost'[k] = Names(k) + lost[k]
      BY <1>13
    <3>2. Parents(k)' = Parents(k) /\ Parents(k) \in Nat
      BY <1>18, LinkSum DEF Parents
    <3>3. dinode'[k].nlink = dinode[k].nlink /\ dinode[k].nlink \in Nat
      BY <1>10, <1>12, Before DEF Disk
    <3>4. Owing(th[p], k) = Owing(u, k) /\ Owing(u, k) \in Nat
      BY <1>7 DEF Owing, One
    <3>5. /\ Names(k)' \in Nat /\ Parents(k)' \in Nat /\ lost'[k] \in Nat
          /\ dinode'[k].nlink + Names(k) + Parents(k) + lost[k] + Owing(th[p], k)
               = dinode[k].nlink + Names(k)' + Parents(k)' + lost'[k] + Owing(u, k)
      BY <3>1, <3>2, <3>3, <3>4
    <3> QED
      BY <3>5 DEF Relinks
  <2> QED
    BY <1>6, <1>10, <2>1, LinkStep
<1>20. \A x, y \in Inode, m \in Name : dir'[x][m] = y /\ dinode'[y].type = "dir" =>
         dir[x][m] = y /\ dinode[y].type = "dir" /\ x # i /\ y # i
  BY <1>10, <1>11, RootIs DEF Entry
<1>21. TreeInv'
  <2>1. \A k \in Inode : dinode'[k].type # "dir" => dir'[k] = NoEntries
    BY <1>10, <1>11 DEF FsInv, TreeInv
  <2>2. \A x, y \in Inode, m \in Name : dir'[x][m] = y /\ dinode'[y].type = "dir" =>
          /\ dir'[y][".."] = x /\ y # ROOTINO
          /\ \A m2 \in Name : dir'[x][m2] = y => m2 = m
    BY <1>11, <1>20 DEF FsInv, TreeInv
  <2> QED
    BY <2>1, <2>2 DEF TreeInv
<1>22. RankInv'
  BY <1>20 DEF FsInv, RankInv, Below
<1>23. FoundInv'
  <2>1. ASSUME NEW q \in Proc PROVE FoundAt(th[q])'
    <3>1. FoundAt(th[q]) /\ SafeAt(th[q], cwd[q]) /\ th[q] \in Thread /\ Shape(th[q], cwd[q])
      BY StillSafe, Here
    <3>2. /\ Stage(th'[q]) = Stage(th[q]) /\ th'[q].at = th[q].at /\ th'[q].ip = th[q].ip
          /\ th'[q].req = th[q].req /\ th'[q].path = th[q].path
          /\ th'[q].pc \in {"create", "unlink"} => th'[q].pc = th[q].pc
      BY <1>4, <1>5, <1>8
    <3>3. Stage(th[q]) \in {"parent", "create", "unlink", "dropdp"} => th[q].at \in Inode \ {i}
      BY <1>12, <3>1 DEF Thread, Shape, HasAt, SafeAt
    <3>4. th[q].pc \in {"create", "unlink"} => Stage(th[q]) = th[q].pc
      BY DEF Stage, Putting
    <3>5. th[q].ip # 0 => th[q].ip \in Inode
      BY <3>1 DEF Thread
    <3> QED
      BY <1>10, <1>11, <3>1, <3>2, <3>3, <3>4, <3>5 DEF FoundAt
  <2> QED
    BY <2>1 DEF FoundInv, FoundAt, name
<1> QED
  BY <1>15, <1>16, <1>17, <1>19, <1>21, <1>22, <1>23 DEF FsInv

-----------------------------------------------------------------------------
(* create() takes an inode that is free on disk.                           *)

LEMMA NatWellFounded == IsWellFoundedOn({x \in Nat \X Nat : x[1] < x[2]}, Nat)
BY NatLessThanWellFounded, Zenon DEF OpToRel

LEMMA Least ==
  ASSUME NEW S, S \subseteq Nat, S # {}
  PROVE  \E x \in S : \A y \in S : x <= y
<1> DEFINE R == {x \in Nat \X Nat : x[1] < x[2]}
<1>1. \E x \in S : \A y \in S : ~ (<<y, x>> \in R)
  <2> HIDE DEF R
  <2>1. IsWellFoundedOn(R, Nat)
    BY NatWellFounded DEF R
  <2> QED
    BY <2>1, WFMin
<1>2. PICK x \in S : \A y \in S : <<y, x>> \notin R
  BY <1>1
<1>3. \A y \in S : ~ (y < x)
  BY <1>2
<1> QED
  BY <1>3

\* Nobody has a pointer to a free inode but iput(), which is about to let it go.
LEMMA IallocIs ==
  ASSUME FsInv, FreeInodes # {}, NEW a, a = ialloc
  PROVE  /\ a \in Inode /\ dinode[a].type = "none" /\ dinode[a].nlink = 0 /\ dir[a] = NoEntries
         /\ \A k : Safe(k) => k # a
         /\ \A q \in Proc : /\ th[q].pc = "create" => th[q].ip # a
                            /\ th[q].pc = "trunc" => th[q].drop # a
                            /\ th[q].ip # a
<1>1. FreeInodes \subseteq Nat
  BY DEF FreeInodes, Inode
<1>2. \E x \in FreeInodes : \A y \in FreeInodes : x <= y
  BY <1>1, Least
<1>3. a \in FreeInodes
  BY <1>2 DEF ialloc
<1>4. a \in Inode /\ dinode[a].type = "none"
  BY <1>3 DEF FreeInodes
<1>5. dinode[a].nlink = 0 /\ dir[a] = NoEntries
  BY <1>4 DEF FsInv, AllocInv, TreeInv
<1>6. \A k : Safe(k) => k # a
  BY <1>4 DEF Safe
<1>7. \A q \in Proc : th[q].ip # a
  BY <1>4, InUse
<1>8. \A q \in Proc : th[q].pc = "trunc" => th[q].drop # a
  BY <1>4 DEF FsInv, AllocInv
<1> QED
  BY <1>4, <1>5, <1>6, <1>7, <1>8

LEMMA CreateInv ==
  ASSUME FsInv, NEW p \in Proc, Create(p)
  PROVE  FsInv'
<1> SUFFICES ASSUME dir[th[p].at][name(p)] = 0, FreeInodes # {} PROVE FsInv'
  BY CreateNoneInv DEF Create
<1> DEFINE i == th[p].at
           c == cwd[p]
           a == ialloc
           tab == [itable EXCEPT ![i] = [ilock(i) EXCEPT !.lock = p]]
           u == [th[p] EXCEPT !.pc = "create", !.ip = a]
<1>1. /\ th[p].pc = "parent" /\ Creates(p) /\ Unlocked(i)
      /\ dinode' = [dinode EXCEPT ![a] = Dinode(NewType(p), 0)]
      /\ itable' = iget(tab, a) /\ th' = [th EXCEPT ![p] = u]
      /\ UNCHANGED <<dir, file, ofile, cwd, lost>>
  BY Before DEF Create
<1>2. /\ th[p] \in Thread /\ Shape(th[p], c) /\ cwd = [cwd EXCEPT ![p] = c] /\ c \in Inode \cup {0}
      /\ \A k \in Inode : itable[k].lock = p <=> k \in Locks(th[p])
  BY Here
<1>3. th[p].req.call \in {"creat", "mkdir", "mknod"}
  BY <1>1 DEF Creates, ParentCall
<1>4. /\ i \in Inode /\ Stage(th[p]) = "parent" /\ th[p].drop = 0 /\ c # 0 /\ Locks(th[p]) = {}
      /\ th[p].ip = 0 /\ i # 0
  BY <1>1, <1>3, FailedIs, RootIs
<1>5. /\ a \in Inode /\ dinode[a].type = "none" /\ dinode[a].nlink = 0 /\ dir[a] = NoEntries
      /\ \A k : Safe(k) => k # a
      /\ \A q \in Proc : /\ th[q].pc = "create" => th[q].ip # a
                         /\ th[q].pc = "trunc" => th[q].drop # a
                         /\ th[q].ip # a
  BY IallocIs
<1> HIDE DEF a
<1>6. /\ u \in Thread /\ u.pc = "create" /\ u.drop = 0 /\ u.at = i /\ u.ip = a
      /\ u.req = th[p].req /\ u.path = th[p].path
  <2>1. "create" \in Pc
    BY DEF Pc
  <2> QED
    BY <1>2, <1>4, <1>5, <2>1 DEF Thread
<1> HIDE DEF u
<1>7. Stage(u) = "create" /\ a # 0
  BY <1>5, <1>6, RootIs DEF Stage, Putting
<1>8. Moves(p, u, c)
  <2>1. th[p].path # <<>>
    BY <1>2, <1>4 DEF Shape
  <2>2. Shape(u, c)
    BY <1>3, <1>4, <1>6, <1>7, <2>1 DEF Shape, Putting, HasAt, HasIp, ParentCall
  <2> QED
    BY <1>1, <1>2, <1>6, <2>2 DEF Moves
<1>9. Locks(u) = {i} /\ Owes(u) = Owes(th[p])
  BY <1>3, <1>4, <1>6, <1>7 DEF Locks, Owes
<1>10. th'[p] = u /\ cwd' = cwd /\ file' = file /\ ofile' = ofile /\ dir' = dir /\ lost' = lost
       /\ \A q \in Proc \ {p} : th'[q] = th[q]
  BY <1>1, <1>8, MovesTo
<1>11. TableIs(i, p, a, 0)
  <2>1. itable[i].ref >= 1
    BY <1>4, RefHeld
  <2> QED
    BY <1>1, <1>4, <1>5, <2>1, TableLock
<1> HIDE DEF tab
<1>12. /\ dinode' \in Disk /\ dinode'[a] = Dinode(NewType(p), 0)
       /\ \A k \in Inode \ {a} : dinode'[k] = dinode[k]
  <2>1. NewType(p) \in Type
    BY DEF NewType, Type
  <2>2. Dinode(NewType(p), 0) \in [type : Type, nlink : Nat]
    BY <2>1 DEF Dinode
  <2> QED
    BY <1>1, <1>5, <2>2, Before DEF Disk
<1>13. dinode'[a].type = NewType(p) /\ dinode'[a].nlink = 0 /\ NewType(p) # "none"
  <2>1. NewType(p) # "none"
    BY DEF NewType
  <2> QED
    BY <1>12, <2>1 DEF Dinode
<1>14. CallInv' /\ RefCounts'
  <2>1. Keeps(p, u, c, i, p, a, 0)
    <3>1. \A k \in Inode : One(k = a) + Mine(th[p], c, k) = One(k = 0) + Mine(u, c, k)
      BY <1>4, <1>6, RootIs DEF Mine, One
    <3> QED
      BY <1>1, <1>4, <1>9, <3>1 DEF Keeps, Unlocked
  <2>2. Relocks(p, u) /\ itable' \in Table /\ Recounts(p, u, c)
    BY <1>11, <2>1, KeepsCore
  <2>3. dir' \in Entries /\ lost' \in [Inode -> Nat]
    BY <1>10, Before
  <2> HIDE DEF c
  <2> QED
    BY <1>4, <1>8, <1>10, <1>12, <2>2, <2>3, CoreInv
<1>15. AllocInv'
  <2>1. \A k \in Inode : Safe(k) => Safe(k)'
    <3> SUFFICES ASSUME NEW k \in Inode, Safe(k) PROVE Safe(k)'
      OBVIOUS
    <3>1. k # a /\ dinode'[k] = dinode[k]
      BY <1>5, <1>12
    <3> QED
      BY <1>6, <1>10, <3>1 DEF Safe
  <2>2. ASSUME NEW q \in Proc
        PROVE  /\ (cwd[q] # 0 => Safe(cwd[q]))'
               /\ (th[q].at # 0 => Safe(th[q].at))'
               /\ (th[q].ip # 0 /\ th[q].pc # "create" => Safe(th[q].ip))'
               /\ (th[q].pc = "put" => Safe(th[q].drop))'
    <3>1. SafeAt(th[q], cwd[q]) /\ th[q] \in Thread /\ Shape(th[q], cwd[q]) /\ cwd[q] \in Inode \cup {0}
      BY StillSafe, Here
    <3>2. /\ cwd[q] # 0 => Safe(cwd[q]) /\ cwd[q] \in Inode
          /\ th[q].at # 0 => Safe(th[q].at) /\ th[q].at \in Inode
          /\ th[q].ip # 0 /\ th[q].pc # "create" => Safe(th[q].ip) /\ th[q].ip \in Inode
          /\ th[q].pc = "put" => Safe(th[q].drop) /\ th[q].drop \in Inode
      BY <3>1 DEF SafeAt, Thread, Shape, Putting
    <3>3. /\ cwd'[q] # 0 => Safe(cwd'[q]) /\ cwd'[q] \in Inode
          /\ th'[q].at # 0 => Safe(th'[q].at) /\ th'[q].at \in Inode
          /\ th'[q].ip # 0 /\ th'[q].pc # "create" => Safe(th'[q].ip) /\ th'[q].ip \in Inode
          /\ th'[q].pc = "put" => Safe(th'[q].drop) /\ th'[q].drop \in Inode
      BY <1>6, <1>10, <3>2
    <3> QED
      BY <2>1, <3>3
  <2>3. \A f \in File : (file[f].ip # 0 => Safe(file[f].ip))'
    <3>1. \A f \in File : file'[f].ip # 0 => Safe(file'[f].ip) /\ file'[f].ip \in Inode
      BY <1>10, StillSafe, Before
    <3> QED
      BY <2>1, <3>1
  <2>4. ASSUME NEW q \in Proc, th'[q].pc = "trunc"
        PROVE  /\ dinode'[th'[q].drop].type # "none" /\ dinode'[th'[q].drop].nlink = 0
               /\ \A r \in Proc : th'[r].pc = "create" => th'[r].ip # th'[q].drop
    <3>1. q # p /\ th'[q] = th[q]
      BY <1>6, <1>10, <2>4
    <3>2. /\ dinode[th[q].drop].type # "none" /\ dinode[th[q].drop].nlink = 0
          /\ \A r \in Proc : th[r].pc = "create" => th[r].ip # th[q].drop
      BY <2>4, <3>1 DEF FsInv, AllocInv
    <3>3. th[q].drop \in Inode \ {a}
      <4>1. th[q] \in Thread /\ Shape(th[q], cwd[q])
        BY Here
      <4> QED
        BY <1>5, <2>4, <3>1, <4>1 DEF Thread, Shape, Putting
    <3> QED
      BY <1>6, <1>10, <1>12, <3>1, <3>2, <3>3
  <2>5. ASSUME NEW q \in Proc, th'[q].pc = "create"
        PROVE  /\ dinode'[th'[q].ip] = Dinode(NewType(q)', 0) /\ dir'[th'[q].ip] = NoEntries
               /\ \A r \in Proc \ {q} : th'[r].pc = "create" => th'[r].ip # th'[q].ip
    <3>1. NewType(q)' = NewType(q)
      <4>1. th'[q].req = th[q].req
        BY <1>6, <1>10
      <4> QED
        BY <4>1 DEF NewType
    <3>2. CASE q = p
      BY <1>5, <1>6, <1>10, <1>12, <3>1, <3>2
    <3>3. CASE q # p
      <4>1. th'[q] = th[q]
        BY <1>10, <3>3
      <4>2. /\ dinode[th[q].ip] = Dinode(NewType(q), 0) /\ dir[th[q].ip] = NoEntries
            /\ \A r \in Proc \ {q} : th[r].pc = "create" => th[r].ip # th[q].ip
        BY <2>5, <4>1 DEF FsInv, AllocInv
      <4>3. th[q].ip \in Inode \ {a}
        BY <1>5, <2>5, <4>1, AtChild
      <4>4. dinode'[th[q].ip] = dinode[th[q].ip]
        BY <1>12, <4>3
      <4> QED
        BY <1>6, <1>10, <3>1, <4>1, <4>2, <4>3, <4>4
    <3> QED
      BY <3>2, <3>3
  <2>6. \A k \in Inode : dinode'[k].type = "none" => dinode'[k].nlink = 0
    BY <1>12, <1>13 DEF FsInv, AllocInv
  <2> QED
    BY <2>2, <2>3, <2>4, <2>5, <2>6 DEF AllocInv
<1>16. CacheInv'
  <2> SUFFICES ASSUME NEW k \in Inode, itable'[k].valid, \A q \in Proc : th'[q].pc = "freed" => th'[q].drop # k
               PROVE  /\ Dinode(itable'[k].type, itable'[k].nlink) = dinode'[k]
                      /\ itable'[k].ref > 0 => dinode'[k].type # "none"
    BY DEF CacheInv
  <2>1. \A q \in Proc : th[q].pc = "freed" => th[q].drop # k
    BY <1>1, <1>10
  <2>2. itable[k].valid => /\ Dinode(itable[k].type, itable[k].nlink) = dinode[k]
                           /\ itable[k].ref > 0 => dinode[k].type # "none"
    BY <2>1 DEF FsInv, CacheInv
  <2>3. \/ /\ Dinode(itable'[k].type, itable'[k].nlink) = dinode[k]
           /\ dinode[k].type # "none"
        \/ /\ itable[k].valid /\ itable'[k].type = itable[k].type
           /\ itable'[k].nlink = itable[k].nlink
           /\ itable'[k].ref > 0 => itable[k].ref > 0
    BY <1>11 DEF TableIs
  <2>4. k # a
    <3>1. ASSUME k = a PROVE itable'[k].ref > 0
      <4>1. itable'[k].ref + One(k = 0) = itable[k].ref + One(k = a) /\ itable' \in Table
        BY <1>11 DEF TableIs
      <4>2. itable'[k].ref \in Nat /\ itable[k].ref \in Nat
        BY <4>1, Before DEF Table
      <4> QED
        BY <3>1, <4>1, <4>2, RootIs DEF One
    <3> QED
      BY <1>5, <2>2, <2>3, <3>1
  <2> QED
    BY <1>12, <2>2, <2>3, <2>4
<1>17. LinkInv'
  <2>1. ASSUME NEW k \in Inode PROVE Relinks(p, u, k)
    <3>1. /\ Names(k) \in Nat /\ Parents(k) \in Nat /\ lost[k] \in Nat
          /\ Names(k)' = Names(k) /\ Parents(k)' = Parents(k) /\ lost'[k] = lost[k]
      BY <1>10, LinkSum, DirSame
    <3>2. dinode'[k].nlink = dinode[k].nlink /\ dinode[k].nlink \in Nat
      BY <1>5, <1>12, <1>13, Before DEF Disk
    <3>3. Owing(th[p], k) = Owing(u, k) /\ Owing(u, k) \in Nat
      BY <1>9 DEF Owing, One
    <3> QED
      BY <3>1, <3>2, <3>3 DEF Relinks
  <2> QED
    BY <1>8, <1>12, <2>1, LinkStep
<1>18. \A x, y \in Inode, m \in Name : dir[x][m] = y => y # a /\ dinode'[y] = dinode[y]
  BY <1>5, <1>12, NamedSafe, RootIs
<1>19. TreeInv'
  <2>1. \A k \in Inode : dinode'[k].type # "dir" => dir'[k] = NoEntries
    BY <1>5, <1>10, <1>12 DEF FsInv, TreeInv
  <2>2. \A x, y \in Inode, m \in Name : dir'[x][m] = y /\ dinode'[y].type = "dir" =>
          /\ dir'[y][".."] = x /\ y # ROOTINO
          /\ \A m2 \in Name : dir'[x][m2] = y => m2 = m
    BY <1>10, <1>18 DEF FsInv, TreeInv
  <2> QED
    BY <2>1, <2>2 DEF TreeInv
<1>20. RankInv'
  BY <1>10, <1>18 DEF FsInv, RankInv, Below
<1>21. FoundInv'
  <2>1. ASSUME NEW q \in Proc PROVE FoundAt(th[q])'
    <3>1. CASE q = p
      <4>1. dinode[i].type = "dir" /\ i # a
        BY <1>1, <1>5, AtParent
      <4>2. dinode'[i].type = "dir" /\ dir'[i][Head(u.path)] = 0
        BY <1>4, <1>6, <1>10, <1>12, <4>1 DEF name
      <4> QED
        BY <1>3, <1>6, <1>10, <3>1, <4>2 DEF FoundAt
    <3>2. CASE q # p
      <4>1. FoundAt(th[q]) /\ SafeAt(th[q], cwd[q]) /\ th[q] \in Thread /\ Shape(th[q], cwd[q])
        BY StillSafe, Here
      <4>2. th'[q] = th[q]
        BY <1>10, <3>2
      <4>3. Stage(th[q]) \in {"parent", "create", "unlink", "dropdp"} => th[q].at \in Inode \ {a}
        BY <1>5, <4>1 DEF Thread, Shape, HasAt, SafeAt
      <4>4. th[q].ip # 0 => th[q].ip \in Inode \ {a}
        BY <1>5, <4>1 DEF Thread
      <4> QED
        BY <1>10, <1>12, <4>1, <4>2, <4>3, <4>4 DEF FoundAt
    <3> QED
      BY <3>1, <3>2
  <2> QED
    BY <2>1 DEF FoundInv, FoundAt, name
<1> QED
  BY <1>14, <1>15, <1>16, <1>17, <1>19, <1>20, <1>21 DEF FsInv

-----------------------------------------------------------------------------
(* Open files.                                                             *)

Fds(f) == Cardinality({x \in Proc \X Fd : ofile[x[1]][x[2]] = f})
FilesCounted == \A f \in File : file[f].ref = Fds(f)

\* The references of open files and of the call change together; j has one more.
Refiles(p, t, c, j, k) ==
  One(k = j) + Mine(th[p], cwd[p], k) + FilesWith(k) = Mine(t, c, k) + FilesWith(k)'

Files == [File -> [ref : Nat, ip : Inode \cup {0}]]
Opens == [Proc -> [Fd -> File \cup {0}]]

LEMMA FileCounts ==
  ASSUME FsInv, NEW p \in Proc, NEW t, NEW c, Moves(p, t, c), NEW i, NEW j, TableIs(i, NoProc, j, 0),
         FilesCounted', \A k \in Inode : Refiles(p, t, c, j, k)
  PROVE  RefCounts'
<1>1. th'[p] = t /\ cwd'[p] = c /\ \A q \in Proc \ {p} : th'[q] = th[q] /\ cwd'[q] = cwd[q]
  BY MovesTo
<1>2. ASSUME NEW k \in Inode
      PROVE  itable'[k].ref + Mine(th[p], cwd[p], k) + FilesWith(k)
               = itable[k].ref + Mine(t, c, k) + FilesWith(k)'
  <2>1. FilesWith(k) \in Nat /\ FilesWith(k)' \in Nat
    BY <1>1, PointersMove
  <2>2. Mine(t, c, k) \in Nat /\ Mine(th[p], cwd[p], k) \in Nat /\ One(k = j) \in Nat
    BY DEF Mine, One
  <2>3. itable'[k].ref \in Nat /\ itable[k].ref \in Nat /\ itable'[k].ref = itable[k].ref + One(k = j)
    <3>1. itable'[k].ref + One(k = 0) = itable[k].ref + One(k = j) /\ itable'[k].ref \in Nat
      BY DEF TableIs, Table
    <3> QED
      BY <2>2, <3>1, Before, RootIs DEF One, Table
  <2>4. One(k = j) + Mine(th[p], cwd[p], k) + FilesWith(k) = Mine(t, c, k) + FilesWith(k)'
    BY DEF Refiles
  <2> QED
    BY <2>1, <2>2, <2>3, <2>4
<1>3. \A f \in File : file'[f].ref = Cardinality({x \in Proc \X Fd : ofile'[x[1]][x[2]] = f})
  BY DEF FilesCounted, Fds
<1>4. itable' \in Table
  BY DEF TableIs
<1> QED
  BY <1>1, <1>2, <1>3, <1>4, RefStep, SMTT(20)

\* A call that has no locks any more.
LEMMA FileInv ==
  ASSUME FsInv, NEW p \in Proc, NEW t, NEW c, Moves(p, t, c), NEW i, NEW j, TableIs(i, NoProc, j, 0),
         Locks(t) = {}, Locks(th[p]) \subseteq {i}, i # 0 => itable[i].lock \in {p, NoProc},
         UNCHANGED <<dinode, dir, lost>>, file' \in Files, ofile' \in Opens,
         \A f \in File : file'[f].ref = 0 <=> file'[f].ip = 0,
         \A q \in Proc : cwd'[q] = 0 => \A d \in Fd : ofile'[q][d] = 0,
         FilesCounted', \A k \in Inode : Refiles(p, t, c, j, k),
         t.pc \notin {"trunc", "create", "freed"}, th[p].pc \notin {"trunc", "freed"},
         SafeAt(t, c), FoundAt(t), Owes(t) = Owes(th[p]),
         \A f \in File : file'[f].ip # 0 => Safe(file'[f].ip)
  PROVE  FsInv'
<1>1. Relocks(p, t)
  <2>1. \A k \in Inode : itable[k].lock = p <=> k \in Locks(th[p])
    BY Here
  <2> SUFFICES ASSUME NEW k \in Inode
               PROVE  /\ itable'[k].lock = IF itable[k].lock = p THEN NoProc ELSE itable[k].lock
                      /\ itable[k].lock \notin {p, NoProc} => itable'[k].valid
    BY DEF Relocks
  <2>2. /\ itable'[k].lock = IF k = i THEN NoProc ELSE itable[k].lock
        /\ itable'[k].lock # NoProc => itable'[k].valid
    BY DEF TableIs
  <2>3. CASE k = i
    BY <2>2, <2>3, RootIs
  <2>4. CASE k # i
    BY <2>1, <2>2, <2>4
  <2> QED
    BY <2>3, <2>4
<1>2. itable' \in Table /\ dinode' \in Disk /\ dir' \in Entries /\ lost' \in [Inode -> Nat]
  BY Before DEF TableIs
<1>3. CallInv'
  BY <1>1, <1>2, CallStep DEF Files, Opens
<1>4. RefCounts'
  BY FileCounts
<1>5. \A k \in Inode : CurrentAt(p, k)
  BY DEF TableIs, CurrentAt
<1> QED
  BY <1>3, <1>4, <1>5, QuietStep DEF FsInv

DescriptorIs(p, d, g) == ofile' = [ofile EXCEPT ![p][d] = g]
FileIs(f, r) == file' = [file EXCEPT ![f] = r]

\* One descriptor changes.
LEMMA FdMove ==
  ASSUME FsInv, NEW p \in Proc, NEW d \in Fd, NEW g, NEW f, DescriptorIs(p, d, g)
  PROVE  /\ Fds(f) \in Nat /\ Fds(f)' \in Nat
         /\ Fds(f)' + One(ofile[p][d] = f) = Fds(f) + One(g = f)
<1> DEFINE S == Proc \X Fd
           A == {z \in S : ofile[z[1]][z[2]] = f}
           B == {z \in S : ofile'[z[1]][z[2]] = f}
           z0 == <<p, d>>
<1>1. IsFiniteSet(S)
  BY FiniteTables, FS_Product
<1>2. z0 \in S /\ z0[1] = p /\ z0[2] = d
  OBVIOUS
<1>3. ofile'[p][d] = g /\ \A q \in Proc, e \in Fd : <<q, e>> # z0 => ofile'[q][e] = ofile[q][e]
  BY Before DEF DescriptorIs
<1>4. \A z \in S \ {z0} : z \in A <=> z \in B
  <2> SUFFICES ASSUME NEW z \in S, z # z0 PROVE ofile'[z[1]][z[2]] = ofile[z[1]][z[2]]
    OBVIOUS
  <2>1. PICK q \in Proc, e \in Fd : z = <<q, e>>
    OBVIOUS
  <2> HIDE DEF z0
  <2> QED
    BY <1>3, <2>1
<1>5. A \in SUBSET S /\ B \in SUBSET S /\ (z0 \in A <=> ofile[p][d] = f) /\ (z0 \in B <=> g = f)
  BY <1>2, <1>3
<1>6. Fds(f) = Cardinality(A) /\ Fds(f)' = Cardinality(B)
  BY DEF Fds
<1> HIDE DEF A, B, S, z0
<1>7. /\ Cardinality(A) \in Nat /\ Cardinality(B) \in Nat
      /\ Cardinality(B) + (IF z0 \in A THEN 1 ELSE 0) = Cardinality(A) + (IF z0 \in B THEN 1 ELSE 0)
  BY <1>1, <1>2, <1>4, <1>5, CountMove
<1> QED
  BY <1>5, <1>6, <1>7 DEF One

\* One file changes.
LEMMA FileMove ==
  ASSUME FsInv, NEW f \in File, NEW k \in Inode, NEW r, FileIs(f, r)
  PROVE  /\ FilesWith(k) \in Nat /\ FilesWith(k)' \in Nat
         /\ FilesWith(k)' + One(file[f].ip = k) = FilesWith(k) + One(r.ip = k)
<1> DEFINE A == {g \in File : file[g].ip = k}
           B == {g \in File : file'[g].ip = k}
<1>1. file'[f] = r /\ \A g \in File \ {f} : file'[g] = file[g]
  BY Before DEF FileIs
<1>2. /\ A \in SUBSET File /\ B \in SUBSET File /\ \A g \in File \ {f} : g \in A <=> g \in B
      /\ (f \in A <=> file[f].ip = k) /\ (f \in B <=> r.ip = k)
  BY <1>1
<1>3. FilesWith(k) = Cardinality(A) /\ FilesWith(k)' = Cardinality(B)
  BY DEF FilesWith
<1> HIDE DEF A, B
<1>4. /\ Cardinality(A) \in Nat /\ Cardinality(B) \in Nat
      /\ Cardinality(B) + (IF f \in A THEN 1 ELSE 0) = Cardinality(A) + (IF f \in B THEN 1 ELSE 0)
  BY <1>2, FiniteTables, CountMove
<1> QED
  BY <1>2, <1>3, <1>4 DEF One

LEMMA DescriptorCounts ==
  ASSUME FsInv, NEW p \in Proc, NEW d \in Fd, NEW f \in File, NEW g \in {0, f}, ofile[p][d] \in {0, f},
         DescriptorIs(p, d, g),
         NEW r \in [ref : Nat, ip : Inode \cup {0}], FileIs(f, r),
         r.ref + One(ofile[p][d] = f) = file[f].ref + One(g = f)
  PROVE  FilesCounted'
<1> SUFFICES ASSUME NEW h \in File PROVE file'[h].ref = Fds(h)'
  BY DEF FilesCounted
<1>1. /\ Fds(h) \in Nat /\ Fds(h)' \in Nat
      /\ Fds(h)' + One(ofile[p][d] = h) = Fds(h) + One(g = h)
  BY FdMove
<1>2. file[h].ref = Fds(h)
  BY DEF FsInv, RefCounts, Fds
<1>3. file[h].ref \in Nat /\ r.ref \in Nat
  BY Before
<1>6. 0 \notin File
  BY DEF File
<1>7. file'[f] = r /\ \A k \in File \ {f} : file'[k] = file[k]
  BY Before DEF FileIs
<1>4. CASE h = f
  BY <1>7, <1>1, <1>2, <1>3, <1>4 DEF One
<1>5. CASE h # f
  BY <1>6, <1>7, <1>1, <1>2, <1>5 DEF One
<1> QED
  BY <1>4, <1>5

LEMMA DescriptorRefs ==
  ASSUME FsInv, NEW p \in Proc, NEW t, NEW f \in File, NEW r, FileIs(f, r),
         NEW k \in Inode,
         Mine(th[p], cwd[p], k) + One(file[f].ip = k) = Mine(t, cwd[p], k) + One(r.ip = k)
  PROVE  Refiles(p, t, cwd[p], 0, k)
<1>1. /\ FilesWith(k) \in Nat /\ FilesWith(k)' \in Nat
      /\ FilesWith(k)' + One(file[f].ip = k) = FilesWith(k) + One(r.ip = k)
  BY FileMove
<1>2. /\ Mine(t, cwd[p], k) \in Nat /\ Mine(th[p], cwd[p], k) \in Nat
      /\ One(k = 0) = 0 /\ One(file[f].ip = k) \in Nat /\ One(r.ip = k) \in Nat
  BY RootIs DEF Mine, One
<1>3. Mine(th[p], cwd[p], k) + One(file[f].ip = k) = Mine(t, cwd[p], k) + One(r.ip = k)
  OBVIOUS
<1>4. One(k = 0) + Mine(th[p], cwd[p], k) + FilesWith(k) = Mine(t, cwd[p], k) + FilesWith(k)'
  BY <1>1, <1>2, <1>3
<1> QED
  BY <1>4 DEF Refiles

\* A descriptor comes to refer to a file or ceases to, and the file changes.
LEMMA DescriptorInv ==
  ASSUME FsInv, NEW p \in Proc, NEW d \in Fd, NEW f \in File, NEW g \in {0, f}, ofile[p][d] \in {0, f},
         DescriptorIs(p, d, g),
         NEW r \in [ref : Nat, ip : Inode \cup {0}], FileIs(f, r),
         r.ref + One(ofile[p][d] = f) = file[f].ref + One(g = f), r.ref = 0 <=> r.ip = 0,
         r.ip \in {0, file[f].ip} \/ Safe(r.ip),
         NEW t, Moves(p, t, cwd[p]), cwd[p] # 0, NEW i, TableIs(i, NoProc, 0, 0),
         Locks(t) = {}, Locks(th[p]) \subseteq {i}, i # 0 => itable[i].lock \in {p, NoProc},
         UNCHANGED <<dinode, dir, lost>>,
         \A k \in Inode : Mine(th[p], cwd[p], k) + One(file[f].ip = k)
                            = Mine(t, cwd[p], k) + One(r.ip = k),
         t.pc \notin {"trunc", "create", "freed"}, th[p].pc \notin {"trunc", "freed"},
         SafeAt(t, cwd[p]), FoundAt(t), Owes(t) = Owes(th[p])
  PROVE  FsInv'
<1>1. 0 \notin File /\ 0 \notin Inode
  BY DEF File, Inode
<1>2. file' \in Files /\ file'[f] = r /\ \A h \in File \ {f} : file'[h] = file[h]
  BY Before DEF Files, FileIs
<1>3. ofile' \in Opens /\ \A q \in Proc \ {p} : ofile'[q] = ofile[q]
  BY Before DEF Opens, DescriptorIs
<1>4. \A h \in File : file'[h].ref = 0 <=> file'[h].ip = 0
  BY <1>2 DEF FsInv, CallInv
<1>5. \A q \in Proc : cwd'[q] = 0 => \A b \in Fd : ofile'[q][b] = 0
  BY <1>3, MovesTo DEF FsInv, CallInv
<1>6. FilesCounted'
  BY DescriptorCounts, SMTT(20)
<1>7. ASSUME NEW k \in Inode PROVE Refiles(p, t, cwd[p], 0, k)
  BY DescriptorRefs
<1>8. \A h \in File : file'[h].ip # 0 => Safe(file'[h].ip)
  BY <1>2, StillSafe
<1> QED
  BY <1>2, <1>3, <1>4, <1>5, <1>6, <1>7, <1>8, FileInv

\* The counts of files that descriptors refer to are positive.
LEMMA FdHeld ==
  ASSUME FsInv, NEW p \in Proc, NEW d \in Fd, ofile[p][d] # 0
  PROVE  /\ ofile[p][d] \in File /\ file[ofile[p][d]].ref \in Nat /\ file[ofile[p][d]].ref >= 1
         /\ file[ofile[p][d]].ip \in Inode /\ Safe(file[ofile[p][d]].ip) /\ cwd[p] # 0
<1> DEFINE f == ofile[p][d]
           A == {x \in Proc \X Fd : ofile[x[1]][x[2]] = f}
<1>1. f \in File /\ file[f].ref \in Nat /\ file[f].ip \in Inode \cup {0}
  BY Before
<1>2. file[f].ref = Cardinality(A)
  BY <1>1 DEF FsInv, RefCounts
<1>3. IsFiniteSet(Proc \X Fd) /\ A \subseteq Proc \X Fd
  BY FiniteTables, FS_Product
<1>4. <<p, d>> \in A
  OBVIOUS
<1> HIDE DEF A
<1>5. file[f].ref >= 1
  BY <1>2, <1>3, <1>4, FinitePart, CountOne
<1>6. file[f].ip # 0
  BY <1>1, <1>5 DEF FsInv, CallInv
<1> QED
  BY <1>1, <1>5, <1>6, StillSafe, Here

\* filealloc() and fdalloc() find what is free.
LEMMA FileallocIs ==
  ASSUME FsInv, NEW f, f = filealloc, \E h \in File : file[h].ref = 0
  PROVE  f \in File /\ file[f].ref = 0 /\ file[f].ip = 0
<1> DEFINE S == {h \in File : file[h].ref = 0}
<1>1. S \subseteq Nat /\ S # {}
  BY DEF File
<1>2. PICK x \in S : \A y \in S : x <= y
  BY <1>1, Least
<1>3. \A g \in 1 .. x - 1 : file[g].ref > 0
  <2> SUFFICES ASSUME NEW g \in 1 .. x - 1 PROVE file[g].ref > 0
    OBVIOUS
  <2>1. g \in File /\ g < x
    BY <1>2 DEF File
  <2>2. g \notin S
    BY <1>1, <1>2, <2>1
  <2> QED
    BY <2>1, <2>2, Before
<1>4. f \in File /\ file[f].ref = 0
  BY <1>2, <1>3 DEF filealloc
<1> QED
  BY <1>4 DEF FsInv, CallInv

LEMMA FdallocIs ==
  ASSUME FsInv, NEW p \in Proc, NEW d, d = fdalloc(p), \E b \in Fd : ofile[p][b] = 0
  PROVE  d \in Fd /\ ofile[p][d] = 0
<1> DEFINE S == {b \in Fd : ofile[p][b] = 0}
<1>1. S \subseteq Nat /\ S # {}
  BY DEF Fd
<1>2. PICK x \in S : \A y \in S : x <= y
  BY <1>1, Least
<1>3. \A e \in 0 .. x - 1 : ofile[p][e] # 0
  <2> SUFFICES ASSUME NEW e \in 0 .. x - 1 PROVE ofile[p][e] # 0
    OBVIOUS
  <2>1. e \in Fd /\ e < x
    BY <1>2 DEF Fd
  <2> QED
    BY <1>1, <1>2, <2>1
<1> QED
  BY <1>2, <1>3 DEF fdalloc

LEMMA OpenFileInv ==
  ASSUME FsInv, NEW p \in Proc, OpenFile(p)
  PROVE  FsInv'
<1> DEFINE i == th[p].at
           f == filealloc
           d == fdalloc(p)
           r == [ref |-> 1, ip |-> i]
<1>1. th[p].pc = "open" /\ UNCHANGED <<dinode, dir, cwd, lost>>
  BY DEF OpenFile
<1>2. /\ i \in Inode /\ th[p].drop = 0 /\ th[p].ip = 0 /\ cwd[p] # 0 /\ Locks(th[p]) = {i}
      /\ Stage(th[p]) = "open"
  BY <1>1, FailedIs
<1>3. TableIs(i, NoProc, 0, 0)
  BY <1>2, TableUnlock DEF OpenFile
<1>4. CASE ~ ((\E h \in File : file[h].ref = 0) /\ (\E b \in Fd : ofile[p][b] = 0))
  <2>1. /\ th' = [th EXCEPT ![p] = After([th[p] EXCEPT !.at = 0], i, "user")]
        /\ UNCHANGED <<file, ofile>>
    BY <1>4 DEF OpenFile
  <2>2. Failed(p) = "user"
    BY <1>1, <1>2, FailedIs
  <2> QED
    BY <1>1, <1>3, <2>1, <2>2, LetGo
<1>5. CASE (\E h \in File : file[h].ref = 0) /\ (\E b \in Fd : ofile[p][b] = 0)
  <2>1. FileIs(f, r) /\ DescriptorIs(p, d, f) /\ th' = [th EXCEPT ![p] = Idle]
    BY <1>5 DEF OpenFile, FileIs, DescriptorIs
  <2>2. f \in File /\ file[f].ref = 0 /\ file[f].ip = 0
    BY <1>5, FileallocIs
  <2>3. d \in Fd /\ ofile[p][d] = 0
    BY <1>5, FdallocIs
  <2>4. 0 \notin File /\ 0 \notin Inode
    BY DEF File, Inode
  <2>5. r \in [ref : Nat, ip : Inode \cup {0}] /\ r.ref = 1 /\ r.ip = i
    BY <1>2
  <2>6. Safe(i)
    BY <1>2, <2>4, StillSafe DEF SafeAt
  <2>7. Shape(Idle, cwd[p]) /\ Stage(Idle) = "user" /\ Locks(Idle) = {} /\ Owes(Idle) = 0
    BY <1>2, IdleIs DEF Shape, Stage, Locks, Owes, Putting, HasAt, HasIp, NoCall
  <2>8. Moves(p, Idle, cwd[p])
    BY <1>1, <2>1, <2>7, IdleIs, Here DEF Moves
  <2>9. Owes(th[p]) = 0
    BY <1>2 DEF Owes
  <2>10. SafeAt(Idle, cwd[p]) /\ FoundAt(Idle)
    BY <2>7, IdleIs, StillSafe DEF SafeAt, FoundAt
  <2>11. itable[i].lock = p
    BY <1>2, Here
  <2>12. ASSUME NEW k \in Inode
         PROVE  Mine(th[p], cwd[p], k) + One(file[f].ip = k) = Mine(Idle, cwd[p], k) + One(r.ip = k)
    BY <1>2, <2>2, <2>4, <2>5, IdleIs DEF Mine, One
  <2>13. r.ref + One(ofile[p][d] = f) = file[f].ref + One(f = f)
    BY <2>2, <2>3, <2>4, <2>5 DEF One
  <2>14. (r.ref = 0 <=> r.ip = 0) /\ f \in {0, f} /\ ofile[p][d] \in {0, f}
    BY <1>2, <2>3, <2>4, <2>5
  <2>15. Idle.pc \notin {"trunc", "create", "freed"} /\ th[p].pc \notin {"trunc", "freed"}
    BY <1>1, IdleIs
  <2> HIDE DEF i, f, d, r
  <2> QED
    BY <1>1, <1>2, <1>3, <2>1, <2>2, <2>3, <2>5, <2>6, <2>7, <2>8, <2>9, <2>10, <2>11, <2>12, <2>13,
       <2>14, <2>15, DescriptorInv
<1> QED
  BY <1>4, <1>5

LEMMA DupInv ==
  ASSUME FsInv, NEW p \in Proc, NEW b \in Fd, Dup(p, b)
  PROVE  FsInv'
<1> DEFINE f == ofile[p][b]
           d == fdalloc(p)
           r == [file[f] EXCEPT !.ref = @ + 1]
           t == th[p]
<1>1. /\ t.pc = "user" /\ f # 0 /\ \E e \in Fd : ofile[p][e] = 0
      /\ UNCHANGED <<dinode, dir, itable, cwd, th, lost>>
  BY DEF Dup
<1>2. DescriptorIs(p, d, f)
  BY DEF Dup, DescriptorIs
<1>3. /\ f \in File /\ file[f].ref \in Nat /\ file[f].ref >= 1 /\ file[f].ip \in Inode /\ cwd[p] # 0
      /\ file[f] \in [ref : Nat, ip : Inode \cup {0}]
  BY <1>1, FdHeld, Before
<1>4. FileIs(f, r)
  BY <1>3, Before DEF Dup, FileIs
<1>5. d \in Fd /\ ofile[p][d] = 0
  BY <1>1, FdallocIs
<1>6. r \in [ref : Nat, ip : Inode \cup {0}] /\ r.ref = file[f].ref + 1 /\ r.ip = file[f].ip
  BY <1>3
<1>7. Locks(t) = {}
  BY <1>1, AtUser
<1>8. Moves(p, t, cwd[p])
  <2>1. th' = [th EXCEPT ![p] = t]
    BY <1>1, Before
  <2> QED
    BY <1>1, <2>1, Here DEF Moves
<1>9. SafeAt(t, cwd[p]) /\ FoundAt(t)
  BY StillSafe
<1>10. TableIs(0, NoProc, 0, 0)
  BY <1>1, TableSame
<1>11. \A k \in Inode : Mine(th[p], cwd[p], k) + One(file[f].ip = k) = Mine(t, cwd[p], k) + One(r.ip = k)
  BY <1>6
<1>12. r.ref + One(ofile[p][d] = f) = file[f].ref + One(f = f)
  BY <1>1, <1>3, <1>5, <1>6 DEF One
<1>13. (r.ref = 0 <=> r.ip = 0) /\ f \in {0, f} /\ ofile[p][d] \in {0, f} /\ r.ip \in {0, file[f].ip}
  BY <1>3, <1>5, <1>6, RootIs
<1>14. t.pc \notin {"trunc", "create", "freed"} /\ Locks(t) \subseteq {0}
  BY <1>1, <1>7
<1> HIDE DEF f, d, r
<1> QED
  BY <1>1, <1>2, <1>3, <1>4, <1>5, <1>6, <1>7, <1>8, <1>9, <1>10, <1>11, <1>12, <1>13, <1>14,
     DescriptorInv

\* A call that has nothing but the inode i that it puts.
AtRest(t, c, s, i) ==
  /\ t \in Thread /\ Shape(t, c) /\ t.pc = s /\ t.at = 0 /\ t.ip = 0 /\ t.drop = i
  /\ Locks(t) = {} /\ Owes(t) = 0 /\ SafeAt(t, c) /\ FoundAt(t)

\* A process between its calls, or in exit(), goes on at s, where it has nothing
\* either.
LEMMA BetweenCalls ==
  ASSUME FsInv, NEW p \in Proc, th[p].pc \in {"user", "exit"}, NEW s \in {"user", "exit"},
         NEW c \in Inode \cup {0}, s = "exit" => c # 0, c # 0 => Safe(c), NEW t, t = [th[p] EXCEPT !.pc = s]
  PROVE  AtRest(t, c, s, 0)
<1>1. th[p] \in Thread /\ th[p].at = 0 /\ th[p].ip = 0 /\ th[p].drop = 0 /\ s \in Pc
  BY Here, AtUser DEF Pc
<1>2. t \in Thread /\ t.pc = s /\ t.at = 0 /\ t.ip = 0 /\ t.drop = 0 /\ t.req = th[p].req
  BY <1>1 DEF Thread
<1>3. Stage(t) = s
  BY <1>2 DEF Stage, Putting
<1>4. Shape(t, c)
  BY <1>2, <1>3 DEF Shape, Putting, HasAt, HasIp
<1>5. Locks(t) = {} /\ Owes(t) = 0 /\ SafeAt(t, c) /\ FoundAt(t)
  BY <1>2, <1>3 DEF Locks, Owes, SafeAt, FoundAt
<1> QED
  BY <1>2, <1>4, <1>5 DEF AtRest

\* Or it puts i first.
LEMMA PutBetweenCalls ==
  ASSUME FsInv, NEW p \in Proc, th[p].pc \in {"user", "exit"}, NEW s \in {"user", "exit"},
         NEW c \in Inode \cup {0}, s = "exit" => c # 0, c # 0 => Safe(c),
         NEW i \in Inode, Safe(i), NEW t, t = After(th[p], i, s)
  PROVE  AtRest(t, c, "put", i)
<1>1. th[p] \in Thread /\ th[p].at = 0 /\ th[p].ip = 0 /\ th[p].drop = 0 /\ s \in Pc
  BY Here, AtUser DEF Pc
<1>2. /\ t \in Thread /\ t.pc = "put" /\ t.at = 0 /\ t.ip = 0 /\ t.drop = i /\ t.req = th[p].req
      /\ Stage(t) = s
  BY <1>1, AfterIs
<1>3. Shape(t, c)
  BY <1>2, RootIs DEF Shape, Putting, HasAt, HasIp
<1>4. Locks(t) = {} /\ Owes(t) = 0 /\ SafeAt(t, c) /\ FoundAt(t)
  BY <1>2 DEF Locks, Owes, SafeAt, FoundAt
<1> QED
  BY <1>2, <1>3, <1>4 DEF AtRest

LEMMA FilecloseInv ==
  ASSUME FsInv, NEW p \in Proc, NEW d \in Fd, ofile[p][d] # 0, th[p].pc \in {"user", "exit"},
         NEW s \in {"user", "exit"}, fileclose(p, d, s),
         UNCHANGED <<dinode, dir, itable, cwd, lost>>
  PROVE  FsInv'
<1> DEFINE f == ofile[p][d]
<1>1. /\ f \in File /\ file[f].ref \in Nat /\ file[f].ref >= 1 /\ cwd[p] # 0
      /\ file[f].ip \in Inode /\ Safe(file[f].ip) /\ file[f] \in [ref : Nat, ip : Inode \cup {0}]
  BY FdHeld, Before
<1>2. DescriptorIs(p, d, 0)
  BY DEF fileclose, DescriptorIs
<1>3. /\ th[p].at = 0 /\ th[p].ip = 0 /\ th[p].drop = 0 /\ Locks(th[p]) = {} /\ Owes(th[p]) = 0
      /\ th[p] \in Thread /\ cwd[p] \in Inode \cup {0} /\ cwd' = [cwd EXCEPT ![p] = cwd[p]]
      /\ Safe(cwd[p])
  BY <1>1, AtUser, Here, StillSafe DEF SafeAt
<1>4. TableIs(0, NoProc, 0, 0)
  BY TableSame
<1>5. 0 \notin File /\ 0 \notin Inode
  BY DEF File, Inode
<1>6. 0 \in {0, f} /\ ofile[p][d] \in {0, f} /\ Locks(th[p]) \subseteq {0} /\ th[p].pc \notin {"trunc", "freed"}
  BY <1>3
<1>7. CASE file[f].ref > 1
  <2> DEFINE r == [file[f] EXCEPT !.ref = @ - 1]
             t == [th[p] EXCEPT !.pc = s]
  <2>1. FileIs(f, r) /\ th' = [th EXCEPT ![p] = t]
    BY <1>1, <1>3, <1>7, Before DEF fileclose, FileIs, GoesTo
  <2>2. r \in [ref : Nat, ip : Inode \cup {0}] /\ r.ref = file[f].ref - 1 /\ r.ip = file[f].ip
    BY <1>1
  <2>3. /\ t \in Thread /\ Shape(t, cwd[p]) /\ t.pc = s /\ t.at = 0 /\ t.ip = 0 /\ t.drop = 0
        /\ Locks(t) = {} /\ Owes(t) = 0 /\ SafeAt(t, cwd[p]) /\ FoundAt(t)
    BY <1>1, <1>3, BetweenCalls DEF AtRest
  <2> HIDE DEF r, t
  <2>4. Moves(p, t, cwd[p])
    BY <1>3, <2>1, <2>3 DEF Moves
  <2>5. \A k \in Inode : Mine(th[p], cwd[p], k) + One(file[f].ip = k) = Mine(t, cwd[p], k) + One(r.ip = k)
    BY <1>3, <2>2, <2>3 DEF Mine
  <2>6. r.ref + One(ofile[p][d] = f) = file[f].ref + One(0 = f)
    BY <1>1, <1>5, <2>2 DEF One
  <2>7. (r.ref = 0 <=> r.ip = 0) /\ r.ip \in {0, file[f].ip} /\ t.pc \notin {"trunc", "create", "freed"}
    BY <1>1, <1>5, <1>7, <2>2, <2>3
  <2> HIDE DEF f
  <2> QED
    BY <1>1, <1>2, <1>3, <1>4, <1>6, <2>1, <2>2, <2>3, <2>4, <2>5, <2>6, <2>7, DescriptorInv
<1>8. CASE ~ (file[f].ref > 1)
  <2> DEFINE r == [ref |-> 0, ip |-> 0]
             t == After(th[p], file[f].ip, s)
  <2>1. FileIs(f, r) /\ th' = [th EXCEPT ![p] = t]
    BY <1>1, <1>8 DEF fileclose, FileIs
  <2>2. r \in [ref : Nat, ip : Inode \cup {0}] /\ r.ref = 0 /\ r.ip = 0 /\ file[f].ref = 1
    BY <1>1, <1>8
  <2>3. /\ t \in Thread /\ Shape(t, cwd[p]) /\ t.pc = "put" /\ t.at = 0 /\ t.ip = 0 /\ t.drop = file[f].ip
        /\ Locks(t) = {} /\ Owes(t) = 0 /\ SafeAt(t, cwd[p]) /\ FoundAt(t)
    <3>1. AtRest(t, cwd[p], "put", file[f].ip)
      BY <1>1, <1>3, PutBetweenCalls
    <3> QED
      BY <3>1 DEF AtRest
  <2> HIDE DEF r, t
  <2>4. Moves(p, t, cwd[p])
    BY <1>3, <2>1, <2>3 DEF Moves
  <2>5. \A k \in Inode : Mine(th[p], cwd[p], k) + One(file[f].ip = k) = Mine(t, cwd[p], k) + One(r.ip = k)
    BY <1>3, <1>5, <2>2, <2>3 DEF Mine, One
  <2>6. r.ref + One(ofile[p][d] = f) = file[f].ref + One(0 = f)
    BY <1>1, <1>5, <2>2 DEF One
  <2>7. (r.ref = 0 <=> r.ip = 0) /\ r.ip \in {0, file[f].ip} /\ t.pc \notin {"trunc", "create", "freed"}
    BY <1>1, <2>2, <2>3
  <2> HIDE DEF f
  <2> QED
    BY <1>1, <1>2, <1>3, <1>4, <1>6, <2>1, <2>2, <2>3, <2>4, <2>5, <2>6, <2>7, DescriptorInv
<1> QED
  BY <1>7, <1>8

LEMMA CloseInv ==
  ASSUME FsInv, NEW p \in Proc, NEW d \in Fd, Close(p, d)
  PROVE  FsInv'
BY FilecloseInv DEF Close

LEMMA ExitInv ==
  ASSUME FsInv, NEW p \in Proc, Exit(p)
  PROVE  FsInv'
<1>1. /\ th[p].pc \in {"user", "exit"} /\ cwd[p] # 0 /\ UNCHANGED <<dinode, dir, itable, lost>>
  <2>1. /\ (th[p].pc = "user" /\ cwd[p] # 0) \/ th[p].pc = "exit"
        /\ UNCHANGED <<dinode, dir, itable, lost>>
    BY DEF Exit
  <2>2. th[p].pc = "exit" => cwd[p] # 0
    BY Here DEF Shape, Stage, Putting
  <2> QED
    BY <2>1, <2>2
<1>2. CASE \E d \in Fd : ofile[p][d] # 0 /\ fileclose(p, d, "exit") /\ UNCHANGED cwd
  BY <1>1, <1>2, FilecloseInv
<1>3. CASE /\ \A d \in Fd : ofile[p][d] = 0
           /\ th' = [th EXCEPT ![p] = After(@, cwd[p], "user")]
           /\ cwd' = [cwd EXCEPT ![p] = 0]
           /\ UNCHANGED <<file, ofile>>
  <2> DEFINE t == After(th[p], cwd[p], "user")
  <2>1. /\ th[p].at = 0 /\ th[p].ip = 0 /\ th[p].drop = 0 /\ Locks(th[p]) = {} /\ Owes(th[p]) = 0
        /\ cwd[p] \in Inode /\ Safe(cwd[p])
    BY <1>1, AtUser, Here, StillSafe DEF SafeAt
  <2>2. /\ t \in Thread /\ Shape(t, 0) /\ t.pc = "put" /\ t.at = 0 /\ t.ip = 0 /\ t.drop = cwd[p]
        /\ Locks(t) = {} /\ Owes(t) = 0 /\ SafeAt(t, 0) /\ FoundAt(t)
    <3>1. AtRest(t, 0, "put", cwd[p])
      BY <1>1, <2>1, PutBetweenCalls
    <3> QED
      BY <3>1 DEF AtRest
  <2> HIDE DEF t
  <2>3. th' = [th EXCEPT ![p] = t]
    BY <1>3, Before DEF t
  <2>4. Moves(p, t, 0)
    BY <1>3, <2>2, <2>3 DEF Moves
  <2>5. TableIs(0, NoProc, 0, 0)
    BY <1>1, TableSame
  <2>6. Keeps(p, t, 0, 0, NoProc, 0, 0)
    BY <2>1, <2>2, RootIs DEF Keeps, Mine, One
  <2> QED
    BY <1>1, <1>3, <2>1, <2>2, <2>4, <2>5, <2>6, QuietInv
<1> QED
  BY <1>2, <1>3 DEF Exit

\* The descriptors of p that refer to f.
FdsOf(p, f) == Cardinality({d \in Fd : ofile[p][d] = f})

\* fork() gives the child q, which has none, the descriptors of p.
LEMMA FdsForked ==
  ASSUME FsInv, NEW p \in Proc, NEW q \in Proc, \A d \in Fd : ofile[q][d] = 0, NEW f \in File,
         ofile' = [ofile EXCEPT ![q] = ofile[p]]
  PROVE  /\ Fds(f) \in Nat /\ Fds(f)' \in Nat /\ FdsOf(p, f) \in Nat
         /\ Fds(f)' = Fds(f) + FdsOf(p, f)
<1> DEFINE S == Proc \X Fd
           A == {z \in S : ofile'[z[1]][z[2]] = f}
           B == {z \in S : ofile[z[1]][z[2]] = f}
           D == {d \in Fd : ofile[p][d] = f}
           C == {z \in S : z[1] = q /\ ofile[p][z[2]] = f}
           g == [d \in D |-> <<q, d>>]
<1>1. /\ IsFiniteSet(A) /\ Cardinality(A) \in Nat /\ IsFiniteSet(B) /\ Cardinality(B) \in Nat
      /\ IsFiniteSet(C) /\ IsFiniteSet(D) /\ Cardinality(D) \in Nat
  <2>1. IsFiniteSet(S)
    BY FiniteTables, FS_Product
  <2> QED
    BY <2>1, FinitePart, FiniteTables
<1>2. Cardinality(C) = Cardinality(D)
  <2>1. g \in [D -> C]
    OBVIOUS
  <2>2. \A a, b \in D : g[a] = g[b] => a = b
    OBVIOUS
  <2>3. \A z \in C : \E d \in D : g[d] = z
    <3> SUFFICES ASSUME NEW z \in C PROVE \E d \in D : g[d] = z
      OBVIOUS
    <3>1. PICK y \in Proc, d \in Fd : z = <<y, d>>
      OBVIOUS
    <3>2. y = q /\ d \in D
      BY <3>1
    <3> QED
      BY <3>1, <3>2
  <2> HIDE DEF g, C, D
  <2>4. g \in Injection(D, C)
    BY <2>1, <2>2 DEF Injection, IsInjective
  <2>5. g \in Surjection(D, C)
    BY <2>1, <2>3 DEF Surjection
  <2> QED
    BY <1>1, <2>4, <2>5, FS_Injection
<1>3. A = B \cup C /\ B \cap C = {}
  <2>1. ASSUME NEW z \in S PROVE (z \in A <=> z \in B \/ z \in C) /\ ~ (z \in B /\ z \in C)
    <3>1. PICK y \in Proc, d \in Fd : z = <<y, d>>
      OBVIOUS
    <3>2. ofile'[q] = ofile[p] /\ \A x \in Proc \ {q} : ofile'[x] = ofile[x]
      BY Before
    <3>3. CASE y = q
      BY <3>1, <3>2, <3>3 DEF File
    <3>4. CASE y # q
      BY <3>1, <3>2, <3>4
    <3> QED
      BY <3>3, <3>4
  <2>2. A \subseteq S /\ B \subseteq S /\ C \subseteq S
    OBVIOUS
  <2> HIDE DEF A, B, C, S
  <2> QED
    BY <2>1, <2>2
<1>4. Fds(f)' = Cardinality(A) /\ Fds(f) = Cardinality(B) /\ FdsOf(p, f) = Cardinality(D)
  BY DEF Fds, FdsOf
<1> HIDE DEF A, B, C, D, S
<1>5. Cardinality(A) = Cardinality(B) + Cardinality(C) - Cardinality({})
  BY <1>1, <1>3, FS_Union
<1> QED
  BY <1>1, <1>2, <1>4, <1>5, FS_EmptySet

LEMMA ForkInv ==
  ASSUME FsInv, NEW p \in Proc, NEW q \in Proc, Fork(p, q)
  PROVE  FsInv'
<1> DEFINE t == th[q]
           c == cwd[p]
<1>1. /\ t.pc = "user" /\ c # 0 /\ cwd[q] = 0 /\ itable' = iget(itable, c)
      /\ cwd' = [cwd EXCEPT ![q] = c] /\ ofile' = [ofile EXCEPT ![q] = ofile[p]]
      /\ UNCHANGED <<dinode, dir, th, lost>>
  BY DEF Fork
<1>2. \A d \in Fd : ofile[q][d] = 0
  BY <1>1, Here
<1>3. c \in Inode /\ Safe(c)
  BY <1>1, Here, StillSafe DEF SafeAt
<1>4. t \in Thread /\ t.at = 0 /\ t.ip = 0 /\ t.drop = 0 /\ Locks(t) = {} /\ Owes(t) = 0
  BY <1>1, AtUser, Here
<1>5. TableIs(0, NoProc, c, 0)
  BY <1>1, <1>3, TableGet
<1>6. ASSUME NEW f \in File
      PROVE  file'[f].ref = file[f].ref + FdsOf(p, f) /\ file'[f].ip = file[f].ip /\ FdsOf(p, f) \in Nat
  <2>1. FdsOf(p, f) \in Nat
    BY <1>1, <1>2, FdsForked
  <2>2. file'[f] = [file[f] EXCEPT !.ref = @ + FdsOf(p, f)]
    BY DEF Fork, FdsOf
  <2>3. file[f] \in [ref : Nat, ip : Inode \cup {0}]
    BY Before
  <2> QED
    BY <2>1, <2>2, <2>3
<1>7. file' \in Files
  <2>1. file' = [f \in File |-> [file[f] EXCEPT !.ref = @ + FdsOf(p, f)]]
    BY DEF Fork, FdsOf
  <2>2. ASSUME NEW f \in File PROVE [file[f] EXCEPT !.ref = @ + FdsOf(p, f)] \in [ref : Nat, ip : Inode \cup {0}]
    BY <1>6, Before
  <2> QED
    BY <2>1, <2>2 DEF Files
<1>8. ofile' \in Opens /\ ofile'[q] = ofile[p] /\ \A x \in Proc \ {q} : ofile'[x] = ofile[x]
  BY <1>1, Before DEF Opens
<1>9. FilesCounted'
  <2> SUFFICES ASSUME NEW f \in File PROVE file'[f].ref = Fds(f)'
    BY DEF FilesCounted
  <2>1. Fds(f) \in Nat /\ FdsOf(p, f) \in Nat /\ Fds(f)' = Fds(f) + FdsOf(p, f)
    BY <1>1, <1>2, FdsForked
  <2>2. file[f].ref = Fds(f)
    BY DEF FsInv, RefCounts, Fds
  <2> QED
    BY <1>6, <2>1, <2>2
<1>10. \A f \in File : file'[f].ref = 0 <=> file'[f].ip = 0
  <2> SUFFICES ASSUME NEW f \in File PROVE file'[f].ref = 0 <=> file'[f].ip = 0
    OBVIOUS
  <2>1. file[f].ref \in Nat /\ (file[f].ref = 0 <=> file[f].ip = 0)
    BY Before DEF FsInv, CallInv
  <2>2. file[f].ref = 0 => FdsOf(p, f) = 0
    <3> SUFFICES ASSUME file[f].ref = 0 PROVE FdsOf(p, f) = 0
      OBVIOUS
    <3>1. ASSUME NEW d \in Fd, ofile[p][d] = f PROVE FALSE
      BY <3>1, FdHeld DEF File
    <3>2. {d \in Fd : ofile[p][d] = f} = {}
      BY <3>1
    <3> QED
      BY <3>2, FS_EmptySet DEF FdsOf
  <2> QED
    BY <1>6, <2>1, <2>2
<1>11. ASSUME NEW k \in Inode PROVE Refiles(q, t, c, c, k)
  <2>1. {f \in File : file'[f].ip = k} = {f \in File : file[f].ip = k}
    BY <1>6
  <2>2. FilesWith(k)' = FilesWith(k) /\ FilesWith(k) \in Nat
    BY <2>1, PointerTypes DEF FilesWith
  <2>3. One(k = c) + Mine(t, cwd[q], k) = Mine(t, c, k) /\ Mine(t, c, k) \in Nat
    BY <1>1, <1>4, RootIs DEF Mine, One
  <2> QED
    BY <2>2, <2>3 DEF Refiles
<1>12. Shape(t, c) /\ SafeAt(t, c) /\ FoundAt(t)
  <2>1. Shape(t, cwd[q]) /\ SafeAt(t, cwd[q]) /\ FoundAt(t)
    BY Here, StillSafe
  <2>2. Shape(t, c)
    BY <1>1, <2>1 DEF Shape
  <2>3. SafeAt(t, c)
    BY <1>3, <2>1 DEF SafeAt
  <2> QED
    BY <2>1, <2>2, <2>3
<1>13. Moves(q, t, c)
  <2>1. th' = [th EXCEPT ![q] = t]
    BY <1>1, Before
  <2> QED
    BY <1>1, <1>3, <1>4, <1>12, <2>1 DEF Moves
<1>14. \A x \in Proc : cwd'[x] = 0 => \A d \in Fd : ofile'[x][d] = 0
  BY <1>1, <1>3, <1>8, <1>13, MovesTo, RootIs DEF FsInv, CallInv
<1>15. \A f \in File : file'[f].ip # 0 => Safe(file'[f].ip)
  BY <1>6, StillSafe
<1>16. t.pc \notin {"trunc", "create", "freed"} /\ Locks(t) \subseteq {0}
  BY <1>1, <1>4
<1> HIDE DEF t, c
<1> QED
  BY <1>1, <1>4, <1>5, <1>7, <1>8, <1>9, <1>10, <1>11, <1>12, <1>13, <1>14, <1>15, <1>16, FileInv DEF t

-----------------------------------------------------------------------------
(* The invariant of the specification.                                     *)

LEMMA InitFs == InodeInit => FsInv
<1> SUFFICES ASSUME InodeInit PROVE FsInv
  OBVIOUS
<1>1. /\ dinode = [i \in Inode |-> IF i = ROOTINO THEN Dinode("dir", 1) ELSE Dinode("none", 0)]
      /\ itable = [i \in Inode |-> [ref |-> IF i = ROOTINO THEN 1 ELSE 0, valid |-> FALSE,
                                    lock |-> NoProc, type |-> "none", nlink |-> 0]]
      /\ file = [f \in File |-> [ref |-> 0, ip |-> 0]]
      /\ ofile = [p \in Proc |-> [d \in Fd |-> 0]]
      /\ cwd = [p \in Proc |-> IF p = First THEN ROOTINO ELSE 0]
      /\ th = [p \in Proc |-> Idle] /\ lost = [i \in Inode |-> 0]
  BY DEF InodeInit
<1>2. dir = [i \in Inode |-> IF i = ROOTINO THEN [NoEntries EXCEPT ![".."] = ROOTINO] ELSE NoEntries]
  BY DEF InodeInit
<1>3. /\ dir \in Entries /\ \A i \in Inode, n \in Name : dir[i][n] = 0
      /\ \A i \in Inode \ {ROOTINO} : dir[i] = NoEntries
  <2>1. NoEntries \in [Entry -> Inode \cup {0}] /\ [NoEntries EXCEPT ![".."] = ROOTINO] \in [Entry -> Inode \cup {0}]
    BY RootIs DEF NoEntries
  <2>2. \A n \in Name : n \in Entry /\ n # ".." /\ NoEntries[n] = 0 /\ [NoEntries EXCEPT ![".."] = ROOTINO][n] = 0
    BY DEF NoEntries, Entry
  <2> HIDE DEF NoEntries
  <2> QED
    BY <1>2, <2>1, <2>2 DEF Entries
<1>4. \A i \in Inode : /\ dinode[i] = IF i = ROOTINO THEN Dinode("dir", 1) ELSE Dinode("none", 0)
                       /\ itable[i].ref = (IF i = ROOTINO THEN 1 ELSE 0) /\ ~ itable[i].valid
                       /\ itable[i].lock = NoProc /\ lost[i] = 0
  BY <1>1
<1>5. \A p \in Proc : th[p] = Idle /\ cwd[p] = (IF p = First THEN ROOTINO ELSE 0) /\ \A d \in Fd : ofile[p][d] = 0
  BY <1>1
<1>6. \A f \in File : file[f].ref = 0 /\ file[f].ip = 0
  BY <1>1
<1>7. /\ dinode \in Disk /\ itable \in Table /\ file \in [File -> [ref : Nat, ip : Inode \cup {0}]]
      /\ ofile \in [Proc -> [Fd -> File \cup {0}]] /\ cwd \in [Proc -> Inode \cup {0}]
      /\ th \in [Proc -> Thread] /\ lost \in [Inode -> Nat]
  <2>1. dinode \in Disk /\ itable \in Table
    BY <1>1 DEF Disk, Table, Dinode, Type
  <2>2. /\ file \in [File -> [ref : Nat, ip : Inode \cup {0}]]
        /\ ofile \in [Proc -> [Fd -> File \cup {0}]] /\ cwd \in [Proc -> Inode \cup {0}]
    BY <1>1, RootIs
  <2>3. th \in [Proc -> Thread] /\ lost \in [Inode -> Nat]
    BY <1>1, IdleIs
  <2> QED
    BY <2>1, <2>2, <2>3
<1>8. CallInv
  <2>1. InodeTypeOK
    BY <1>3, <1>7, ThreadTypes DEF InodeTypeOK, Disk, Entries, Table
  <2>2. Locks(Idle) = {} /\ \A c : Shape(Idle, c)
    BY IdleIs DEF Locks, Shape, Stage, Putting, HasAt, HasIp, NoCall
  <2>3. LockInv
    BY <1>4, <1>5, <2>2 DEF LockInv
  <2> QED
    BY <1>5, <1>6, <1>7, <2>1, <2>2, <2>3 DEF CallInv
<1>9. RefCounts
  <2>1. ASSUME NEW i \in Inode PROVE itable[i].ref = Pointers(i)
    <3>1. {p \in Proc : cwd[p] = i} = IF i = ROOTINO THEN {First} ELSE {}
      BY <1>5, RootIs
    <3>2. {f \in File : file[f].ip = i} = {}
      BY <1>6, RootIs
    <3>3. /\ {p \in Proc : th[p].at = i} = {} /\ {p \in Proc : th[p].ip = i} = {}
          /\ {p \in Proc : th[p].drop = i} = {}
      BY <1>5, IdleIs, RootIs
    <3>4. Cardinality({p \in Proc : cwd[p] = i}) = IF i = ROOTINO THEN 1 ELSE 0
      BY <3>1, FS_EmptySet, FS_Singleton
    <3>5. /\ Cardinality({f \in File : file[f].ip = i}) = 0 /\ Cardinality({p \in Proc : th[p].at = i}) = 0
          /\ Cardinality({p \in Proc : th[p].ip = i}) = 0 /\ Cardinality({p \in Proc : th[p].drop = i}) = 0
      BY <3>2, <3>3, FS_EmptySet
    <3> QED
      BY <1>4, <3>4, <3>5 DEF Pointers
  <2>2. ASSUME NEW f \in File
        PROVE  file[f].ref = Cardinality({x \in Proc \X Fd : ofile[x[1]][x[2]] = f})
    <3>1. {x \in Proc \X Fd : ofile[x[1]][x[2]] = f} = {}
      BY <1>5 DEF File
    <3> QED
      BY <1>6, <3>1, FS_EmptySet
  <2> QED
    BY <2>1, <2>2 DEF RefCounts
<1>10. AllocInv
  <2>1. Dinode("dir", 1).type = "dir" /\ Dinode("none", 0).type = "none" /\ Dinode("none", 0).nlink = 0
    BY DEF Dinode
  <2>2. Safe(ROOTINO)
    BY <1>4, <1>5, <2>1, IdleIs, RootIs DEF Safe
  <2> QED
    BY <1>4, <1>5, <1>6, <2>1, <2>2, IdleIs, RootIs DEF AllocInv
<1>11. CacheInv
  BY <1>4 DEF CacheInv
<1>12. LinkInv
  <2> SUFFICES ASSUME NEW i \in Inode
               PROVE  dinode[i].nlink = Names(i) + Parents(i) + lost[i] + (IF i = ROOTINO THEN 1 ELSE 0) + Owed(i)
    BY DEF LinkInv
  <2>1. \A k \in Inode : NameEntries(k) = {}
    BY <1>3, RootIs DEF NameEntries
  <2>2. Subdirs(i) = {}
    BY <2>1 DEF Subdirs
  <2>3. {p \in Proc : Owes(th[p]) = i} = {}
    <3>1. Owes(Idle) = 0
      BY IdleIs DEF Owes
    <3> QED
      BY <1>5, <3>1, RootIs
  <2>4. Names(i) = 0 /\ Parents(i) = 0 /\ Owed(i) = 0
    BY <2>1, <2>2, <2>3, FS_EmptySet DEF Names, Parents, Owed
  <2>5. dinode[i].nlink = IF i = ROOTINO THEN 1 ELSE 0
    BY <1>4 DEF Dinode
  <2> QED
    BY <1>4, <2>4, <2>5
<1>13. TreeInv
  BY <1>3, <1>4, RootIs DEF TreeInv, Dinode
<1>14. FoundInv
  BY <1>5, IdleIs DEF FoundInv, Stage, Putting
<1>15. RankInv
  <2> DEFINE r == [i \in Inode |-> 0]
  <2>1. r \in [Inode -> Nat] /\ Below(r)
    BY <1>3, RootIs DEF Below
  <2> QED
    BY <2>1 DEF RankInv
<1> QED
  BY <1>8, <1>9, <1>10, <1>11, <1>12, <1>13, <1>14, <1>15 DEF FsInv

LEMMA StepFs ==
  ASSUME FsInv, NEW p \in Proc, Step(p)
  PROVE  FsInv'
<1>1. CASE Walk(p) \/ WalkEnd(p)
  BY <1>1, WalkInv, WalkEndInv
<1>2. CASE Put(p) \/ Trunc(p) \/ Freed(p) \/ Unref(p) \/ DropIp(p) \/ DropDp(p)
  BY <1>2, PutInv, TruncInv, FreedInv, UnrefInv, DropIpInv, DropDpInv
<1>3. CASE Create(p) \/ CreateExists(p) \/ CreateLink(p) \/ CreateFail(p)
  BY <1>3, CreateInv, CreateExistsInv, CreateLinkInv, CreateFailInv
<1>4. CASE OpenLock(p) \/ OpenFile(p)
  BY <1>4, OpenLockInv, OpenFileInv
<1>5. CASE Unlink(p) \/ UnlinkEntry(p) \/ Unlinked(p)
  BY <1>5, UnlinkInv, UnlinkEntryInv, UnlinkedInv
<1>6. CASE Link(p) \/ LinkEntry(p) \/ LinkBad(p)
  BY <1>6, LinkFirst, LinkEntryInv, LinkBadInv
<1>7. CASE Chdir(p) \/ Exec(p)
  BY <1>7, ChdirInv, ExecInv
<1> QED
  BY <1>1, <1>2, <1>3, <1>4, <1>5, <1>6, <1>7 DEF Step

LEMMA NextFs == FsInv /\ [InodeNext]_inodeVars => FsInv'
<1> SUFFICES ASSUME FsInv, [InodeNext]_inodeVars PROVE FsInv'
  OBVIOUS
<1>1. CASE UNCHANGED inodeVars
  <2>1. /\ dinode' = dinode /\ dir' = dir /\ itable' = itable /\ file' = file /\ ofile' = ofile
        /\ cwd' = cwd /\ th' = th /\ lost' = lost
    BY <1>1 DEF inodeVars
  <2>2. CallInv'
    BY <2>1 DEF FsInv, CallInv, InodeTypeOK, LockInv
  <2>3. RefCounts'
    BY <2>1 DEF FsInv, RefCounts, Pointers
  <2>4. AllocInv'
    BY <2>1 DEF FsInv, AllocInv, Safe, NewType
  <2>5. CacheInv'
    BY <2>1 DEF FsInv, CacheInv
  <2>6. LinkInv'
    BY <2>1 DEF FsInv, LinkInv, Names, Parents, Owed, NameEntries, Subdirs
  <2>7. TreeInv' /\ RankInv'
    BY <2>1 DEF FsInv, TreeInv, RankInv, Below
  <2>8. FoundInv'
    BY <2>1 DEF FsInv, FoundInv, name
  <2> QED
    BY <2>2, <2>3, <2>4, <2>5, <2>6, <2>7, <2>8 DEF FsInv
<1>2. CASE InodeNext
  <2>1. PICK p \in Proc : \/ Step(p) \/ Exit(p)
                          \/ \E r \in Requests[p] : Start(p, r)
                          \/ \E d \in Fd : Dup(p, d) \/ Close(p, d)
                          \/ \E q \in Proc : Fork(p, q)
    BY <1>2 DEF InodeNext
  <2> QED
    BY <2>1, StepFs, ExitInv, StartInv, DupInv, CloseInv, ForkInv
<1> QED
  BY <1>1, <1>2

\* The inductive invariant holds in every reachable state: whatever the calls
\* of kernel/sysfile.c do, in any order and on any error path.
THEOREM InodesInvariant == InodeSpec => []FsInv
<1>1. InodeInit => FsInv
  BY InitFs
<1>2. FsInv /\ [InodeNext]_inodeVars => FsInv'
  BY NextFs
<1> QED
  BY <1>1, <1>2, PTL DEF InodeSpec

\* The table, the files and the calls have their types in every reachable
\* state; a link count or a reference count never passes below 0.
THEOREM InodesTypeCorrect == InodeSpec => []InodeTypeOK
<1>1. FsInv => InodeTypeOK
  BY DEF FsInv, CallInv
<1> QED
  BY <1>1, InodesInvariant, PTL

\* ip->ref counts the current directories, the open files and the pointers that
\* calls have, and f->ref counts the descriptors, for any number of processes,
\* inodes, files and calls.
THEOREM ReferencesCounted == InodeSpec => []RefCounts
<1>1. FsInv => RefCounts
  BY DEF FsInv
<1> QED
  BY <1>1, InodesInvariant, PTL

LEMMA HeldCurrent == FsInv => ReferencedCurrent
<1> SUFFICES ASSUME FsInv, NEW i \in Inode, Held(i)
             PROVE  /\ dinode[i].type # "none"
                    /\ itable[i].valid /\ Unlocked(i) => Dinode(itable[i].type, itable[i].nlink) = dinode[i]
  BY DEF ReferencedCurrent
<1>1. dinode[i].type # "none"
  <2>1. CASE \E p \in Proc : th[p].at = i \/ th[p].ip = i
    BY <2>1, InUse
  <2>2. CASE \E p \in Proc : cwd[p] = i
    BY <2>2, StillSafe, RootIs DEF SafeAt, Safe
  <2>3. CASE \E f \in File : file[f].ip = i
    BY <2>3, RootIs DEF FsInv, AllocInv, Safe
  <2> QED
    BY <2>1, <2>2, <2>3 DEF Held
<1>2. itable[i].valid /\ Unlocked(i) => Dinode(itable[i].type, itable[i].nlink) = dinode[i]
  BY IlockIs, IlockCurrent
<1> QED
  BY <1>1, <1>2

\* An inode that a process or an open file refers to is allocated, and a valid
\* entry of it is what the disk holds: ilock() never panics with "no type".
THEOREM HeldInodesCurrent == InodeSpec => []ReferencedCurrent
BY HeldCurrent, InodesInvariant, PTL

LEMMA QuietConsistent == FsInv => TreeConsistent
<1> SUFFICES ASSUME FsInv, Quiet, NEW i \in Inode
             PROVE  /\ dinode[i].nlink = Cardinality(NameEntries(i)) + Cardinality(Subdirs(i)) + lost[i]
                                           + (IF i = ROOTINO THEN 1 ELSE 0)
                    /\ NameEntries(i) # {} => dinode[i].type # "none"
  BY DEF TreeConsistent
<1>1. Owed(i) = 0
  <2>1. \A p \in Proc : Owes(th[p]) # i
    BY AtUser, RootIs DEF Quiet
  <2>2. {p \in Proc : Owes(th[p]) = i} = {}
    BY <2>1
  <2> QED
    BY <2>2, FS_EmptySet DEF Owed
<1>2. dinode[i].nlink = Cardinality(NameEntries(i)) + Cardinality(Subdirs(i)) + lost[i]
                          + (IF i = ROOTINO THEN 1 ELSE 0)
  <2>1. /\ Names(i) \in Nat /\ Parents(i) \in Nat /\ lost[i] \in Nat
        /\ dinode[i].nlink = Names(i) + Parents(i) + lost[i] + One(i = ROOTINO) + Owed(i)
    BY LinkSum
  <2>2. dinode[i].nlink = Names(i) + Parents(i) + lost[i] + (IF i = ROOTINO THEN 1 ELSE 0)
    BY <1>1, <2>1 DEF One
  <2> QED
    BY <2>2 DEF Names, Parents
<1>3. ASSUME NEW z \in NameEntries(i) PROVE dinode[i].type # "none"
  <2>1. PICK x \in Inode, n \in Name : dir[x][n] = i
    BY <1>3 DEF NameEntries
  <2> QED
    BY <2>1, NamedSafe, RootIs DEF Safe
<1> QED
  BY <1>2, <1>3

\* Between calls every link count is the number of entries that name the inode,
\* and no name leads to a free inode: create(), link(), unlink() and all their
\* ways to fail balance.
THEOREM LinksConsistent == InodeSpec => []TreeConsistent
BY QuietConsistent, InodesInvariant, PTL

\* A process that waits in iput() would wait for nobody.
LEMMA PutNeverWaits ==
  ASSUME FsInv, NEW p \in Proc, th[p].pc = "put"
  PROVE  Holder(p) = NoProc
<1> DEFINE i == th[p].drop
<1>1. Wants(p) = IF LastOfUnlinked(i) THEN i ELSE 0
  BY DEF Wants
<1>2. i \in Inode
  BY Here DEF Thread, Shape, Putting
<1>3. ASSUME LastOfUnlinked(i) PROVE itable[i].lock = NoProc
  <2> SUFFICES ASSUME NEW q \in Proc, itable[i].lock = q PROVE FALSE
    BY <1>2, Before DEF Table
  <2>1. itable[i].ref = 1
    BY <1>3 DEF LastOfUnlinked
  <2>2. th[q].at # i /\ th[q].ip # i /\ (q # p => th[q].drop # i)
    BY <1>2, <2>1, RefAlone
  <2>3. i \in Locks(th[q])
    BY <1>2, Here
  <2> QED
    BY <2>2, <2>3 DEF Locks
<1> QED
  BY <1>1, <1>2, <1>3 DEF Holder

\* A process that holds a lock and waits is in unlink(), or in create(): it
\* holds the parent and waits for the child.
LEMMA WaitsForChild ==
  ASSUME FsInv, NEW q \in Proc, Holder(q) # NoProc
  PROVE  /\ Wants(q) \in Inode /\ itable[Wants(q)].lock = Holder(q)
         /\ Locks(th[q]) # {} => /\ th[q].pc \in {"create", "unlink"} /\ Locks(th[q]) = {th[q].at}
                                 /\ Wants(q) = th[q].ip
<1>1. th[q].pc # "put"
  BY PutNeverWaits
<1>2. th[q].pc \in {"walk", "parent", "got", "exists", "create", "unlink", "linkbad"}
  BY <1>1 DEF Holder, Wants
<1>3. Wants(q) = IF th[q].pc \in {"walk", "parent", "got", "exists"} THEN th[q].at ELSE th[q].ip
  BY <1>2 DEF Wants
<1>4. Stage(th[q]) = th[q].pc
  BY <1>2 DEF Stage, Putting
<1>5. Wants(q) \in Inode
  <2>1. th[q] \in Thread /\ Wants(q) # 0
    BY Here DEF Holder
  <2> QED
    BY <1>3, <2>1 DEF Thread
<1>6. Locks(th[q]) # {} => th[q].pc \in {"create", "unlink"} /\ Locks(th[q]) = {th[q].at}
  BY <1>2, <1>4 DEF Locks
<1> QED
  BY <1>3, <1>5, <1>6, RootIs DEF Holder

\* The directory that r holds while q, which holds another, waits for it is
\* below that one.
LEMMA ChildBelow ==
  ASSUME FsInv, NEW q \in Proc, NEW r \in Proc, th[q].pc \in {"create", "unlink"},
         th[r].pc \in {"create", "unlink"}, th[q].ip = th[r].at,
         NEW rank \in [Inode -> Nat], Below(rank)
  PROVE  rank[th[r].at] < rank[th[q].at]
<1>1. /\ th[r].at \in Inode /\ Safe(th[r].at) /\ dinode[th[r].at].type = "dir" /\ th[q].at \in Inode
      /\ name(q) \in Name
  BY AtChild
<1>2. th[q].pc = "unlink"
  BY <1>1 DEF Safe
<1>3. dir[th[q].at][name(q)] = th[r].at
  BY <1>2 DEF FsInv, FoundInv
<1> QED
  BY <1>1, <1>3 DEF Below

LEMMA NobodyStuck == FsInv => NeverStuck
<1> SUFFICES ASSUME FsInv PROVE NeverStuck
  OBVIOUS
<1>1. \A p \in Proc : th[p].pc = "put" => Holder(p) = NoProc
  BY PutNeverWaits
<1>2. ASSUME NEW i \in Inode, itable[i].lock # NoProc PROVE th[itable[i].lock].pc # "user"
  <2>1. itable[i].lock \in Proc
    BY <1>2, Before DEF Table
  <2>2. i \in Locks(th[itable[i].lock])
    BY <2>1, Here
  <2> QED
    BY <2>1, <2>2, AtUser
<1>3. ASSUME NEW S \in SUBSET Proc, S # {}, \A p \in S : Holder(p) \in S PROVE FALSE
  <2>1. PICK rank \in [Inode -> Nat] : Below(rank)
    BY DEF FsInv, RankInv
  <2> DEFINE T == {q \in S : Locks(th[q]) # {}}
             R == {rank[th[q].at] : q \in T}
  <2>2. ASSUME NEW p \in S
        PROVE  /\ Wants(p) \in Inode /\ Holder(p) \in S /\ Wants(p) \in Locks(th[Holder(p)])
               /\ Holder(p) \in T
    <3>1. Holder(p) \in S /\ Holder(p) \in Proc /\ Holder(p) # NoProc
      BY <1>3
    <3>2. Wants(p) \in Inode /\ itable[Wants(p)].lock = Holder(p)
      BY <3>1, WaitsForChild
    <3>3. Wants(p) \in Locks(th[Holder(p)])
      BY <3>1, <3>2, Here
    <3> QED
      BY <3>1, <3>2, <3>3
  <2>3. ASSUME NEW q \in T
        PROVE  /\ th[q].pc \in {"create", "unlink"} /\ Locks(th[q]) = {th[q].at} /\ Wants(q) = th[q].ip
               /\ th[q].at \in Inode
    <3>1. Holder(q) # NoProc
      BY <1>3
    <3> QED
      BY <3>1, WaitsForChild, AtChild
  <2>4. R \subseteq Nat /\ R # {}
    BY <1>3, <2>2, <2>3
  <2>5. PICK x \in R : \A y \in R : x <= y
    BY <2>4, Least
  <2>6. PICK q \in T : x = rank[th[q].at]
    BY <2>5
  <2>7. Holder(q) \in T /\ Wants(q) \in Locks(th[Holder(q)])
    BY <2>2
  <2>8. th[q].ip = th[Holder(q)].at
    BY <2>3, <2>7
  <2>9. rank[th[Holder(q)].at] < rank[th[q].at]
    BY <2>1, <2>3, <2>7, <2>8, ChildBelow
  <2>10. rank[th[Holder(q)].at] \in R /\ rank[th[q].at] \in Nat /\ rank[th[Holder(q)].at] \in Nat
    BY <2>3, <2>7
  <2> HIDE DEF R
  <2>11. x <= rank[th[Holder(q)].at]
    BY <2>5, <2>10
  <2> QED
    BY <2>6, <2>9, <2>10, <2>11
<1> QED
  BY <1>1, <1>2, <1>3 DEF NeverStuck

\* iput() never waits for the inode it frees, a lock is held only within a call,
\* and no processes wait for each other in a circle: unlink(), which holds the
\* parent while it waits for the child, goes down the tree.
THEOREM InodesNeverStuck == InodeSpec => []NeverStuck
BY NobodyStuck, InodesInvariant, PTL
=============================================================================
