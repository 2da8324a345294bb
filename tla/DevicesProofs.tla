--------------------------- MODULE DevicesProofs ----------------------------
(***************************************************************************)
(* Proofs about Devices, for any number of harts, any programs, any sizes  *)
(* of the rings and any width of the counters: interrupts are off exactly  *)
(* where they must be, nobody sleeps for what has come, output goes on,    *)
(* and the input ring can be read.                                         *)
(***************************************************************************)
EXTENDS Devices, FiniteSetTheorems, SequenceTheorems, TLAPS

-----------------------------------------------------------------------------
(* Frames and locks.                                                       *)

FrameRec == [pc : Pc, want : Lock, then : Pc, n : 0 .. UINT, arg : 0 .. UINT, c : Key]

USE DevicesAssumption

\* Where code runs that holds lock l.
Under(l) ==
  CASE l = "cons"  -> {"read", "cons", "echo", "store", "consdone"}
    [] l = "tx"    -> {"write", "start", "sent"}
    [] l = "ticks" -> {"ticks0", "tick", "clock"}

\* Between push_off() and pop_off().
Deep == {"spin", "read", "cons", "echo", "store", "consdone", "write", "start", "sent",
         "ticks0", "tick", "clock"}

\* Where the code of a process has interrupts on.
Outside == {"user", "off", "asleep"}

\* The frame of a process.
ProcOk(f) ==
  /\ f.pc \in Outside \cup {"spin", "read", "write", "start", "sent", "ticks0", "tick"}
  /\ f.pc \in {"off", "spin", "asleep"} =>
       \/ f.want = "cons" /\ f.then = "read"
       \/ f.want = "tx" /\ f.then = "write"
       \/ f.want = "ticks" /\ f.then \in {"ticks0", "tick"}
  /\ f.pc = "read" => f.want = "cons" /\ f.then = "read"
  /\ f.pc = "read" \/ (f.pc \in {"off", "spin", "asleep"} /\ f.then = "read") => f.n > 0
  /\ f.pc = "write" => f.want = "tx" /\ f.then = "write"
  /\ f.pc \in {"ticks0", "tick"} => f.want = "ticks"

\* The frame of a handler.
IntrOk(f) ==
  /\ f.pc \in {"none", "off", "spin", "clock", "ack", "claim", "getc", "cons", "echo", "store",
               "consdone", "start", "sent", "complete"}
  /\ f.pc \in {"off", "spin"} =>
       \/ f.want = "ticks" /\ f.then = "clock"
       \/ f.want = "tx" /\ f.then = "start"
       \/ f.want = "cons" /\ f.then = "cons"
  /\ f.pc = "echo" => f.then \in {"store", "cons", "consdone"}

\* A hart: a handler runs only on top of code with interrupts on; noff counts;
\* intena is what interrupts were before.
HartOk(P, Q, on, depth, saved) ==
  /\ ProcOk(P) /\ IntrOk(Q)
  /\ Q.pc # "none" => P.pc \in Outside
  /\ on <=> Q.pc = "none" /\ P.pc \in Outside
  /\ depth = IF P.pc \in Deep \/ Q.pc \in Deep THEN 1 ELSE 0
  /\ P.pc \in Deep => saved
  /\ Q.pc \in Deep => ~saved

CtlType ==
  /\ fr \in [Hart -> [Frame -> FrameRec]]
  /\ intr \in [Hart -> BOOLEAN] /\ intena \in [Hart -> BOOLEAN] /\ noff \in [Hart -> {0, 1}]
  /\ lock \in [Lock -> Hart \cup {NoHart}]

HartsOk ==
  \A h \in Hart : HartOk(fr[h]["proc"], fr[h]["intr"], intr[h], noff[h], intena[h])

LocksOwned ==
  \A l \in Lock, h \in Hart :
    lock[l] = h <=> fr[h]["proc"].pc \in Under(l) \/ fr[h]["intr"].pc \in Under(l)

CtlInv == CtlType /\ HartsOk /\ LocksOwned

-----------------------------------------------------------------------------
(* The data.                                                               *)

\* Nobody sleeps for what has come, whoever holds the lock.
SleepInv ==
  /\ ticks \in 0 .. UINT - 1
  /\ \A h \in Hart :
       /\ Sleeping(h, "cons") => cons.ready = 0
       /\ Sleeping(h, "tx") => ntx = UART_TX_BUF_SIZE
       /\ Sleeping(h, "ticks") => Elapsed(fr[h]["proc"]) < fr[h]["proc"].n

\* The handler found room for the character that it is about to store.
RoomFound(f) ==
  f.pc = "store" \/ (f.pc = "echo" /\ f.then = "store") =>
    Used < INPUT_BUF_SIZE

RingInv ==
  /\ cons \in [buf : Seq(Key), ready : Nat]
  /\ cons.ready <= Used /\ Used <= INPUT_BUF_SIZE
  /\ Used = INPUT_BUF_SIZE => cons.ready = Used
  /\ \A i \in cons.ready + 1 .. Used : cons.buf[i] \notin {"nl", "eof"}
  /\ rx \in Key \cup {"none"}
  /\ \A h \in Hart : RoomFound(fr[h]["intr"])

\* While characters wait, the transmitter will interrupt, or somebody will start
\* it.
OutInv ==
  /\ ntx \in 0 .. UART_TX_BUF_SIZE /\ thr \in BOOLEAN /\ uirq \in BOOLEAN
  /\ ntx > 0 => \/ thr \/ uirq
                \/ \E h \in Hart : Starts(fr[h]["intr"])
                \/ \E h \in Hart : fr[h]["proc"].pc = "start"

DataInv == SleepInv /\ RingInv /\ OutInv

-----------------------------------------------------------------------------
(* Frames.                                                                 *)

\* What a hart executes, when the control invariant holds.
LEMMA TopIs ==
  ASSUME CtlInv, NEW h \in Hart
  PROVE  /\ fr[h] \in [Frame -> FrameRec] /\ Me(h) \in FrameRec
         /\ \/ Top(h) = "intr" /\ Me(h) = fr[h]["intr"] /\ fr[h]["intr"].pc # "none"
               /\ fr[h]["proc"].pc \in Outside /\ IntrOk(Me(h))
            \/ Top(h) = "proc" /\ Me(h) = fr[h]["proc"] /\ fr[h]["intr"].pc = "none"
               /\ ProcOk(Me(h))
<1>1. fr[h] \in [Frame -> FrameRec]
  BY DEF CtlInv, CtlType
<1>2. fr[h]["intr"] \in FrameRec /\ fr[h]["proc"] \in FrameRec
  BY <1>1 DEF Frame
<1>3. HartOk(fr[h]["proc"], fr[h]["intr"], intr[h], noff[h], intena[h])
  BY DEF CtlInv, HartsOk
<1> QED
  BY <1>1, <1>2, <1>3 DEF HartOk, Top, Me

\* The frames after the top frame of h became f.
LEMMA FramesAre ==
  ASSUME CtlInv, NEW h \in Hart, NEW f
  PROVE  /\ f \in FrameRec => Frames(h, f) \in [Hart -> [Frame -> FrameRec]]
         /\ \A k \in Hart \ {h} : Frames(h, f)[k] = fr[k]
         /\ Top(h) = "intr" => /\ Frames(h, f)[h]["intr"] = f
                               /\ Frames(h, f)[h]["proc"] = fr[h]["proc"]
         /\ Top(h) = "proc" => /\ Frames(h, f)[h]["proc"] = f
                               /\ Frames(h, f)[h]["intr"] = fr[h]["intr"]
<1>1. fr \in [Hart -> [Frame -> FrameRec]] /\ fr[h] \in [Frame -> FrameRec]
  BY DEF CtlInv, CtlType
<1>2. Top(h) \in Frame
  BY DEF Top, Frame
<1>3. Frames(h, f) = [fr EXCEPT ![h] = [fr[h] EXCEPT ![Top(h)] = f]]
  BY <1>1 DEF Frames
<1>4. f \in FrameRec => [fr[h] EXCEPT ![Top(h)] = f] \in [Frame -> FrameRec]
  BY <1>1, <1>2
<1> QED
  BY <1>1, <1>2, <1>3, <1>4 DEF Frame

\* What wakeup() makes of the frame of a process.
Roused(P2, P1) == P2 = P1 \/ (P1.pc = "asleep" /\ P2 = [P1 EXCEPT !.pc = "off"])

LEMMA WokenAre ==
  ASSUME NEW G \in [Hart -> [Frame -> FrameRec]], NEW l \in Lock
  PROVE  /\ Woken(G, l) \in [Hart -> [Frame -> FrameRec]]
         /\ \A k \in Hart :
              /\ Woken(G, l)[k]["intr"] = G[k]["intr"]
              /\ Roused(Woken(G, l)[k]["proc"], G[k]["proc"])
              /\ ~ (Woken(G, l)[k]["proc"].pc = "asleep" /\ Woken(G, l)[k]["proc"].want = l)
<1> SUFFICES ASSUME NEW k \in Hart
             PROVE  /\ Woken(G, l)[k] \in [Frame -> FrameRec]
                    /\ Woken(G, l)[k]["intr"] = G[k]["intr"]
                    /\ Roused(Woken(G, l)[k]["proc"], G[k]["proc"])
                    /\ ~ (Woken(G, l)[k]["proc"].pc = "asleep"
                            /\ Woken(G, l)[k]["proc"].want = l)
  BY DEF Woken
<1>1. G[k] \in [Frame -> FrameRec] /\ "proc" \in Frame /\ "intr" \in Frame
  BY DEF Frame
<1>2. G[k]["proc"] \in FrameRec
  BY <1>1
<1>3. CASE G[k]["proc"].pc = "asleep" /\ G[k]["proc"].want = l
  <2>1. Woken(G, l)[k] = [G[k] EXCEPT !["proc"] = [G[k]["proc"] EXCEPT !.pc = "off"]]
    BY <1>1, <1>2, <1>3 DEF Woken
  <2>2. [G[k]["proc"] EXCEPT !.pc = "off"] \in FrameRec
    BY <1>2 DEF FrameRec, Pc
  <2>3. [G[k]["proc"] EXCEPT !.pc = "off"].pc = "off"
    BY <1>2 DEF FrameRec
  <2> QED
    BY <1>1, <1>3, <2>1, <2>2, <2>3 DEF Roused
<1>4. CASE ~ (G[k]["proc"].pc = "asleep" /\ G[k]["proc"].want = l)
  BY <1>1, <1>4 DEF Woken, Roused
<1> QED
  BY <1>3, <1>4

\* A woken process is as well placed as before.
LEMMA RousedOk ==
  ASSUME NEW P1 \in FrameRec, NEW P2 \in FrameRec, NEW Q \in FrameRec, Roused(P2, P1),
         NEW on, NEW depth, NEW saved, HartOk(P1, Q, on, depth, saved)
  PROVE  /\ HartOk(P2, Q, on, depth, saved)
         /\ \A l \in Lock : P2.pc \in Under(l) <=> P1.pc \in Under(l)
<1>1. CASE P2 = P1
  BY <1>1
<1>2. CASE P1.pc = "asleep" /\ P2 = [P1 EXCEPT !.pc = "off"]
  <2>1. P2.pc = "off" /\ P2.want = P1.want /\ P2.then = P1.then /\ P2.n = P1.n
    BY <1>2 DEF FrameRec
  <2>2. ProcOk(P2)
    BY <1>2, <2>1 DEF HartOk, ProcOk, Outside
  <2>3. HartOk(P2, Q, on, depth, saved)
    BY <1>2, <2>1, <2>2 DEF HartOk, Outside, Deep
  <2>4. \A l \in Lock : P2.pc \notin Under(l) /\ P1.pc \notin Under(l)
    BY <1>2, <2>1 DEF Under, Lock
  <2> QED
    BY <2>3, <2>4
<1> QED
  BY <1>1, <1>2 DEF Roused

-----------------------------------------------------------------------------
(* Control: one hart moves, and sleepers may be woken.                     *)

\* The frames became G, and perhaps the sleepers for some lock were woken.
Becomes(G) == fr' = G \/ \E l \in Lock : fr' = Woken(G, l)

\* Only hart h's part of the cpu variables may change.
OnlyHart(h) ==
  /\ intr' \in [Hart -> BOOLEAN] /\ intena' \in [Hart -> BOOLEAN] /\ noff' \in [Hart -> {0, 1}]
  /\ lock' \in [Lock -> Hart \cup {NoHart}]
  /\ \A k \in Hart \ {h} :
       /\ intr'[k] = intr[k] /\ noff'[k] = noff[k] /\ intena'[k] = intena[k]
       /\ \A l \in Lock : lock'[l] = k <=> lock[l] = k

LEMMA CtlStep ==
  ASSUME CtlInv, NEW h \in Hart, NEW G \in [Hart -> [Frame -> FrameRec]], Becomes(G),
         \A k \in Hart \ {h} : G[k] = fr[k],
         OnlyHart(h),
         HartOk(G[h]["proc"], G[h]["intr"], intr'[h], noff'[h], intena'[h]),
         \A l \in Lock :
           lock'[l] = h <=> G[h]["proc"].pc \in Under(l) \/ G[h]["intr"].pc \in Under(l)
  PROVE  CtlInv'
<1>1. /\ fr' \in [Hart -> [Frame -> FrameRec]]
      /\ \A k \in Hart : fr'[k]["intr"] = G[k]["intr"] /\ Roused(fr'[k]["proc"], G[k]["proc"])
  <2>1. CASE fr' = G
    BY <2>1 DEF Roused
  <2>2. CASE \E l \in Lock : fr' = Woken(G, l)
    BY <2>2, WokenAre
  <2> QED
    BY <2>1, <2>2 DEF Becomes
<1>2. CtlType'
  BY <1>1 DEF CtlType, OnlyHart
<1>3. ASSUME NEW k \in Hart
      PROVE  /\ HartOk(G[k]["proc"], G[k]["intr"], intr'[k], noff'[k], intena'[k])
             /\ \A l \in Lock :
                  lock'[l] = k <=> G[k]["proc"].pc \in Under(l) \/ G[k]["intr"].pc \in Under(l)
  <2>1. CASE k = h
    BY <2>1
  <2>2. CASE k # h
    BY <2>2 DEF CtlInv, HartsOk, LocksOwned, OnlyHart
  <2> QED
    BY <2>1, <2>2
<1>4. ASSUME NEW k \in Hart
      PROVE  /\ HartOk(fr'[k]["proc"], fr'[k]["intr"], intr'[k], noff'[k], intena'[k])
             /\ \A l \in Lock :
                  lock'[l] = k <=> fr'[k]["proc"].pc \in Under(l) \/ fr'[k]["intr"].pc \in Under(l)
  <2>1. /\ fr'[k]["proc"] \in FrameRec /\ G[k]["proc"] \in FrameRec /\ G[k]["intr"] \in FrameRec
        /\ fr'[k]["intr"] = G[k]["intr"] /\ Roused(fr'[k]["proc"], G[k]["proc"])
    BY <1>1 DEF Frame
  <2>2. /\ HartOk(fr'[k]["proc"], G[k]["intr"], intr'[k], noff'[k], intena'[k])
        /\ \A l \in Lock : fr'[k]["proc"].pc \in Under(l) <=> G[k]["proc"].pc \in Under(l)
    BY <2>1, <1>3, RousedOk
  <2> QED
    BY <2>1, <2>2, <1>3
<1> QED
  BY <1>2, <1>4 DEF CtlInv, HartsOk, LocksOwned

\* The top frame of h becomes f.
LEMMA CtlTop ==
  ASSUME CtlInv, NEW h \in Hart, NEW f \in FrameRec, Becomes(Frames(h, f)), OnlyHart(h),
         Top(h) = "intr" => HartOk(fr[h]["proc"], f, intr'[h], noff'[h], intena'[h]),
         Top(h) = "proc" => HartOk(f, fr[h]["intr"], intr'[h], noff'[h], intena'[h]),
         \A l \in Lock : lock'[l] = h <=> f.pc \in Under(l)
  PROVE  CtlInv'
<1> DEFINE G == Frames(h, f)
<1>1. /\ G \in [Hart -> [Frame -> FrameRec]] /\ \A k \in Hart \ {h} : G[k] = fr[k]
      /\ Top(h) = "intr" => G[h]["intr"] = f /\ G[h]["proc"] = fr[h]["proc"]
      /\ Top(h) = "proc" => G[h]["proc"] = f /\ G[h]["intr"] = fr[h]["intr"]
  BY FramesAre
<1>2. \A l \in Lock : \A p \in Outside \cup {"none"} : p \notin Under(l)
  BY DEF Lock, Under, Outside
<1>3. /\ Top(h) = "intr" => fr[h]["proc"].pc \in Outside
      /\ Top(h) = "proc" => fr[h]["intr"].pc = "none"
      /\ Top(h) \in {"intr", "proc"}
  BY TopIs
<1>4. HartOk(G[h]["proc"], G[h]["intr"], intr'[h], noff'[h], intena'[h])
  BY <1>1, <1>3
<1>5. \A l \in Lock :
        lock'[l] = h <=> G[h]["proc"].pc \in Under(l) \/ G[h]["intr"].pc \in Under(l)
  BY <1>1, <1>2, <1>3
<1> HIDE DEF G
<1>6. Becomes(G)
  BY DEF G
<1> QED
  BY <1>1, <1>4, <1>5, <1>6, CtlStep

\* A lock is released by its holder.
LEMMA CtlRelease ==
  ASSUME CtlInv, NEW h \in Hart, NEW l \in Lock, release(h, l), Me(h).pc \in Under(l),
         NEW f \in FrameRec, Becomes(Frames(h, f)), f.pc \notin Deep,
         Top(h) = "intr" => IntrOk(f) /\ f.pc # "none",
         Top(h) = "proc" => ProcOk(f) /\ f.pc \in Outside
  PROVE  CtlInv'
<1>1. /\ intr \in [Hart -> BOOLEAN] /\ intena \in [Hart -> BOOLEAN] /\ noff \in [Hart -> {0, 1}]
      /\ lock \in [Lock -> Hart \cup {NoHart}]
      /\ HartOk(fr[h]["proc"], fr[h]["intr"], intr[h], noff[h], intena[h])
  BY DEF CtlInv, CtlType, HartsOk
<1>2. Me(h).pc \in Deep
  BY DEF Deep, Under, Lock
<1>3. noff[h] = 1 /\ ~ intr[h] /\ (Top(h) = "proc" <=> intena[h])
  BY <1>1, <1>2, TopIs DEF HartOk, Deep, Outside
<1>4. /\ noff' = [noff EXCEPT ![h] = 0] /\ intena' = intena
      /\ intr' = [intr EXCEPT ![h] = intena[h]] /\ lock' = [lock EXCEPT ![l] = NoHart]
  <2>1. (intr[h] \/ (noff[h] = 1 /\ intena[h])) = intena[h]
    BY <1>1, <1>3
  <2>2. noff' = [noff EXCEPT ![h] = 0]
    BY <1>1, <1>3 DEF release
  <2>3. intr' = [intr EXCEPT ![h] = intr[h] \/ (noff[h] = 1 /\ intena[h])]
    BY DEF release
  <2> QED
    BY <2>1, <2>2, <2>3 DEF release
<1>5. \A m \in Lock : lock[m] = h <=> m = l
  BY TopIs DEF CtlInv, LocksOwned, Under, Lock, Outside
<1>6. OnlyHart(h)
  BY <1>1, <1>4, <1>5 DEF OnlyHart
<1>7. \A m \in Lock : ~ (lock'[m] = h) /\ f.pc \notin Under(m)
  BY <1>1, <1>4, <1>5 DEF Lock, Under, Deep
<1>8. /\ Top(h) = "intr" => HartOk(fr[h]["proc"], f, intr'[h], noff'[h], intena'[h])
      /\ Top(h) = "proc" => HartOk(f, fr[h]["intr"], intr'[h], noff'[h], intena'[h])
  BY <1>1, <1>3, <1>4, TopIs DEF HartOk, Deep, Outside
<1> QED
  BY <1>6, <1>7, <1>8, CtlTop

\* Code goes on with the locks that it holds.
LEMMA CtlSame ==
  ASSUME CtlInv, NEW h \in Hart, UNCHANGED cpuVars, NEW f \in FrameRec, Becomes(Frames(h, f)),
         \A l \in Lock : f.pc \in Under(l) <=> Me(h).pc \in Under(l),
         f.pc \in Deep <=> Me(h).pc \in Deep,
         Top(h) = "intr" => IntrOk(f) /\ f.pc # "none",
         Top(h) = "proc" => ProcOk(f) /\ (f.pc \in Outside <=> Me(h).pc \in Outside)
  PROVE  CtlInv'
<1>1. /\ intr \in [Hart -> BOOLEAN] /\ intena \in [Hart -> BOOLEAN] /\ noff \in [Hart -> {0, 1}]
      /\ lock \in [Lock -> Hart \cup {NoHart}]
      /\ HartOk(fr[h]["proc"], fr[h]["intr"], intr[h], noff[h], intena[h])
  BY DEF CtlInv, CtlType, HartsOk
<1>2. OnlyHart(h)
  BY <1>1 DEF OnlyHart, cpuVars
<1>3. \A l \in Lock : lock'[l] = h <=> f.pc \in Under(l)
  BY TopIs DEF CtlInv, LocksOwned, Under, Lock, Outside, cpuVars
<1>4. /\ Top(h) = "intr" => HartOk(fr[h]["proc"], f, intr'[h], noff'[h], intena'[h])
      /\ Top(h) = "proc" => HartOk(f, fr[h]["intr"], intr'[h], noff'[h], intena'[h])
  BY <1>1, TopIs DEF HartOk, Outside, cpuVars
<1> QED
  BY <1>2, <1>3, <1>4, CtlTop

-----------------------------------------------------------------------------
(* Control: the steps.                                                     *)

LEMMA UserFrame == Nil \in FrameRec /\ User \in FrameRec /\ ProcOk(User) /\ IntrOk(Nil)
<1>1. Nil \in FrameRec /\ Nil.pc = "none"
  BY DEF Nil, FrameRec, Pc, Lock, Key
<1>2. User \in FrameRec /\ User.pc = "user"
  BY DEF User, Nil, FrameRec, Pc, Lock, Key
<1> QED
  BY <1>1, <1>2 DEF ProcOk, IntrOk, Outside

LEMMA CtlPushOff == ASSUME CtlInv, NEW h \in Hart, PushOff(h) PROVE CtlInv'
<1> DEFINE f == [Me(h) EXCEPT !.pc = "spin"]
<1>1. /\ intr \in [Hart -> BOOLEAN] /\ intena \in [Hart -> BOOLEAN] /\ noff \in [Hart -> {0, 1}]
      /\ lock \in [Lock -> Hart \cup {NoHart}]
      /\ HartOk(fr[h]["proc"], fr[h]["intr"], intr[h], noff[h], intena[h])
  BY DEF CtlInv, CtlType, HartsOk
<1>2. Me(h).pc = "off" /\ Me(h) \in FrameRec
  BY TopIs DEF PushOff, At, Me
<1>3. /\ f \in FrameRec /\ f.pc = "spin" /\ f.want = Me(h).want /\ f.then = Me(h).then
      /\ f.n = Me(h).n
  BY <1>2 DEF FrameRec, Pc
<1>4. /\ Top(h) = "intr" => IntrOk(f) /\ ~ intr[h]
      /\ Top(h) = "proc" => ProcOk(f) /\ intr[h]
  BY <1>1, <1>2, <1>3, TopIs DEF IntrOk, ProcOk, HartOk, Outside
<1>5. noff[h] = 0
  BY <1>1, <1>2, TopIs DEF HartOk, Deep, Outside
<1>6. /\ intr' = [intr EXCEPT ![h] = FALSE] /\ intena' = [intena EXCEPT ![h] = intr[h]]
      /\ noff' = [noff EXCEPT ![h] = 1] /\ lock' = lock
  BY <1>1, <1>5 DEF PushOff
<1>7. OnlyHart(h)
  BY <1>1, <1>6 DEF OnlyHart
<1>8. \A l \in Lock : ~ (lock'[l] = h) /\ f.pc \notin Under(l)
  BY <1>2, <1>3, <1>6, TopIs DEF CtlInv, LocksOwned, Under, Lock, Outside
<1>9. /\ Top(h) = "intr" => HartOk(fr[h]["proc"], f, intr'[h], noff'[h], intena'[h])
      /\ Top(h) = "proc" => HartOk(f, fr[h]["intr"], intr'[h], noff'[h], intena'[h])
  BY <1>1, <1>2, <1>3, <1>4, <1>6, TopIs DEF HartOk, Deep, Outside
<1>10. Becomes(Frames(h, f))
  BY DEF Becomes, PushOff, Goto
<1> HIDE DEF f
<1> QED
  BY <1>3, <1>7, <1>8, <1>9, <1>10, CtlTop

LEMMA CtlSpin == ASSUME CtlInv, NEW h \in Hart, Spin(h) PROVE CtlInv'
<1> DEFINE f == [Me(h) EXCEPT !.pc = Me(h).then]
<1>1. /\ intr \in [Hart -> BOOLEAN] /\ intena \in [Hart -> BOOLEAN] /\ noff \in [Hart -> {0, 1}]
      /\ lock \in [Lock -> Hart \cup {NoHart}]
      /\ HartOk(fr[h]["proc"], fr[h]["intr"], intr[h], noff[h], intena[h])
  BY DEF CtlInv, CtlType, HartsOk
<1>2. Me(h).pc = "spin" /\ Me(h) \in FrameRec
  BY TopIs DEF Spin, At, Me
<1>3. /\ f \in FrameRec /\ f.pc = Me(h).then /\ f.want = Me(h).want /\ f.then = Me(h).then
      /\ f.n = Me(h).n /\ Me(h).want \in Lock
  BY <1>2 DEF FrameRec
<1>4. \A l \in Lock : f.pc \in Under(l) <=> l = Me(h).want
  BY <1>2, <1>3, TopIs DEF IntrOk, ProcOk, Under, Lock
<1>5. f.pc \in Deep /\ f.pc \notin Outside
  BY <1>2, <1>3, TopIs DEF IntrOk, ProcOk, Deep, Outside
<1>6. /\ Top(h) = "intr" => IntrOk(f)
      /\ Top(h) = "proc" => ProcOk(f)
  <2>1. CASE Top(h) = "intr"
    BY <1>2, <1>3, <2>1, TopIs DEF IntrOk
  <2>2. CASE Top(h) = "proc"
    BY <1>2, <1>3, <2>2, TopIs DEF ProcOk, Outside
  <2> QED
    BY <2>1, <2>2
<1>7. /\ lock' = [lock EXCEPT ![Me(h).want] = h] /\ lock[Me(h).want] = NoHart
      /\ intr' = intr /\ noff' = noff /\ intena' = intena
  BY DEF Spin
<1>8. OnlyHart(h)
  BY <1>1, <1>3, <1>7 DEF OnlyHart
<1>9. \A l \in Lock : lock[l] # h
  BY <1>2, TopIs DEF CtlInv, LocksOwned, Under, Lock, Outside
<1>10. \A l \in Lock : lock'[l] = h <=> f.pc \in Under(l)
  BY <1>1, <1>3, <1>4, <1>7, <1>9
<1>11. /\ Top(h) = "intr" => HartOk(fr[h]["proc"], f, intr'[h], noff'[h], intena'[h])
       /\ Top(h) = "proc" => HartOk(f, fr[h]["intr"], intr'[h], noff'[h], intena'[h])
  BY <1>1, <1>2, <1>5, <1>6, <1>7, TopIs DEF HartOk, Deep, Outside
<1>12. Becomes(Frames(h, f))
  BY DEF Becomes, Spin, Goto
<1> HIDE DEF f
<1> QED
  BY <1>3, <1>8, <1>10, <1>11, <1>12, CtlTop

LEMMA CtlEnter ==
  ASSUME CtlInv, NEW h \in Hart, NEW f \in FrameRec, Enter(h, f),
         IntrOk(f), f.pc # "none", f.pc \notin Deep
  PROVE  CtlInv'
<1> DEFINE G == [fr EXCEPT ![h]["intr"] = f]
<1>1. /\ intr \in [Hart -> BOOLEAN] /\ intena \in [Hart -> BOOLEAN] /\ noff \in [Hart -> {0, 1}]
      /\ lock \in [Lock -> Hart \cup {NoHart}] /\ fr \in [Hart -> [Frame -> FrameRec]]
      /\ HartOk(fr[h]["proc"], fr[h]["intr"], intr[h], noff[h], intena[h])
  BY DEF CtlInv, CtlType, HartsOk
<1>2. /\ G \in [Hart -> [Frame -> FrameRec]] /\ \A k \in Hart \ {h} : G[k] = fr[k]
      /\ G[h]["intr"] = f /\ G[h]["proc"] = fr[h]["proc"]
  BY <1>1 DEF Frame
<1>3. /\ intr[h] /\ intr' = [intr EXCEPT ![h] = FALSE]
      /\ lock' = lock /\ noff' = noff /\ intena' = intena /\ fr' = G
  BY DEF Enter
<1>4. OnlyHart(h) /\ Becomes(G)
  BY <1>1, <1>3 DEF OnlyHart, Becomes
<1>5. HartOk(G[h]["proc"], G[h]["intr"], intr'[h], noff'[h], intena'[h])
  BY <1>1, <1>2, <1>3 DEF HartOk, Deep, Outside
<1>6. \A l \in Lock :
        lock'[l] = h <=> G[h]["proc"].pc \in Under(l) \/ G[h]["intr"].pc \in Under(l)
  BY <1>1, <1>2, <1>3 DEF CtlInv, LocksOwned, HartOk, Under, Lock, Deep
<1> HIDE DEF G
<1> QED
  BY <1>2, <1>4, <1>5, <1>6, CtlStep

LEMMA CtlLeave ==
  ASSUME CtlInv, NEW h \in Hart, LeaveIntr(h), Top(h) = "intr", Me(h).pc \notin Deep
  PROVE  CtlInv'
<1> DEFINE G == [fr EXCEPT ![h]["intr"] = Nil]
<1>1. /\ intr \in [Hart -> BOOLEAN] /\ intena \in [Hart -> BOOLEAN] /\ noff \in [Hart -> {0, 1}]
      /\ lock \in [Lock -> Hart \cup {NoHart}] /\ fr \in [Hart -> [Frame -> FrameRec]]
      /\ HartOk(fr[h]["proc"], fr[h]["intr"], intr[h], noff[h], intena[h])
  BY DEF CtlInv, CtlType, HartsOk
<1>2. Nil \in FrameRec /\ Nil.pc = "none" /\ IntrOk(Nil)
  BY UserFrame DEF Nil
<1>3. /\ G \in [Hart -> [Frame -> FrameRec]] /\ \A k \in Hart \ {h} : G[k] = fr[k]
      /\ G[h]["intr"] = Nil /\ G[h]["proc"] = fr[h]["proc"]
  BY <1>1, <1>2 DEF Frame
<1>4. /\ intr' = [intr EXCEPT ![h] = TRUE]
      /\ lock' = lock /\ noff' = noff /\ intena' = intena /\ fr' = G
  BY DEF LeaveIntr
<1>5. OnlyHart(h) /\ Becomes(G)
  BY <1>1, <1>4 DEF OnlyHart, Becomes
<1>6. HartOk(G[h]["proc"], G[h]["intr"], intr'[h], noff'[h], intena'[h])
  BY <1>1, <1>2, <1>3, <1>4, TopIs DEF HartOk, Deep, Outside
<1>7. \A l \in Lock :
        lock'[l] = h <=> G[h]["proc"].pc \in Under(l) \/ G[h]["intr"].pc \in Under(l)
  <2>1. \A l \in Lock : fr[h]["intr"].pc \notin Under(l) /\ "none" \notin Under(l)
    BY TopIs DEF Under, Lock, Deep
  <2> QED
    BY <1>2, <1>3, <1>4, <2>1 DEF CtlInv, LocksOwned
<1> HIDE DEF G
<1> QED
  BY <1>3, <1>5, <1>6, <1>7, CtlStep

LEMMA AcquiringFrame ==
  ASSUME NEW g \in FrameRec, NEW l \in Lock, NEW next \in Pc
  PROVE  /\ Acquiring(g, l, next) \in FrameRec
         /\ Acquiring(g, l, next).pc = "off" /\ Acquiring(g, l, next).want = l
         /\ Acquiring(g, l, next).then = next /\ Acquiring(g, l, next).n = g.n
BY DEF Acquiring, FrameRec, Pc

\* The steps of processes.
LEMMA CtlCall ==
  ASSUME CtlInv, NEW h \in Hart, env \in Environments, NEW call \in env.calls[h], Call(h, call)
  PROVE  CtlInv'
<1> DEFINE f == [User EXCEPT !.n = call.n, !.arg = call.n]
<1>1. call.op \in {"read", "write", "sleep"} /\ call.n \in 0 .. UINT
      /\ (call.op # "sleep" => call.n > 0)
  OBVIOUS
<1>2. /\ f \in FrameRec /\ f.n = call.n /\ [f EXCEPT !.arg = 0] \in FrameRec
      /\ [f EXCEPT !.arg = 0].n = call.n
  <2>1. f \in FrameRec /\ f.n = call.n
    BY <1>1, UserFrame DEF FrameRec
  <2> HIDE DEF f
  <2>2. 0 \in 0 .. UINT
    OBVIOUS
  <2> QED
    BY <2>1, <2>2 DEF FrameRec
<1>3. Me(h).pc = "user"
  BY DEF Call, At, Me
<1> HIDE DEF f
<1>4. PICK g \in FrameRec :
        /\ fr' = Frames(h, g) /\ g.pc = "off"
        /\ \/ g.want = "cons" /\ g.then = "read" /\ g.n > 0
           \/ g.want = "tx" /\ g.then = "write"
           \/ g.want = "ticks" /\ g.then = "ticks0"
  <2>1. CASE call.op = "read"
    <3>1. fr' = Frames(h, Acquiring(f, "cons", "read"))
      BY <2>1 DEF Call, f
    <3> QED
      BY <1>1, <1>2, <2>1, <3>1, AcquiringFrame DEF Lock, Pc
  <2>2. CASE call.op = "write"
    <3>1. fr' = Frames(h, Acquiring(f, "tx", "write"))
      BY <2>2 DEF Call, f
    <3> QED
      BY <1>2, <3>1, AcquiringFrame DEF Lock, Pc
  <2>3. CASE call.op = "sleep"
    <3>1. fr' = Frames(h, Acquiring([f EXCEPT !.arg = 0], "ticks", "ticks0"))
      BY <2>3 DEF Call, f
    <3> QED
      BY <1>2, <3>1, AcquiringFrame DEF Lock, Pc
  <2> QED
    BY <1>1, <2>1, <2>2, <2>3
<1>5. ProcOk(g) /\ Top(h) = "proc"
  BY <1>3, <1>4, TopIs DEF ProcOk, IntrOk, Outside
<1>6. /\ \A l \in Lock : g.pc \notin Under(l) /\ Me(h).pc \notin Under(l)
      /\ g.pc \notin Deep /\ Me(h).pc \notin Deep /\ g.pc \in Outside /\ Me(h).pc \in Outside
  BY <1>3, <1>4 DEF Under, Lock, Deep, Outside
<1>7. UNCHANGED cpuVars /\ Becomes(Frames(h, g))
  BY <1>4 DEF Call, Becomes
<1> QED
  BY <1>4, <1>5, <1>6, <1>7, CtlSame

LEMMA CtlKill == ASSUME CtlInv, NEW h \in Hart, Kill(h) PROVE CtlInv'
<1>1. /\ intr \in [Hart -> BOOLEAN] /\ intena \in [Hart -> BOOLEAN] /\ noff \in [Hart -> {0, 1}]
      /\ lock \in [Lock -> Hart \cup {NoHart}] /\ fr \in [Hart -> [Frame -> FrameRec]]
      /\ HartOk(fr[h]["proc"], fr[h]["intr"], intr[h], noff[h], intena[h])
  BY DEF CtlInv, CtlType, HartsOk
<1> DEFINE P2 == [fr[h]["proc"] EXCEPT !.pc = IF @ = "asleep" THEN "off" ELSE @]
<1>2. fr[h]["proc"] \in FrameRec /\ fr[h]["intr"] \in FrameRec /\ fr[h] \in [Frame -> FrameRec]
  BY <1>1 DEF Frame
<1>3. P2 \in FrameRec /\ Roused(P2, fr[h]["proc"])
  BY <1>2 DEF FrameRec, Pc, Roused
<1>4. fr' = [fr EXCEPT ![h] = [fr[h] EXCEPT !["proc"] = P2]]
  BY <1>1, <1>2 DEF Kill
<1> HIDE DEF P2
<1>5. /\ HartOk(P2, fr[h]["intr"], intr[h], noff[h], intena[h])
      /\ \A l \in Lock : P2.pc \in Under(l) <=> fr[h]["proc"].pc \in Under(l)
  BY <1>1, <1>2, <1>3, RousedOk
<1>6. /\ fr' \in [Hart -> [Frame -> FrameRec]] /\ \A k \in Hart \ {h} : fr'[k] = fr[k]
      /\ fr'[h]["proc"] = P2 /\ fr'[h]["intr"] = fr[h]["intr"]
  BY <1>1, <1>2, <1>3, <1>4 DEF Frame
<1>7. OnlyHart(h) /\ Becomes(fr') /\ lock' = lock
  BY <1>1 DEF OnlyHart, Becomes, Kill, cpuVars
<1>8. HartOk(fr'[h]["proc"], fr'[h]["intr"], intr'[h], noff'[h], intena'[h])
  BY <1>5, <1>6 DEF Kill, cpuVars
<1>9. \A l \in Lock :
        lock'[l] = h <=> fr'[h]["proc"].pc \in Under(l) \/ fr'[h]["intr"].pc \in Under(l)
  BY <1>5, <1>6, <1>7 DEF CtlInv, LocksOwned
<1> QED
  BY <1>6, <1>7, <1>8, <1>9, CtlStep

\* A process returns from its call, or sleeps.
LEMMA CtlReturn ==
  ASSUME CtlInv, NEW h \in Hart, NEW l \in Lock, release(h, l), Me(h).pc \in Under(l),
         Top(h) = "proc", fr' = Frames(h, User)
  PROVE  CtlInv'
<1>1. User \in FrameRec /\ ProcOk(User) /\ User.pc \in Outside /\ User.pc \notin Deep
  BY UserFrame DEF User, Nil, Outside, Deep
<1>2. Becomes(Frames(h, User))
  BY DEF Becomes
<1> QED
  BY <1>1, <1>2, CtlRelease

LEMMA CtlAsleep ==
  ASSUME CtlInv, NEW h \in Hart, NEW l \in Lock, release(h, l), Me(h).pc \in Under(l),
         Top(h) = "proc", NEW f \in FrameRec, fr' = Frames(h, f),
         f.pc = "asleep", f.want = l, f.n = Me(h).n,
         \/ l = "cons" /\ f.then = "read"
         \/ l = "tx" /\ f.then = "write"
         \/ l = "ticks" /\ f.then = "tick"
  PROVE  CtlInv'
<1>1. Me(h).pc = "read" \/ l # "cons"
  BY TopIs DEF ProcOk, Under, Outside, Lock
<1>2. ProcOk(f) /\ f.pc \in Outside /\ f.pc \notin Deep
  BY <1>1, TopIs DEF ProcOk, Outside, Deep
<1>3. Becomes(Frames(h, f))
  BY DEF Becomes
<1> QED
  BY <1>2, <1>3, CtlRelease

LEMMA CtlRead == ASSUME CtlInv, NEW h \in Hart, ReadWait(h) \/ ReadTake(h) PROVE CtlInv'
<1>1. /\ Me(h).pc = "read" /\ Me(h) \in FrameRec /\ Top(h) = "proc" /\ Me(h).n > 0
      /\ Me(h).want = "cons" /\ Me(h).then = "read"
  BY TopIs DEF ReadWait, ReadTake, At, Me, IntrOk, ProcOk
<1>2. "cons" \in Lock /\ Me(h).pc \in Under("cons")
  BY <1>1 DEF Lock, Under
<1>3. CASE release(h, "cons") /\ Return(h)
  BY <1>1, <1>2, <1>3, CtlReturn DEF Return
<1>4. CASE sleep(h, "cons")
  <2> DEFINE f == [Me(h) EXCEPT !.pc = "asleep"]
  <2>1. f \in FrameRec /\ f.pc = "asleep" /\ f.want = "cons" /\ f.then = "read" /\ f.n = Me(h).n
    BY <1>1 DEF FrameRec, Pc
  <2>2. release(h, "cons") /\ fr' = Frames(h, f)
    BY <1>4 DEF sleep, Goto
  <2> HIDE DEF f
  <2> QED
    BY <1>1, <1>2, <2>1, <2>2, CtlAsleep
<1>5. CASE /\ Me(h).n # 1 /\ fr' = Frames(h, [Me(h) EXCEPT !.n = @ - 1])
           /\ UNCHANGED cpuVars
  <2> DEFINE f == [Me(h) EXCEPT !.n = @ - 1]
  <2>1. f \in FrameRec /\ f.pc = "read" /\ f.want = "cons" /\ f.then = "read" /\ f.n > 0
    <3>1. Me(h).n \in 0 .. UINT
      BY <1>1 DEF FrameRec
    <3>2. Me(h).n - 1 \in 0 .. UINT /\ Me(h).n - 1 > 0
      BY <1>1, <1>5, <3>1
    <3> QED
      BY <1>1, <3>2 DEF FrameRec
  <2>2. Becomes(Frames(h, f))
    BY <1>5 DEF Becomes
  <2> HIDE DEF f
  <2>3. ProcOk(f)
    BY <2>1 DEF ProcOk
  <2> QED
    BY <1>1, <1>5, <2>1, <2>2, <2>3, CtlSame
<1> QED
  BY <1>3, <1>4, <1>5 DEF ReadWait, ReadTake

LEMMA CtlWritePut == ASSUME CtlInv, NEW h \in Hart, WritePut(h) PROVE CtlInv'
<1>1. /\ Me(h).pc = "write" /\ Me(h) \in FrameRec /\ Top(h) = "proc"
      /\ Me(h).want = "tx" /\ Me(h).then = "write"
  BY TopIs DEF WritePut, At, Me, IntrOk, ProcOk
<1>2. "tx" \in Lock /\ Me(h).pc \in Under("tx")
  BY <1>1 DEF Lock, Under
<1>3. CASE sleep(h, "tx")
  <2> DEFINE f == [Me(h) EXCEPT !.pc = "asleep"]
  <2>1. f \in FrameRec /\ f.pc = "asleep" /\ f.want = "tx" /\ f.then = "write" /\ f.n = Me(h).n
    BY <1>1 DEF FrameRec, Pc
  <2>2. release(h, "tx") /\ fr' = Frames(h, f)
    BY <1>3 DEF sleep, Goto
  <2> HIDE DEF f
  <2> QED
    BY <1>1, <1>2, <2>1, <2>2, CtlAsleep
<1>4. CASE Goto(h, "start") /\ UNCHANGED cpuVars
  <2> DEFINE f == [Me(h) EXCEPT !.pc = "start"]
  <2>1. f \in FrameRec /\ f.pc = "start"
    BY <1>1 DEF FrameRec, Pc
  <2>2. Becomes(Frames(h, f))
    BY <1>4 DEF Becomes, Goto
  <2> HIDE DEF f
  <2>3. ProcOk(f) /\ \A l \in Lock : f.pc \in Under(l) <=> Me(h).pc \in Under(l)
    BY <1>1, <2>1 DEF ProcOk, Under, Lock
  <2> QED
    BY <1>1, <1>4, <2>1, <2>2, <2>3, CtlSame DEF Deep, Outside
<1> QED
  BY <1>3, <1>4 DEF WritePut

LEMMA CtlSleep ==
  ASSUME CtlInv, ticks \in 0 .. UINT - 1, NEW h \in Hart, SleepStart(h) \/ SleepTick(h)
  PROVE  CtlInv'
<1>1. Me(h).pc \in {"ticks0", "tick"} /\ Me(h) \in FrameRec /\ Top(h) = "proc"
      /\ Me(h).want = "ticks"
  BY TopIs DEF SleepStart, SleepTick, At, Me, IntrOk, ProcOk
<1>2. "ticks" \in Lock /\ Me(h).pc \in Under("ticks")
  BY <1>1 DEF Lock, Under
<1>3. CASE release(h, "ticks") /\ Return(h)
  BY <1>1, <1>2, <1>3, CtlReturn DEF Return
<1>4. CASE release(h, "ticks") /\ fr' = Frames(h, [Me(h) EXCEPT !.pc = "asleep", !.then = "tick"])
  <2> DEFINE f == [Me(h) EXCEPT !.pc = "asleep", !.then = "tick"]
  <2>1. f \in FrameRec /\ f.pc = "asleep" /\ f.want = "ticks" /\ f.then = "tick" /\ f.n = Me(h).n
    BY <1>1 DEF FrameRec, Pc
  <2> HIDE DEF f
  <2> QED
    BY <1>1, <1>2, <1>4, <2>1, CtlAsleep DEF f
<1>5. CASE SleepStart(h)
  <2> DEFINE f == [Me(h) EXCEPT !.pc = "tick", !.arg = ticks]
  <2>0. ticks \in 0 .. UINT
    OBVIOUS
  <2>1. f \in FrameRec /\ f.pc = "tick" /\ f.want = "ticks"
    BY <1>1, <2>0 DEF FrameRec, Pc
  <2>2. Becomes(Frames(h, f)) /\ UNCHANGED cpuVars
    BY <1>5 DEF Becomes, SleepStart
  <2> HIDE DEF f
  <2>3. ProcOk(f) /\ \A l \in Lock : f.pc \in Under(l) <=> Me(h).pc \in Under(l)
    BY <1>1, <2>1 DEF ProcOk, Under, Lock
  <2> QED
    BY <1>1, <2>1, <2>2, <2>3, CtlSame DEF Deep, Outside
<1> QED
  BY <1>3, <1>4, <1>5 DEF SleepTick

LEMMA CtlUart == ASSUME CtlInv, NEW h \in Hart, UartStart(h) \/ UartSent(h) PROVE CtlInv'
<1>1. Me(h).pc \in {"start", "sent"} /\ Me(h) \in FrameRec /\ Top(h) \in {"intr", "proc"}
  BY TopIs DEF UartStart, UartSent, At, Me
<1>2. "tx" \in Lock /\ Me(h).pc \in Under("tx")
  BY <1>1 DEF Lock, Under
<1>3. CASE Goto(h, "sent") /\ UNCHANGED cpuVars
  <2> DEFINE f == [Me(h) EXCEPT !.pc = "sent"]
  <2>1. f \in FrameRec /\ f.pc = "sent"
    BY <1>1 DEF FrameRec, Pc
  <2>2. Becomes(Frames(h, f))
    BY <1>3 DEF Becomes, Goto
  <2> HIDE DEF f
  <2>3. ProcOk(f) /\ IntrOk(f) /\ \A l \in Lock : f.pc \in Under(l) <=> Me(h).pc \in Under(l)
    BY <1>1, <2>1 DEF ProcOk, IntrOk, Under, Lock
  <2> QED
    BY <1>1, <1>3, <2>1, <2>2, <2>3, CtlSame DEF Deep, Outside
<1>4. CASE fr' = Woken(fr, "tx") /\ UNCHANGED cpuVars
  <2>1. fr \in [Hart -> [Frame -> FrameRec]] /\ OnlyHart(h) /\ lock' = lock
    BY <1>4 DEF CtlInv, CtlType, OnlyHart, cpuVars
  <2>2. Becomes(fr)
    BY <1>2, <1>4 DEF Becomes
  <2>3. HartOk(fr[h]["proc"], fr[h]["intr"], intr'[h], noff'[h], intena'[h])
    BY <1>4 DEF CtlInv, HartsOk, cpuVars
  <2>4. \A l \in Lock :
          lock'[l] = h <=> fr[h]["proc"].pc \in Under(l) \/ fr[h]["intr"].pc \in Under(l)
    BY <2>1 DEF CtlInv, LocksOwned
  <2> QED
    BY <2>1, <2>2, <2>3, <2>4, CtlStep
<1>5. CASE release(h, "tx") /\ Top(h) = "intr" /\ Goto(h, "complete")
  <2> DEFINE f == [Me(h) EXCEPT !.pc = "complete"]
  <2>1. f \in FrameRec /\ f.pc = "complete"
    BY <1>1 DEF FrameRec, Pc
  <2>2. Becomes(Frames(h, f))
    BY <1>5 DEF Becomes, Goto
  <2> HIDE DEF f
  <2>3. IntrOk(f) /\ f.pc \notin Deep /\ f.pc # "none"
    BY <2>1 DEF IntrOk, Deep
  <2> QED
    BY <1>2, <1>5, <2>1, <2>2, <2>3, CtlRelease
<1>6. CASE /\ release(h, "tx") /\ Top(h) # "intr" /\ Me(h).n > 1
           /\ fr' = Frames(h, Acquiring([Me(h) EXCEPT !.n = @ - 1], "tx", "write"))
  <2> DEFINE g == [Me(h) EXCEPT !.n = @ - 1]
             f == Acquiring(g, "tx", "write")
  <2>1. g \in FrameRec
    <3>1. Me(h).n \in 0 .. UINT
      BY <1>1 DEF FrameRec
    <3>2. Me(h).n - 1 \in 0 .. UINT
      BY <1>6, <3>1
    <3> QED
      BY <1>1, <3>2 DEF FrameRec
  <2> HIDE DEF g
  <2>2. f \in FrameRec /\ f.pc = "off" /\ f.want = "tx" /\ f.then = "write"
    BY <1>2, <2>1, AcquiringFrame DEF Pc
  <2>3. Becomes(Frames(h, f))
    BY <1>6 DEF Becomes, g
  <2> HIDE DEF f
  <2>4. ProcOk(f) /\ f.pc \notin Deep /\ f.pc \in Outside
    BY <2>2 DEF ProcOk, Deep, Outside
  <2> QED
    BY <1>1, <1>2, <1>6, <2>2, <2>3, <2>4, CtlRelease
<1>7. CASE release(h, "tx") /\ Top(h) # "intr" /\ Return(h)
  BY <1>1, <1>2, <1>7, CtlReturn DEF Return
<1> QED
  BY <1>3, <1>4, <1>5, <1>6, <1>7 DEF UartStart, UartSent

\* The steps of handlers.
LEMMA CtlTake == ASSUME CtlInv, NEW h \in Hart, TakeTimer(h) \/ TakeExternal(h) PROVE CtlInv'
<1>1. Nil \in FrameRec /\ "ticks" \in Lock /\ "clock" \in Pc
  BY UserFrame DEF Lock, Pc
<1>2. PICK f \in FrameRec :
        /\ Enter(h, f)
        /\ (f.pc = "off" /\ f.want = "ticks" /\ f.then = "clock") \/ f.pc \in {"ack", "claim"}
  <2>1. CASE TakeTimer(h) /\ h = Hart0
    <3> DEFINE f == Acquiring(Nil, "ticks", "clock")
    <3>1. f \in FrameRec /\ f.pc = "off" /\ f.want = "ticks" /\ f.then = "clock"
      BY <1>1, AcquiringFrame
    <3>2. Enter(h, f)
      BY <2>1 DEF TakeTimer
    <3> HIDE DEF f
    <3> QED
      BY <3>1, <3>2
  <2>2. CASE TakeTimer(h) /\ h # Hart0
    <3> DEFINE f == [Nil EXCEPT !.pc = "ack"]
    <3>1. f \in FrameRec /\ f.pc = "ack"
      BY <1>1 DEF FrameRec, Pc
    <3>2. Enter(h, f)
      BY <2>2 DEF TakeTimer
    <3> HIDE DEF f
    <3> QED
      BY <3>1, <3>2
  <2>3. CASE TakeExternal(h)
    <3> DEFINE f == [Nil EXCEPT !.pc = "claim"]
    <3>1. f \in FrameRec /\ f.pc = "claim"
      BY <1>1 DEF FrameRec, Pc
    <3>2. Enter(h, f)
      BY <2>3 DEF TakeExternal
    <3> HIDE DEF f
    <3> QED
      BY <3>1, <3>2
  <2> QED
    BY <2>1, <2>2, <2>3
<1>3. IntrOk(f) /\ f.pc # "none" /\ f.pc \notin Deep
  BY <1>2 DEF IntrOk, Deep
<1> QED
  BY <1>2, <1>3, CtlEnter

\* Where only handlers run.
LEMMA HandlerTop ==
  ASSUME CtlInv, NEW h \in Hart,
         Me(h).pc \in {"clock", "ack", "claim", "getc", "cons", "echo", "store", "consdone",
                       "complete"}
  PROVE  Top(h) = "intr"
BY TopIs DEF ProcOk, Outside

LEMMA CtlServe ==
  ASSUME CtlInv, rx \in Key \cup {"none"}, NEW h \in Hart,
         Clock(h) \/ Ack(h) \/ Claim(h) \/ Complete(h) \/ Getc(h)
  PROVE  CtlInv'
<1>1. /\ Me(h).pc \in {"clock", "ack", "claim", "complete", "getc"} /\ Me(h) \in FrameRec
      /\ Top(h) = "intr"
  BY TopIs, HandlerTop DEF Clock, Ack, Claim, Complete, Getc, At, Me
<1>2. CASE Clock(h)
  <2> DEFINE f == [Me(h) EXCEPT !.pc = "ack"]
  <2>1. f \in FrameRec /\ f.pc = "ack"
    BY <1>1 DEF FrameRec, Pc
  <2>2. "ticks" \in Lock /\ Me(h).pc \in Under("ticks")
    BY <1>2 DEF Lock, Under, Clock, At, Me
  <2>3. release(h, "ticks") /\ Becomes(Frames(h, f))
    BY <1>2, <2>2 DEF Clock, Becomes
  <2> HIDE DEF f
  <2>4. IntrOk(f) /\ f.pc # "none" /\ f.pc \notin Deep
    BY <2>1 DEF IntrOk, Deep
  <2> QED
    BY <1>1, <2>1, <2>2, <2>3, <2>4, CtlRelease
<1>3. CASE LeaveIntr(h) /\ Me(h).pc \in {"ack", "claim", "complete"}
  BY <1>1, <1>3, CtlLeave DEF Deep
<1>4. CASE Claim(h) /\ Goto(h, "getc") /\ UNCHANGED cpuVars
  <2> DEFINE f == [Me(h) EXCEPT !.pc = "getc"]
  <2>1. f \in FrameRec /\ f.pc = "getc" /\ Me(h).pc = "claim"
    BY <1>1, <1>4 DEF FrameRec, Pc, Claim, At, Me
  <2>2. Becomes(Frames(h, f))
    BY <1>4 DEF Becomes, Goto
  <2> HIDE DEF f
  <2>3. IntrOk(f) /\ \A l \in Lock : f.pc \notin Under(l) /\ Me(h).pc \notin Under(l)
    BY <2>1 DEF IntrOk, Under, Lock
  <2> QED
    BY <1>1, <1>4, <2>1, <2>2, <2>3, CtlSame DEF Deep
<1>5. CASE Getc(h)
  <2>0. "tx" \in Lock /\ "cons" \in Lock /\ "start" \in Pc /\ "cons" \in Pc
    BY DEF Lock, Pc
  <2>1. PICK f \in FrameRec :
          /\ fr' = Frames(h, f) /\ f.pc = "off"
          /\ \/ f.want = "tx" /\ f.then = "start"
             \/ f.want = "cons" /\ f.then = "cons"
    <3>1. CASE rx = "none"
      <4>1. fr' = Frames(h, Acquiring(Me(h), "tx", "start"))
        BY <1>5, <3>1 DEF Getc
      <4> QED
        BY <1>1, <2>0, <4>1, AcquiringFrame
    <3>2. CASE rx # "none"
      <4> DEFINE g == [Me(h) EXCEPT !.c = rx]
      <4>1. g \in FrameRec
        BY <1>1, <1>5, <3>2 DEF FrameRec
      <4>2. fr' = Frames(h, Acquiring(g, "cons", "cons"))
        BY <1>5, <3>2 DEF Getc
      <4> HIDE DEF g
      <4> QED
        BY <2>0, <4>1, <4>2, AcquiringFrame
    <3> QED
      BY <3>1, <3>2
  <2>2. Becomes(Frames(h, f)) /\ UNCHANGED cpuVars /\ Me(h).pc = "getc"
    BY <1>5, <2>1 DEF Becomes, Getc, At, Me
  <2>3. IntrOk(f) /\ \A l \in Lock : f.pc \notin Under(l) /\ Me(h).pc \notin Under(l)
    BY <2>1, <2>2 DEF IntrOk, Under, Lock
  <2> QED
    BY <1>1, <2>1, <2>2, <2>3, CtlSame DEF Deep
<1> QED
  BY <1>1, <1>2, <1>3, <1>4, <1>5 DEF Ack, Claim, Complete, At, Me

LEMMA CtlConsole ==
  ASSUME CtlInv, NEW h \in Hart, ConsoleIntr(h) \/ Echo(h) \/ Store(h) \/ ConsoleDone(h)
  PROVE  CtlInv'
<1>1. /\ Me(h).pc \in {"cons", "echo", "store", "consdone"} /\ Me(h) \in FrameRec
      /\ Top(h) = "intr" /\ IntrOk(Me(h))
  BY TopIs, HandlerTop DEF ConsoleIntr, Echo, Store, ConsoleDone, At, Me
<1>2. "cons" \in Lock /\ Me(h).pc \in Under("cons")
  BY <1>1 DEF Lock, Under
<1>3. ASSUME NEW f \in FrameRec, f.pc \in {"cons", "echo", "store", "consdone"},
             f.pc = "echo" => f.then \in {"store", "cons", "consdone"},
             Becomes(Frames(h, f)), UNCHANGED cpuVars
      PROVE  CtlInv'
  <2>1. IntrOk(f) /\ \A l \in Lock : f.pc \in Under(l) <=> Me(h).pc \in Under(l)
    BY <1>1, <1>3 DEF IntrOk, Under, Lock
  <2> QED
    BY <1>1, <1>3, <2>1, CtlSame DEF Deep
<1>4. CASE ConsoleIntr(h)
  <2>1. PICK p \in {"echo", "consdone"}, t \in {Me(h).then, "store", "cons", "consdone"} :
          /\ fr' = Frames(h, [Me(h) EXCEPT !.pc = p, !.then = t])
          /\ p = "echo" => t # Me(h).then \/ t \in {"store", "cons", "consdone"}
    <3>1. [Me(h) EXCEPT !.pc = "consdone"]
            = [Me(h) EXCEPT !.pc = "consdone", !.then = Me(h).then]
      BY <1>1 DEF FrameRec
    <3> QED
      BY <1>4, <3>1 DEF ConsoleIntr
  <2> DEFINE f == [Me(h) EXCEPT !.pc = p, !.then = t]
  <2>2. /\ f \in FrameRec /\ f.pc \in {"cons", "echo", "store", "consdone"}
        /\ f.pc = "echo" => f.then \in {"store", "cons", "consdone"}
    BY <1>1, <2>1 DEF FrameRec, Pc
  <2>3. Becomes(Frames(h, f)) /\ UNCHANGED cpuVars
    BY <1>4, <2>1 DEF Becomes, ConsoleIntr
  <2> HIDE DEF f
  <2> QED
    BY <1>3, <2>2, <2>3
<1>5. CASE Echo(h)
  <2> DEFINE f == [Me(h) EXCEPT !.pc = Me(h).then]
  <2>1. Me(h).then \in {"store", "cons", "consdone"} /\ Me(h).then \in Pc
    BY <1>1, <1>5 DEF Echo, At, Me, IntrOk, FrameRec
  <2>2. f \in FrameRec /\ f.pc \in {"store", "cons", "consdone"}
    BY <1>1, <2>1 DEF FrameRec
  <2>3. Becomes(Frames(h, f)) /\ UNCHANGED cpuVars
    BY <1>5 DEF Becomes, Echo, Goto
  <2> HIDE DEF f
  <2> QED
    BY <1>3, <2>2, <2>3
<1>6. CASE Store(h)
  <2> DEFINE f == [Me(h) EXCEPT !.pc = "consdone"]
  <2>1. f \in FrameRec /\ f.pc = "consdone"
    BY <1>1 DEF FrameRec, Pc
  <2>2. Becomes(Frames(h, f)) /\ UNCHANGED cpuVars
    BY <1>2, <1>6 DEF Becomes, Store
  <2> HIDE DEF f
  <2> QED
    BY <1>3, <2>1, <2>2
<1>7. CASE ConsoleDone(h)
  <2> DEFINE f == [Nil EXCEPT !.pc = "getc"]
  <2>1. f \in FrameRec /\ f.pc = "getc"
    BY UserFrame DEF FrameRec, Pc
  <2>2. Becomes(Frames(h, f)) /\ release(h, "cons")
    BY <1>7 DEF Becomes, ConsoleDone
  <2> HIDE DEF f
  <2>3. IntrOk(f) /\ f.pc # "none" /\ f.pc \notin Deep
    BY <2>1 DEF IntrOk, Deep
  <2> QED
    BY <1>1, <1>2, <2>1, <2>2, <2>3, CtlRelease
<1> QED
  BY <1>4, <1>5, <1>6, <1>7

LEMMA CtlInit == Init => CtlInv
<1> SUFFICES ASSUME Init PROVE CtlInv
  OBVIOUS
<1>1. \A h \in Hart : fr[h]["proc"] = User /\ fr[h]["intr"] = Nil
  BY DEF Init, Frame
<1>2. User.pc = "user" /\ Nil.pc = "none"
  BY DEF User, Nil
<1>3. CtlType
  BY UserFrame DEF Init, CtlType, Frame
<1>4. HartsOk
  BY <1>1, <1>2, UserFrame DEF Init, HartsOk, HartOk, Deep, Outside
<1>5. LocksOwned
  <2>1. \A l \in Lock : "user" \notin Under(l) /\ "none" \notin Under(l)
    BY DEF Under, Lock
  <2>2. \A l \in Lock, h \in Hart : lock[l] # h
    BY DEF Init
  <2> QED
    BY <1>1, <1>2, <2>1, <2>2 DEF LocksOwned
<1> QED
  BY <1>3, <1>4, <1>5 DEF CtlInv

LEMMA CtlNext ==
  ASSUME CtlInv, env \in Environments, ticks \in 0 .. UINT - 1, rx \in Key \cup {"none"},
         [Next]_vars
  PROVE  CtlInv'
<1>1. ASSUME NEW h \in Hart, Step(h) PROVE CtlInv'
  BY <1>1, CtlPushOff, CtlSpin, CtlRead, CtlWritePut, CtlUart, CtlSleep, CtlServe, CtlConsole
     DEF Step
<1>2. ASSUME NEW h \in Hart, TakeTimer(h) \/ TakeExternal(h) PROVE CtlInv'
  BY <1>2, CtlTake
<1>3. ASSUME NEW h \in Hart, NEW call \in env.calls[h], Call(h, call) PROVE CtlInv'
  BY <1>3, CtlCall
<1>4. ASSUME UNCHANGED <<cpuVars, fr>> PROVE CtlInv'
  BY <1>4 DEF CtlInv, CtlType, HartsOk, LocksOwned, cpuVars
<1>5. CASE UNCHANGED vars
  BY <1>4, <1>5 DEF vars, cpuVars
<1>6. CASE \E h \in Hart : Timer(h)
  BY <1>4, <1>6 DEF Timer
<1>7. CASE Transmitted \/ \E c \in env.keys : Type(c)
  BY <1>4, <1>7 DEF Transmitted, Type
<1> QED
  BY <1>1, <1>2, <1>3, <1>5, <1>6, <1>7, CtlKill DEF Next

-----------------------------------------------------------------------------
(* The data: steps that only move a hart.                                  *)

\* Hart h goes on with P and Q, and sleepers may be woken.
Moves(h, P, Q) ==
  /\ \A k \in Hart \ {h} :
       fr'[k]["intr"] = fr[k]["intr"] /\ Roused(fr'[k]["proc"], fr[k]["proc"])
  /\ fr'[h]["intr"] = Q /\ Roused(fr'[h]["proc"], P)

LEMMA MovesTop ==
  ASSUME CtlInv, NEW h \in Hart, NEW f,
         fr' = Frames(h, f) \/ (f \in FrameRec /\ Becomes(Frames(h, f)))
  PROVE  /\ Top(h) = "intr" => Moves(h, fr[h]["proc"], f)
         /\ Top(h) = "proc" => Moves(h, f, fr[h]["intr"])
<1> DEFINE G == Frames(h, f)
<1>1. /\ f \in FrameRec => G \in [Hart -> [Frame -> FrameRec]]
      /\ \A k \in Hart \ {h} : G[k] = fr[k]
      /\ Top(h) = "intr" => G[h]["intr"] = f /\ G[h]["proc"] = fr[h]["proc"]
      /\ Top(h) = "proc" => G[h]["proc"] = f /\ G[h]["intr"] = fr[h]["intr"]
  BY FramesAre
<1>2. fr' = G \/ (f \in FrameRec /\ \E l \in Lock : fr' = Woken(G, l))
  BY DEF Becomes
<1> HIDE DEF G
<1>3. \A k \in Hart : fr'[k]["intr"] = G[k]["intr"] /\ Roused(fr'[k]["proc"], G[k]["proc"])
  <2>1. CASE fr' = G
    BY <2>1 DEF Roused
  <2>2. CASE f \in FrameRec /\ \E l \in Lock : fr' = Woken(G, l)
    BY <1>1, <2>2, WokenAre
  <2> QED
    BY <1>2, <2>1, <2>2
<1> QED
  BY <1>1, <1>3 DEF Moves

LEMMA SleepKept ==
  ASSUME CtlInv, SleepInv, NEW h \in Hart, NEW P, NEW Q, Moves(h, P, Q),
         P = fr[h]["proc"] \/ P.pc # "asleep",
         ticks' = ticks, cons.ready = 0 => cons'.ready = 0,
         ntx = UART_TX_BUF_SIZE => ntx' = UART_TX_BUF_SIZE
  PROVE  SleepInv'
<1>1. ASSUME NEW k \in Hart, fr'[k]["proc"].pc = "asleep"
      PROVE  fr'[k]["proc"] = fr[k]["proc"]
  <2>0. fr[k]["proc"] \in FrameRec
    BY DEF CtlInv, CtlType, Frame
  <2>1. ASSUME NEW P1, Roused(fr'[k]["proc"], P1), P1 \in FrameRec \/ P1.pc # "asleep"
        PROVE  fr'[k]["proc"] = P1
    BY <1>1, <2>1 DEF Roused, FrameRec
  <2> QED
    BY <1>1, <2>0, <2>1 DEF Moves
<1>2. \A k \in Hart, l \in Lock : Sleeping(k, l)' => Sleeping(k, l)
  BY <1>1 DEF Sleeping
<1>3. "cons" \in Lock /\ "tx" \in Lock /\ "ticks" \in Lock
  BY DEF Lock
<1>4. \A k \in Hart : Sleeping(k, "ticks")' =>
        /\ fr'[k]["proc"] = fr[k]["proc"]
        /\ Elapsed(fr[k]["proc"]) < fr[k]["proc"].n
  BY <1>1, <1>2, <1>3 DEF Sleeping, SleepInv
<1>5. \A k \in Hart : Sleeping(k, "ticks")' => (Elapsed(fr[k]["proc"]) < fr[k]["proc"].n)'
  BY <1>4 DEF Elapsed
<1> QED
  BY <1>2, <1>3, <1>5 DEF SleepInv

LEMMA RingKept ==
  ASSUME RingInv, NEW h \in Hart, NEW P, NEW Q, Moves(h, P, Q),
         Q = fr[h]["intr"] \/ RoomFound(Q),
         cons' = cons, rx' \in Key \cup {"none"}
  PROVE  RingInv'
BY DEF RingInv, RoomFound, Moves, Used

LEMMA OutKept ==
  ASSUME OutInv, NEW h \in Hart, NEW P, NEW Q, Moves(h, P, Q),
         Starts(fr[h]["intr"]) => Starts(Q), fr[h]["proc"].pc = "start" => P.pc = "start",
         ntx' \in 0 .. UART_TX_BUF_SIZE, ntx' > 0 => ntx > 0,
         thr' \in BOOLEAN, uirq' \in BOOLEAN,
         thr => thr' \/ uirq', uirq => thr' \/ uirq' \/ Starts(Q)
  PROVE  OutInv'
<1>1. \A k \in Hart : Starts(fr[k]["intr"]) => Starts(fr'[k]["intr"])
  BY DEF Moves
<1>2. \A k \in Hart : fr[k]["proc"].pc = "start" => fr'[k]["proc"].pc = "start"
  BY DEF Moves, Roused
<1>3. fr'[h]["intr"] = Q
  BY DEF Moves
<1> HIDE DEF Starts
<1>4. ASSUME ntx' > 0
      PROVE  \/ thr' \/ uirq'
             \/ \E k \in Hart : Starts(fr'[k]["intr"])
             \/ \E k \in Hart : fr'[k]["proc"].pc = "start"
  BY <1>1, <1>2, <1>3, <1>4 DEF OutInv
<1>5. (\E k \in Hart : Starts(fr[k]["intr"]))' <=> \E k \in Hart : Starts(fr'[k]["intr"])
  BY DEF Starts
<1> QED
  BY <1>4, <1>5 DEF OutInv

\* A step that leaves the data alone.
LEMMA Quiet ==
  ASSUME CtlInv, DataInv, NEW h \in Hart, NEW P, NEW Q, Moves(h, P, Q),
         P = fr[h]["proc"] \/ P.pc # "asleep",
         fr[h]["proc"].pc = "start" => P.pc = "start",
         Q = fr[h]["intr"] \/ RoomFound(Q),
         Starts(fr[h]["intr"]) => Starts(Q),
         UNCHANGED <<ticks, cons, ntx>>, rx' \in Key \cup {"none"},
         thr' = thr, uirq' \in BOOLEAN, uirq => uirq' \/ Starts(Q)
  PROVE  DataInv'
<1>1. SleepInv /\ RingInv /\ OutInv
  BY DEF DataInv
<1>2. SleepInv' 
  BY <1>1, SleepKept
<1>3. RingInv'
  BY <1>1, RingKept
<1>4. OutInv'
  <2>1. ntx' \in 0 .. UART_TX_BUF_SIZE /\ (ntx' > 0 => ntx > 0) /\ thr' \in BOOLEAN
    BY <1>1 DEF OutInv
  <2> QED
    BY <1>1, <2>1, OutKept
<1> QED
  BY <1>2, <1>3, <1>4 DEF DataInv

LEMMA QuietTop ==
  ASSUME CtlInv, DataInv, NEW h \in Hart, NEW f, fr' = Frames(h, f),
         Top(h) = "proc" => f.pc # "asleep" /\ Me(h).pc # "start",
         Top(h) = "intr" => RoomFound(f) /\ (Starts(Me(h)) => Starts(f)),
         UNCHANGED <<ticks, cons, ntx, rx, thr, uirq>>
  PROVE  DataInv'
<1>1. rx' \in Key \cup {"none"} /\ uirq' \in BOOLEAN /\ (uirq => uirq')
  BY DEF DataInv, RingInv, OutInv
<1>2. CASE Top(h) = "intr"
  <2>1. Moves(h, fr[h]["proc"], f) /\ Me(h) = fr[h]["intr"]
    BY <1>2, MovesTop, TopIs
  <2> QED
    BY <1>1, <1>2, <2>1, Quiet
<1>3. CASE Top(h) = "proc"
  <2>1. Moves(h, f, fr[h]["intr"]) /\ Me(h) = fr[h]["proc"]
    BY <1>3, MovesTop, TopIs
  <2> QED
    BY <1>1, <1>3, <2>1, Quiet
<1> QED
  BY <1>2, <1>3, TopIs

LEMMA DataAcquire == ASSUME CtlInv, DataInv, NEW h \in Hart, PushOff(h) \/ Spin(h) PROVE DataInv'
<1>1. Me(h).pc \in {"off", "spin"} /\ Me(h) \in FrameRec
  BY TopIs DEF PushOff, Spin, At, Me
<1>2. PICK p \in {"spin", Me(h).then} :
        fr' = Frames(h, [Me(h) EXCEPT !.pc = p]) /\ (p = "spin" \/ Me(h).pc = "spin")
  BY DEF PushOff, Spin, Goto, At, Me
<1> DEFINE f == [Me(h) EXCEPT !.pc = p]
<1>3. f.pc = p /\ f.want = Me(h).want /\ f.then = Me(h).then
  BY <1>1 DEF FrameRec
<1>4. fr' = Frames(h, f)
  BY <1>2
<1> HIDE DEF f
<1>5. Top(h) = "proc" => f.pc # "asleep" /\ Me(h).pc # "start"
  BY <1>1, <1>2, <1>3, TopIs DEF ProcOk
<1>6. Top(h) = "intr" => RoomFound(f) /\ (Starts(Me(h)) => Starts(f))
  BY <1>1, <1>2, <1>3, TopIs DEF IntrOk, RoomFound, Starts
<1>7. UNCHANGED <<ticks, cons, ntx, rx, thr, uirq>>
  BY DEF PushOff, Spin, uartVars
<1> QED
  BY <1>4, <1>5, <1>6, <1>7, QuietTop

LEMMA DataCall ==
  ASSUME CtlInv, DataInv, NEW h \in Hart, env \in Environments, NEW call \in env.calls[h],
         Call(h, call)
  PROVE  DataInv'
<1>1. Me(h).pc = "user" /\ Top(h) = "proc"
  BY TopIs DEF Call, At, Me, IntrOk
<1>2. call.op \in {"read", "write", "sleep"}
  OBVIOUS
<1>3. PICK f : fr' = Frames(h, f) /\ f.pc = "off"
  <2> DEFINE g == [User EXCEPT !.n = call.n, !.arg = call.n]
  <2>1. \A l, p : Acquiring(g, l, p).pc = "off" /\ Acquiring([g EXCEPT !.arg = 0], l, p).pc = "off"
    BY DEF Acquiring, User, Nil
  <2>2. \E l, p : fr' = Frames(h, Acquiring(g, l, p))
                   \/ fr' = Frames(h, Acquiring([g EXCEPT !.arg = 0], l, p))
    BY <1>2 DEF Call
  <2> QED
    BY <2>1, <2>2
<1>4. UNCHANGED <<ticks, cons, ntx, rx, thr, uirq>>
  BY DEF Call, uartVars
<1> QED
  BY <1>1, <1>3, <1>4, QuietTop

LEMMA DataReturn ==
  ASSUME CtlInv, DataInv, NEW h \in Hart, Top(h) = "proc", Me(h).pc # "start",
         fr' = Frames(h, User), UNCHANGED <<ticks, cons, ntx, rx, thr, uirq>>
  PROVE  DataInv'
<1>1. User.pc # "asleep"
  BY DEF User, Nil
<1> QED
  BY <1>1, QuietTop

LEMMA DataKill == ASSUME CtlInv, DataInv, NEW h \in Hart, Kill(h) PROVE DataInv'
<1>1. fr \in [Hart -> [Frame -> FrameRec]] /\ fr[h] \in [Frame -> FrameRec]
      /\ fr[h]["proc"] \in FrameRec
  BY DEF CtlInv, CtlType, Frame
<1> DEFINE P2 == [fr[h]["proc"] EXCEPT !.pc = IF @ = "asleep" THEN "off" ELSE @]
<1>2. Roused(P2, fr[h]["proc"])
  BY <1>1 DEF FrameRec, Roused
<1>3. fr' = [fr EXCEPT ![h] = [fr[h] EXCEPT !["proc"] = P2]]
  BY <1>1 DEF Kill
<1> HIDE DEF P2
<1>4. Moves(h, fr[h]["proc"], fr[h]["intr"])
  BY <1>1, <1>2, <1>3 DEF Moves, Frame, Roused
<1>5. UNCHANGED <<ticks, cons, ntx, rx, thr, uirq>>
  BY DEF Kill, uartVars
<1>6. rx' \in Key \cup {"none"} /\ uirq' \in BOOLEAN
  BY <1>5 DEF DataInv, RingInv, OutInv
<1> QED
  BY <1>4, <1>5, <1>6, Quiet

\* A process goes to sleep for what is not there.
LEMMA DataAsleep ==
  ASSUME CtlInv, DataInv, NEW h \in Hart, Top(h) = "proc", Me(h).pc # "start",
         NEW f, fr' = Frames(h, f),
         f.want = "cons" => cons.ready = 0,
         f.want = "tx" => ntx = UART_TX_BUF_SIZE,
         f.want = "ticks" => Elapsed(f) < f.n,
         UNCHANGED <<ticks, cons, ntx, rx, thr, uirq>>
  PROVE  DataInv'
<1>1. Moves(h, f, fr[h]["intr"]) /\ Me(h) = fr[h]["proc"]
  BY MovesTop, TopIs
<1>2. SleepInv /\ RingInv /\ OutInv
  BY DEF DataInv
<1>3. RingInv'
  <2>1. rx' \in Key \cup {"none"}
    BY <1>2 DEF RingInv
  <2> QED
    BY <1>1, <1>2, <2>1, RingKept
<1>4. OutInv'
  <2>1. ntx' \in 0 .. UART_TX_BUF_SIZE /\ thr' \in BOOLEAN /\ uirq' \in BOOLEAN
    BY <1>2 DEF OutInv
  <2> QED
    BY <1>1, <1>2, <2>1, OutKept
<1>5. SleepInv'
  <2>1. /\ \A k \in Hart \ {h} : fr'[k]["proc"] = fr[k]["proc"]
        /\ fr'[h]["proc"] = f
    BY FramesAre
  <2>2. ASSUME NEW k \in Hart
        PROVE  /\ Sleeping(k, "cons")' => cons'.ready = 0
               /\ Sleeping(k, "tx")' => ntx' = UART_TX_BUF_SIZE
               /\ Sleeping(k, "ticks")' => (Elapsed(fr[k]["proc"]) < fr[k]["proc"].n)'
    <3>1. CASE k = h
      BY <2>1, <3>1 DEF Sleeping, Elapsed
    <3>2. CASE k # h
      BY <1>2, <2>1, <3>2 DEF Sleeping, SleepInv, Elapsed
    <3> QED
      BY <3>1, <3>2
  <2> QED
    BY <1>2, <2>2 DEF SleepInv
<1> QED
  BY <1>3, <1>4, <1>5 DEF DataInv

LEMMA DataReadWait == ASSUME CtlInv, DataInv, NEW h \in Hart, ReadWait(h) PROVE DataInv'
<1>1. Me(h).pc = "read" /\ Me(h).want = "cons" /\ Me(h) \in FrameRec /\ Top(h) = "proc"
      /\ cons.ready = 0
  BY TopIs DEF ReadWait, At, Me, IntrOk, ProcOk
<1>2. UNCHANGED <<ticks, cons, ntx, rx, thr, uirq>>
  BY DEF ReadWait, uartVars
<1>3. CASE Return(h)
  BY <1>1, <1>2, <1>3, DataReturn DEF Return
<1>4. CASE sleep(h, "cons")
  <2> DEFINE f == [Me(h) EXCEPT !.pc = "asleep"]
  <2>1. f.want = "cons"
    BY <1>1 DEF FrameRec
  <2>2. fr' = Frames(h, f)
    BY <1>4 DEF sleep, Goto
  <2> HIDE DEF f
  <2> QED
    BY <1>1, <1>2, <2>1, <2>2, DataAsleep
<1> QED
  BY <1>3, <1>4 DEF ReadWait

LEMMA DataSleep ==
  ASSUME CtlInv, DataInv, NEW h \in Hart, SleepStart(h) \/ SleepTick(h)
  PROVE  DataInv'
<1>1. Me(h).pc \in {"ticks0", "tick"} /\ Me(h).want = "ticks" /\ Me(h) \in FrameRec
      /\ Top(h) = "proc"
  BY TopIs DEF SleepStart, SleepTick, At, Me, IntrOk, ProcOk
<1>2. UNCHANGED <<ticks, cons, ntx, rx, thr, uirq>>
  BY DEF SleepStart, SleepTick, uartVars
<1>3. CASE Return(h)
  BY <1>1, <1>2, <1>3, DataReturn DEF Return
<1>4. CASE SleepStart(h)
  <2> DEFINE f == [Me(h) EXCEPT !.pc = "tick", !.arg = ticks]
  <2>1. f.pc = "tick"
    BY <1>1 DEF FrameRec
  <2>2. fr' = Frames(h, f)
    BY <1>4 DEF SleepStart
  <2> HIDE DEF f
  <2> QED
    BY <1>1, <1>2, <2>1, <2>2, QuietTop
<1>5. CASE /\ ~ (Elapsed(Me(h)) >= Me(h).n)
           /\ fr' = Frames(h, [Me(h) EXCEPT !.pc = "asleep", !.then = "tick"])
  <2> DEFINE f == [Me(h) EXCEPT !.pc = "asleep", !.then = "tick"]
  <2>1. f.want = "ticks" /\ f.n = Me(h).n /\ f.arg = Me(h).arg
    BY <1>1 DEF FrameRec
  <2>2. fr' = Frames(h, f)
    BY <1>5
  <2>3. Me(h).n \in Nat /\ Elapsed(Me(h)) \in Int
    <3>1. Me(h).arg \in 0 .. UINT /\ Me(h).n \in 0 .. UINT
      BY <1>1 DEF FrameRec
    <3>2. ticks + UINT - Me(h).arg \in Int
      BY <3>1 DEF DataInv, SleepInv
    <3> QED
      BY <3>1, <3>2 DEF Elapsed
  <2>4. Elapsed(f) < f.n
    BY <1>5, <2>1, <2>3 DEF Elapsed
  <2> HIDE DEF f
  <2> QED
    BY <1>1, <1>2, <2>1, <2>2, <2>4, DataAsleep
<1> QED
  BY <1>3, <1>4, <1>5 DEF SleepTick

LEMMA DataTake ==
  ASSUME CtlInv, DataInv, NEW h \in Hart, TakeTimer(h) \/ TakeExternal(h)
  PROVE  DataInv'
<1>1. PICK f : Enter(h, f) /\ f.pc \in {"off", "ack", "claim"}
  <2>1. /\ Acquiring(Nil, "ticks", "clock").pc = "off"
        /\ [Nil EXCEPT !.pc = "ack"].pc = "ack" /\ [Nil EXCEPT !.pc = "claim"].pc = "claim"
    BY DEF Acquiring, Nil
  <2> QED
    BY <2>1 DEF TakeTimer, TakeExternal
<1>2. fr \in [Hart -> [Frame -> FrameRec]] /\ fr[h]["intr"].pc = "none"
  BY <1>1 DEF CtlInv, CtlType, HartsOk, HartOk, Enter
<1>3. Moves(h, fr[h]["proc"], f)
  BY <1>1, <1>2 DEF Enter, Moves, Frame, Roused
<1>4. UNCHANGED <<ticks, cons, ntx, rx, thr, uirq>>
  BY <1>1 DEF Enter, uartVars
<1>5. rx' \in Key \cup {"none"} /\ uirq' \in BOOLEAN
  BY <1>4 DEF DataInv, RingInv, OutInv
<1>6. RoomFound(f) /\ ~ Starts(fr[h]["intr"])
  BY <1>1, <1>2 DEF RoomFound, Starts
<1> QED
  BY <1>3, <1>4, <1>5, <1>6, Quiet

LEMMA DataLeave ==
  ASSUME CtlInv, DataInv, NEW h \in Hart, LeaveIntr(h), Top(h) = "intr",
         Me(h).pc \in {"ack", "claim", "complete"}, UNCHANGED <<rx, thr, uirq>>
  PROVE  DataInv'
<1>1. fr \in [Hart -> [Frame -> FrameRec]] /\ Me(h) = fr[h]["intr"]
  BY TopIs DEF CtlInv, CtlType
<1>2. Moves(h, fr[h]["proc"], Nil)
  BY <1>1 DEF LeaveIntr, Moves, Frame, Roused
<1>3. RoomFound(Nil) /\ ~ Starts(fr[h]["intr"])
  BY <1>1 DEF RoomFound, Nil, Starts
<1>4. rx' \in Key \cup {"none"} /\ uirq' \in BOOLEAN /\ UNCHANGED <<ticks, cons, ntx>>
  BY DEF DataInv, RingInv, OutInv, LeaveIntr
<1> QED
  BY <1>2, <1>3, <1>4, Quiet

LEMMA DataServe ==
  ASSUME CtlInv, DataInv, NEW h \in Hart, Ack(h) \/ Claim(h) \/ Complete(h) \/ Getc(h)
  PROVE  DataInv'
<1>1. /\ Me(h).pc \in {"ack", "claim", "complete", "getc"} /\ Me(h) \in FrameRec
      /\ Top(h) = "intr" /\ Me(h) = fr[h]["intr"]
  BY TopIs, HandlerTop DEF Ack, Claim, Complete, Getc, At, Me
<1>2. CASE LeaveIntr(h) /\ Me(h).pc # "getc" /\ UNCHANGED <<rx, thr, uirq>>
  BY <1>1, <1>2, DataLeave
<1>3. CASE Claim(h) /\ uirq' = FALSE /\ Goto(h, "getc") /\ UNCHANGED <<ticks, cons, ntx>>
  <2> DEFINE f == [Me(h) EXCEPT !.pc = "getc"]
  <2>1. f.pc = "getc"
    BY <1>1 DEF FrameRec
  <2>2. fr' = Frames(h, f) /\ UNCHANGED <<ticks, cons, ntx, rx, thr>>
    BY <1>3 DEF Goto, Claim
  <2> HIDE DEF f
  <2>3. Moves(h, fr[h]["proc"], f)
    BY <1>1, <2>2, MovesTop
  <2>4. RoomFound(f) /\ Starts(f)
    BY <2>1 DEF RoomFound, Starts
  <2>5. rx' \in Key \cup {"none"} /\ uirq' \in BOOLEAN
    BY <1>3, <2>2 DEF DataInv, RingInv
  <2> QED
    BY <2>2, <2>3, <2>4, <2>5, Quiet
<1>4. CASE Getc(h)
  <2>1. PICK f : fr' = Frames(h, f) /\ f.pc = "off" /\ f.want # "ticks"
    <3>1. PICK g \in {Me(h), [Me(h) EXCEPT !.c = rx]}, l \in {"tx", "cons"},
                  p \in {"start", "cons"} :
            fr' = Frames(h, Acquiring(g, l, p))
      BY <1>4 DEF Getc
    <3>2. Acquiring(g, l, p).pc = "off" /\ Acquiring(g, l, p).want = l
      BY <1>1, <3>1 DEF Acquiring, FrameRec
    <3> QED
      BY <3>1, <3>2
  <2>2. Moves(h, fr[h]["proc"], f)
    BY <1>1, <2>1, MovesTop
  <2>3. RoomFound(f) /\ Starts(f)
    BY <2>1 DEF RoomFound, Starts
  <2>4. rx' = "none" /\ UNCHANGED <<ticks, cons, ntx, thr, uirq>>
    BY <1>4 DEF Getc
  <2>5. rx' \in Key \cup {"none"} /\ uirq' \in BOOLEAN
    BY <2>4 DEF DataInv, OutInv
  <2> QED
    BY <2>2, <2>3, <2>4, <2>5, Quiet
<1> QED
  BY <1>1, <1>2, <1>3, <1>4 DEF Ack, Claim, Complete, uartVars, At, Me

LEMMA DataClock == ASSUME CtlInv, DataInv, NEW h \in Hart, Clock(h) PROVE DataInv'
<1>1. Me(h).pc = "clock" /\ Me(h) \in FrameRec /\ Top(h) = "intr" /\ Me(h) = fr[h]["intr"]
  BY TopIs, HandlerTop DEF Clock, At, Me
<1> DEFINE f == [Me(h) EXCEPT !.pc = "ack"]
           G == Frames(h, f)
<1>2. f \in FrameRec /\ f.pc = "ack"
  BY <1>1 DEF FrameRec, Pc
<1>3. fr' = Woken(G, "ticks") /\ "ticks" \in Lock /\ ticks' = (ticks + 1) % UINT
      /\ UNCHANGED <<cons, ntx, rx, thr, uirq>>
  BY DEF Clock, uartVars, Lock
<1> HIDE DEF f
<1>4. /\ G \in [Hart -> [Frame -> FrameRec]]
      /\ \A k \in Hart : G[k]["proc"] = fr[k]["proc"]
  <2>1. /\ G \in [Hart -> [Frame -> FrameRec]] /\ \A k \in Hart \ {h} : G[k] = fr[k]
        /\ G[h]["proc"] = fr[h]["proc"]
    <3>1. /\ f \in FrameRec => Frames(h, f) \in [Hart -> [Frame -> FrameRec]]
          /\ \A k \in Hart \ {h} : Frames(h, f)[k] = fr[k]
          /\ Top(h) = "intr" => Frames(h, f)[h]["proc"] = fr[h]["proc"]
      BY FramesAre
    <3> QED
      BY <1>1, <1>2, <3>1
  <2> HIDE DEF G
  <2> QED
    BY <2>1
<1>5. Moves(h, fr[h]["proc"], f)
  <2>1. Becomes(G)
    BY <1>3 DEF Becomes
  <2> QED
    BY <1>1, <1>2, <2>1, MovesTop
<1> HIDE DEF G
<1>6. SleepInv /\ RingInv /\ OutInv
  BY DEF DataInv
<1>7. RingInv'
  <2>1. RoomFound(f) /\ rx' \in Key \cup {"none"}
    BY <1>2, <1>3, <1>6 DEF RoomFound, RingInv
  <2> QED
    BY <1>3, <1>5, <1>6, <2>1, RingKept
<1>8. OutInv'
  <2>1. ~ Starts(fr[h]["intr"])
    BY <1>1 DEF Starts
  <2>2. ntx' \in 0 .. UART_TX_BUF_SIZE /\ thr' \in BOOLEAN /\ uirq' \in BOOLEAN
    BY <1>3, <1>6 DEF OutInv
  <2> QED
    BY <1>3, <1>5, <1>6, <2>1, <2>2, OutKept
<1>9. SleepInv'
  <2>1. ASSUME NEW k \in Hart
        PROVE  /\ ~ Sleeping(k, "ticks")'
               /\ Sleeping(k, "cons")' => Sleeping(k, "cons")
               /\ Sleeping(k, "tx")' => Sleeping(k, "tx")
    <3>1. /\ Roused(fr'[k]["proc"], fr[k]["proc"]) /\ fr[k]["proc"] \in FrameRec
          /\ ~ (fr'[k]["proc"].pc = "asleep" /\ fr'[k]["proc"].want = "ticks")
      <4>1. fr \in [Hart -> [Frame -> FrameRec]]
        BY DEF CtlInv, CtlType
      <4>2. fr[k]["proc"] \in FrameRec
        BY <4>1 DEF Frame
      <4> QED
        BY <1>3, <1>4, <4>2, WokenAre
    <3>2. fr'[k]["proc"].pc = "asleep" => fr'[k]["proc"] = fr[k]["proc"]
      BY <3>1 DEF Roused, FrameRec
    <3> QED
      BY <3>1, <3>2 DEF Sleeping
  <2>2. ticks' \in 0 .. UINT - 1
    BY <1>3, <1>6 DEF SleepInv
  <2> QED
    BY <1>3, <1>6, <2>1, <2>2 DEF SleepInv
<1> QED
  BY <1>7, <1>8, <1>9 DEF DataInv

LEMMA DataReadTake == ASSUME CtlInv, DataInv, NEW h \in Hart, ReadTake(h) PROVE DataInv'
<1>1. /\ Me(h).pc = "read" /\ Me(h) \in FrameRec /\ Top(h) = "proc" /\ cons.ready > 0
      /\ Me(h) = fr[h]["proc"]
  BY TopIs DEF ReadTake, At, Me, IntrOk
<1>2. PICK f : fr' = Frames(h, f) /\ f.pc # "asleep"
  <2>1. User.pc # "asleep" /\ [Me(h) EXCEPT !.n = @ - 1].pc = "read"
    BY <1>1 DEF User, Nil, FrameRec
  <2> QED
    BY <2>1 DEF ReadTake, Return
<1>3. Moves(h, f, fr[h]["intr"])
  BY <1>1, <1>2, MovesTop
<1>4. UNCHANGED <<ticks, ntx, rx, thr, uirq>>
  BY DEF ReadTake, uartVars
<1>5. CASE cons' = cons
  BY <1>1, <1>2, <1>4, <1>5, QuietTop
<1>6. CASE cons' = [buf |-> Tail(cons.buf), ready |-> cons.ready - 1]
  <2>1. SleepInv /\ RingInv /\ OutInv
    BY DEF DataInv
  <2>2. SleepInv'
    BY <1>1, <1>2, <1>3, <1>4, <2>1, SleepKept
  <2>3. OutInv'
    <3>1. ntx' \in 0 .. UART_TX_BUF_SIZE /\ thr' \in BOOLEAN /\ uirq' \in BOOLEAN
      BY <1>4, <2>1 DEF OutInv
    <3> QED
      BY <1>1, <1>3, <1>4, <2>1, <3>1, OutKept
  <2>4. RingInv'
    <3> DEFINE b == cons.buf
    <3>1. b \in Seq(Key) /\ cons.ready \in Nat /\ cons.ready <= Len(b) /\ Len(b) <= INPUT_BUF_SIZE
      BY <2>1 DEF RingInv, Used
    <3>2. \A i \in cons.ready + 1 .. Len(b) : b[i] \notin {"nl", "eof"}
      BY <2>1 DEF RingInv, Used
    <3>3. \A k \in Hart : RoomFound(fr[k]["intr"]) /\ fr'[k]["intr"] = fr[k]["intr"]
      BY <1>3, <2>1 DEF RingInv, Moves
    <3>4. /\ cons'.buf = Tail(b) /\ cons'.ready = cons.ready - 1
          /\ Used' = Len(Tail(b)) /\ Used = Len(b)
      BY <1>6 DEF Used
    <3> HIDE DEF b
    <3>5. /\ Tail(b) \in Seq(Key) /\ Len(Tail(b)) = Len(b) - 1
          /\ \A i \in 1 .. Len(b) - 1 : Tail(b)[i] = b[i + 1]
      BY <1>1, <3>1
    <3>6. \A i \in cons.ready - 1 + 1 .. Len(b) - 1 : Tail(b)[i] \notin {"nl", "eof"}
      <4>1. SUFFICES ASSUME NEW i \in cons.ready - 1 + 1 .. Len(b) - 1
                     PROVE  Tail(b)[i] \notin {"nl", "eof"}
        OBVIOUS
      <4>2. i \in 1 .. Len(b) - 1 /\ i + 1 \in cons.ready + 1 .. Len(b)
        BY <1>1, <3>1
      <4> QED
        BY <3>2, <3>5, <4>2
    <3>7. \A k \in Hart : RoomFound(fr[k]["intr"])'
      BY <3>1, <3>3, <3>4, <3>5 DEF RoomFound
    <3>8. cons' \in [buf : Seq(Key), ready : Nat]
      BY <1>1, <1>6, <3>1, <3>5 DEF b
    <3>9. rx' \in Key \cup {"none"}
      BY <1>4, <2>1 DEF RingInv
    <3>10. cons'.ready <= Used' /\ Used' < INPUT_BUF_SIZE /\ Used' \in Nat
      BY <1>1, <3>1, <3>4, <3>5
    <3> QED
      BY <3>1, <3>4, <3>5, <3>6, <3>7, <3>8, <3>9, <3>10 DEF RingInv
  <2> QED
    BY <2>2, <2>3, <2>4 DEF DataInv
<1> QED
  BY <1>5, <1>6 DEF ReadTake

LEMMA DataWritePut == ASSUME CtlInv, DataInv, NEW h \in Hart, WritePut(h) PROVE DataInv'
<1>1. /\ Me(h).pc = "write" /\ Me(h) \in FrameRec /\ Top(h) = "proc" /\ Me(h).want = "tx"
      /\ Me(h) = fr[h]["proc"]
  BY TopIs DEF WritePut, At, Me, IntrOk, ProcOk
<1>2. UNCHANGED <<ticks, cons, rx, thr, uirq>>
  BY DEF WritePut, uartVars
<1>3. CASE ntx = UART_TX_BUF_SIZE
  <2> DEFINE f == [Me(h) EXCEPT !.pc = "asleep"]
  <2>1. f.want = "tx"
    BY <1>1 DEF FrameRec
  <2>2. fr' = Frames(h, f) /\ ntx' = ntx
    BY <1>3 DEF WritePut, sleep, Goto
  <2> HIDE DEF f
  <2> QED
    BY <1>1, <1>2, <1>3, <2>1, <2>2, DataAsleep
<1>4. CASE ntx # UART_TX_BUF_SIZE
  <2> DEFINE f == [Me(h) EXCEPT !.pc = "start"]
  <2>1. f.pc = "start"
    BY <1>1 DEF FrameRec
  <2>2. fr' = Frames(h, f) /\ ntx' = ntx + 1
    BY <1>4 DEF WritePut, Goto
  <2> HIDE DEF f
  <2>3. Moves(h, f, fr[h]["intr"]) /\ fr'[h]["proc"] = f
    BY <1>1, <2>2, MovesTop, FramesAre
  <2>4. SleepInv /\ RingInv /\ OutInv
    BY DEF DataInv
  <2>5. SleepInv'
    BY <1>2, <1>4, <2>1, <2>3, <2>4, SleepKept
  <2>6. RingInv'
    <3>1. rx' \in Key \cup {"none"}
      BY <1>2, <2>4 DEF RingInv
    <3> QED
      BY <1>2, <2>3, <2>4, <3>1, RingKept
  <2>7. OutInv'
    BY <1>2, <1>4, <2>1, <2>2, <2>3, <2>4 DEF OutInv
  <2> QED
    BY <2>5, <2>6, <2>7 DEF DataInv
<1> QED
  BY <1>3, <1>4

LEMMA DataUart == ASSUME CtlInv, DataInv, NEW h \in Hart, UartStart(h) \/ UartSent(h) PROVE DataInv'
<1>1. Me(h).pc \in {"start", "sent"} /\ Me(h) \in FrameRec /\ Top(h) \in {"intr", "proc"}
  BY TopIs DEF UartStart, UartSent, At, Me
<1>2. SleepInv /\ RingInv /\ OutInv /\ fr \in [Hart -> [Frame -> FrameRec]]
  BY DEF DataInv, CtlInv, CtlType
<1>3. CASE UartStart(h) /\ (ntx = 0 \/ thr)
  <2> DEFINE f == [Me(h) EXCEPT !.pc = "sent"]
  <2>1. f.pc = "sent"
    BY <1>1 DEF FrameRec
  <2>2. fr' = Frames(h, f) /\ UNCHANGED <<ticks, cons, ntx, rx, thr, uirq>>
    BY <1>3 DEF UartStart, Goto
  <2> HIDE DEF f
  <2>3. PICK P, Q : /\ Moves(h, P, Q) /\ (P = fr[h]["proc"] \/ P.pc # "asleep")
                    /\ Q = fr[h]["intr"] \/ RoomFound(Q)
    <3>1. RoomFound(f)
      BY <2>1 DEF RoomFound
    <3> QED
      BY <1>1, <2>1, <2>2, <3>1, MovesTop
  <2>4. SleepInv'
    BY <1>2, <2>2, <2>3, SleepKept
  <2>5. RingInv'
    <3>1. rx' \in Key \cup {"none"}
      BY <1>2, <2>2 DEF RingInv
    <3> QED
      BY <1>2, <2>2, <2>3, <3>1, RingKept
  <2>6. OutInv'
    BY <1>2, <1>3, <2>2 DEF OutInv
  <2> QED
    BY <2>4, <2>5, <2>6 DEF DataInv
<1>4. CASE UartStart(h) /\ ~ (ntx = 0 \/ thr)
  <2>1. /\ fr' = Woken(fr, "tx") /\ "tx" \in Lock /\ ntx' = ntx - 1 /\ thr' = TRUE
        /\ UNCHANGED <<ticks, cons, rx, uirq>>
    BY <1>4 DEF UartStart, Lock
  <2>2. \A k \in Hart :
          /\ fr'[k]["intr"] = fr[k]["intr"] /\ Roused(fr'[k]["proc"], fr[k]["proc"])
          /\ ~ (fr'[k]["proc"].pc = "asleep" /\ fr'[k]["proc"].want = "tx")
          /\ fr[k]["proc"] \in FrameRec
    BY <1>2, <2>1, WokenAre DEF Frame
  <2>3. RingInv'
    BY <1>2, <2>1, <2>2 DEF RingInv, RoomFound, Used
  <2>4. OutInv'
    BY <1>2, <1>4, <2>1 DEF OutInv
  <2>5. SleepInv'
    <3>1. \A k \in Hart : fr'[k]["proc"].pc = "asleep" => fr'[k]["proc"] = fr[k]["proc"]
      BY <2>2 DEF Roused, FrameRec
    <3> QED
      BY <1>2, <2>1, <2>2, <3>1 DEF SleepInv, Sleeping, Elapsed
  <2> QED
    BY <2>3, <2>4, <2>5 DEF DataInv
<1>5. CASE UartSent(h)
  <2>1. Me(h).pc = "sent" /\ UNCHANGED <<ticks, cons, ntx, rx, thr, uirq>>
    BY <1>5 DEF UartSent, At, Me, uartVars
  <2>2. PICK f : fr' = Frames(h, f) /\ f.pc \in {"complete", "off", "user"}
    <3>1. [Me(h) EXCEPT !.pc = "complete"].pc = "complete" /\ User.pc = "user"
      BY <1>1 DEF FrameRec, User, Nil
    <3>2. Acquiring([Me(h) EXCEPT !.n = @ - 1], "tx", "write").pc = "off"
      BY <1>1 DEF FrameRec, Acquiring
    <3> QED
      BY <1>5, <3>1, <3>2 DEF UartSent, Goto, Return
  <2>3. ~ Starts(Me(h)) /\ RoomFound(f)
    BY <2>1, <2>2 DEF Starts, RoomFound
  <2> QED
    BY <2>1, <2>2, <2>3, QuietTop
<1> QED
  BY <1>3, <1>4, <1>5

\* Only one hart is inside consoleintr() or consoleread().
LEMMA OneConsole ==
  ASSUME CtlInv, NEW h \in Hart, NEW k \in Hart,
         fr[h]["intr"].pc \in Under("cons"), fr[k]["intr"].pc \in Under("cons")
  PROVE  h = k
BY DEF CtlInv, LocksOwned, Lock

LEMMA DataConsoleIntr == ASSUME CtlInv, DataInv, NEW h \in Hart, ConsoleIntr(h) PROVE DataInv'
<1>1. Me(h).pc = "cons" /\ Me(h) \in FrameRec /\ Top(h) = "intr" /\ Me(h) = fr[h]["intr"]
  BY TopIs, HandlerTop DEF ConsoleIntr, At, Me
<1> DEFINE b == cons.buf
           erase == Me(h).c \in {"bs", "kill"} /\ Used # cons.ready
           append == Me(h).c \notin {"bs", "kill"} /\ Used < INPUT_BUF_SIZE
<1>2. SleepInv /\ RingInv /\ OutInv /\ cons \in [buf : Seq(Key), ready : Nat]
      /\ Used = Len(b) /\ b \in Seq(Key)
  BY DEF DataInv, RingInv, Used
<1>3. PICK f : /\ fr' = Frames(h, f) /\ f.pc \in {"echo", "consdone"}
               /\ f.pc = "echo" /\ f.then = "store" => append
  <2>1. [Me(h) EXCEPT !.pc = "consdone"].pc = "consdone"
    BY <1>1 DEF FrameRec
  <2>2. \A t : /\ [Me(h) EXCEPT !.pc = "echo", !.then = t].pc = "echo"
               /\ [Me(h) EXCEPT !.pc = "echo", !.then = t].then = t
    BY <1>1 DEF FrameRec
  <2>3. \/ fr' = Frames(h, [Me(h) EXCEPT !.pc = "consdone"])
        \/ append /\ fr' = Frames(h, [Me(h) EXCEPT !.pc = "echo", !.then = "store"])
        \/ fr' = Frames(h, [Me(h) EXCEPT !.pc = "echo", !.then = "cons"])
        \/ fr' = Frames(h, [Me(h) EXCEPT !.pc = "echo", !.then = "consdone"])
    BY DEF ConsoleIntr
  <2> HIDE DEF append
  <2> DEFINE Way(f) == /\ fr' = Frames(h, f) /\ f.pc \in {"echo", "consdone"}
                       /\ f.pc = "echo" /\ f.then = "store" => append
  <2>4. ASSUME fr' = Frames(h, [Me(h) EXCEPT !.pc = "consdone"])
        PROVE  \E f : Way(f)
    <3>1. Way([Me(h) EXCEPT !.pc = "consdone"])
      BY <2>1, <2>4
    <3> QED
      BY <3>1
  <2>5. ASSUME NEW t, t = "store" => append,
               fr' = Frames(h, [Me(h) EXCEPT !.pc = "echo", !.then = t])
        PROVE  \E f : Way(f)
    <3>1. Way([Me(h) EXCEPT !.pc = "echo", !.then = t])
      BY <2>2, <2>5
    <3> QED
      BY <3>1
  <2> HIDE DEF Way
  <2>6. \E f : Way(f)
    <3>1. "cons" # "store" /\ "consdone" # "store"
      OBVIOUS
    <3>2. CASE append /\ fr' = Frames(h, [Me(h) EXCEPT !.pc = "echo", !.then = "store"])
      BY <3>2, <2>5
    <3>3. CASE fr' = Frames(h, [Me(h) EXCEPT !.pc = "echo", !.then = "cons"])
      BY <3>1, <3>3, <2>5
    <3>4. CASE fr' = Frames(h, [Me(h) EXCEPT !.pc = "echo", !.then = "consdone"])
      BY <3>1, <3>4, <2>5
    <3> QED
      BY <2>3, <2>4, <3>2, <3>3, <3>4
  <2> QED
    BY <2>6 DEF Way
<1>4. /\ UNCHANGED <<ticks, ntx, rx, thr, uirq>>
      /\ cons' = [cons EXCEPT !.buf = IF erase THEN SubSeq(b, 1, Used - 1) ELSE b]
  BY <1>2 DEF ConsoleIntr, uartVars
<1>5. Moves(h, fr[h]["proc"], f)
  BY <1>1, <1>3, MovesTop
<1>6. Starts(f) /\ RoomFound(f)
  BY <1>3 DEF Starts, RoomFound
<1>7. cons'.ready = cons.ready
  BY <1>2, <1>4
<1>8. SleepInv'
  BY <1>2, <1>4, <1>5, <1>7, SleepKept
<1>9. OutInv'
  <2>1. ntx' \in 0 .. UART_TX_BUF_SIZE /\ thr' \in BOOLEAN /\ uirq' \in BOOLEAN
    BY <1>2, <1>4 DEF OutInv
  <2> QED
    BY <1>2, <1>4, <1>5, <1>6, <2>1, OutKept
<1>10. RingInv'
  <2>0. rx' \in Key \cup {"none"}
    BY <1>2, <1>4 DEF RingInv
  <2>1. CASE ~ erase
    <3>1. cons' = cons
      BY <1>2, <1>4, <2>1
    <3> QED
      BY <1>2, <1>5, <1>6, <2>0, <3>1, RingKept
  <2>2. CASE erase
    <3>1. /\ cons.ready \in Nat /\ cons.ready < Len(b) /\ Len(b) <= INPUT_BUF_SIZE /\ Len(b) \in Nat
          /\ \A i \in cons.ready + 1 .. Len(b) : b[i] \notin {"nl", "eof"}
      BY <1>2, <2>2 DEF RingInv
    <3> DEFINE s == SubSeq(b, 1, Len(b) - 1)
    <3>2. s \in Seq(Key) /\ Len(s) = Len(b) - 1 /\ \A i \in 1 .. Len(b) - 1 : s[i] = b[i]
      <4>1. /\ Len(b) - 1 \in Int /\ 1 \in Int /\ \A i \in 1 .. Len(b) - 1 : b[i] \in Key
            /\ Len(b) - 1 >= 0 /\ Len(b) - 1 - 1 + 1 = Len(b) - 1
        BY <1>2, <3>1
      <4> HIDE DEF b
      <4>2. /\ s \in Seq(Key)
            /\ Len(s) = IF 1 <= Len(b) - 1 THEN Len(b) - 1 - 1 + 1 ELSE 0
            /\ \A i \in 1 .. Len(b) - 1 - 1 + 1 : s[i] = b[1 + i - 1]
        BY <4>1, SubSeqProperties
      <4> QED
        BY <3>1, <4>1, <4>2
    <3>3. cons' = [cons EXCEPT !.buf = s]
      BY <1>2, <1>4, <2>2
    <3> HIDE DEF s
    <3>4. cons'.buf = s /\ Used' = Len(s) /\ cons' \in [buf : Seq(Key), ready : Nat]
      BY <1>2, <3>2, <3>3 DEF Used
    <3>5. \A i \in cons.ready + 1 .. Len(s) : s[i] \notin {"nl", "eof"}
      BY <3>1, <3>2
    <3>6. \A k \in Hart : RoomFound(fr'[k]["intr"])
      BY <1>2, <1>5, <1>6 DEF Moves, RingInv
    <3>7. \A k \in Hart : RoomFound(fr[k]["intr"])'
      BY <1>2, <3>1, <3>2, <3>4, <3>6 DEF RoomFound
    <3>8. cons'.ready <= Used' /\ Used' < INPUT_BUF_SIZE /\ Used' \in Nat
      BY <1>7, <3>1, <3>2, <3>4
    <3> QED
      BY <1>7, <2>0, <3>4, <3>5, <3>7, <3>8 DEF RingInv
  <2> QED
    BY <2>1, <2>2
<1> QED
  BY <1>8, <1>9, <1>10 DEF DataInv

LEMMA DataEcho == ASSUME CtlInv, DataInv, NEW h \in Hart, Echo(h) PROVE DataInv'
<1>1. Me(h).pc = "echo" /\ Me(h) \in FrameRec /\ Top(h) = "intr" /\ Me(h) = fr[h]["intr"]
      /\ Me(h).then \in {"store", "cons", "consdone"}
  BY TopIs, HandlerTop DEF Echo, At, Me, IntrOk
<1> DEFINE f == [Me(h) EXCEPT !.pc = Me(h).then]
<1>2. f.pc = Me(h).then
  BY <1>1 DEF FrameRec
<1>3. fr' = Frames(h, f) /\ thr' = TRUE /\ UNCHANGED <<ticks, cons, ntx, rx, uirq>>
  BY DEF Echo, Goto
<1> HIDE DEF f
<1>4. Moves(h, fr[h]["proc"], f)
  BY <1>1, <1>3, MovesTop
<1>5. SleepInv /\ RingInv /\ OutInv
  BY DEF DataInv
<1>6. RoomFound(f) /\ Starts(f)
  BY <1>1, <1>2, <1>5 DEF RingInv, RoomFound, Starts
<1>7. SleepInv'
  BY <1>3, <1>4, <1>5, SleepKept
<1>8. RingInv'
  <2>1. rx' \in Key \cup {"none"}
    BY <1>3, <1>5 DEF RingInv
  <2> QED
    BY <1>3, <1>4, <1>5, <1>6, <2>1, RingKept
<1>9. OutInv'
  BY <1>3, <1>5 DEF OutInv
<1> QED
  BY <1>7, <1>8, <1>9 DEF DataInv

LEMMA DataStore == ASSUME CtlInv, DataInv, NEW h \in Hart, Store(h) PROVE DataInv'
<1>1. Me(h).pc = "store" /\ Me(h) \in FrameRec /\ Top(h) = "intr" /\ Me(h) = fr[h]["intr"]
  BY TopIs, HandlerTop DEF Store, At, Me
<1> DEFINE f == [Me(h) EXCEPT !.pc = "consdone"]
           G == Frames(h, f)
           c == Me(h).c
           line == c \in {"nl", "eof"} \/ Used + 1 = INPUT_BUF_SIZE
<1>2. f \in FrameRec /\ f.pc = "consdone" /\ c \in Key
  BY <1>1 DEF FrameRec, Pc
<1>3. /\ fr' = IF line THEN Woken(G, "cons") ELSE G
      /\ cons' = [buf |-> Append(cons.buf, c), ready |-> IF line THEN Used + 1 ELSE cons.ready]
      /\ UNCHANGED <<ticks, ntx, rx, thr, uirq>> /\ "cons" \in Lock
  BY DEF Store, uartVars, Lock
<1> HIDE DEF f, c
<1>4. Becomes(G)
  BY <1>3 DEF Becomes
<1>5. Moves(h, fr[h]["proc"], f) /\ G \in [Hart -> [Frame -> FrameRec]]
  BY <1>1, <1>2, <1>4, MovesTop, FramesAre
<1> HIDE DEF G
<1>6. SleepInv /\ RingInv /\ OutInv
  BY DEF DataInv
<1>7. Starts(f) /\ RoomFound(f)
  BY <1>2 DEF Starts, RoomFound
<1>8. OutInv'
  <2>1. ntx' \in 0 .. UART_TX_BUF_SIZE /\ thr' \in BOOLEAN /\ uirq' \in BOOLEAN
    BY <1>3, <1>6 DEF OutInv
  <2> QED
    BY <1>3, <1>5, <1>6, <1>7, <2>1, OutKept
<1>9. SleepInv'
  <2>1. CASE line
    <3>1. ASSUME NEW k \in Hart
          PROVE  /\ ~ (fr'[k]["proc"].pc = "asleep" /\ fr'[k]["proc"].want = "cons")
                 /\ fr'[k]["proc"].pc = "asleep" => fr'[k]["proc"] = fr[k]["proc"]
      <4>1. fr \in [Hart -> [Frame -> FrameRec]]
        BY DEF CtlInv, CtlType
      <4>2. fr[k]["proc"] \in FrameRec /\ Roused(fr'[k]["proc"], fr[k]["proc"])
        BY <1>5, <4>1 DEF Frame, Moves
      <4>3. fr'[k]["proc"].pc = "asleep" => fr'[k]["proc"] = fr[k]["proc"]
        BY <4>2 DEF Roused, FrameRec
      <4> QED
        BY <1>3, <1>5, <2>1, <4>3, WokenAre
    <3> QED
      BY <1>3, <1>6, <3>1 DEF SleepInv, Sleeping, Elapsed
  <2>2. CASE ~ line
    <3>1. cons'.ready = cons.ready
      BY <1>3, <2>2
    <3> QED
      BY <1>3, <1>5, <1>6, <3>1, SleepKept
  <2> QED
    BY <2>1, <2>2
<1>10. RingInv'
  <2> DEFINE b == cons.buf
             b2 == Append(b, c)
  <2>1. /\ b \in Seq(Key) /\ cons.ready \in Nat /\ cons.ready <= Len(b) /\ Used = Len(b)
        /\ Len(b) < INPUT_BUF_SIZE /\ Len(b) \in Nat
        /\ \A i \in cons.ready + 1 .. Len(b) : b[i] \notin {"nl", "eof"}
    <3>1. RoomFound(fr[h]["intr"])
      BY <1>6 DEF RingInv
    <3>2. Used < INPUT_BUF_SIZE
      BY <1>1, <3>1 DEF RoomFound
    <3> QED
      BY <1>6, <3>2 DEF RingInv, Used
  <2>2. /\ b2 \in Seq(Key) /\ Len(b2) = Len(b) + 1 /\ b2[Len(b) + 1] = c
        /\ \A i \in 1 .. Len(b) : b2[i] = b[i]
    BY <1>2, <2>1
  <2>3. /\ cons'.buf = b2 /\ cons'.ready = (IF line THEN Len(b) + 1 ELSE cons.ready)
        /\ Used' = Len(b2)
    BY <1>3, <2>1 DEF Used
  <2>4. cons' \in [buf : Seq(Key), ready : Nat]
    BY <1>3, <2>1, <2>2
  <2> HIDE DEF b, b2
  <2>5. cons'.ready <= Used' /\ Used' <= INPUT_BUF_SIZE
    BY <2>1, <2>2, <2>3
  <2>6. Used' = INPUT_BUF_SIZE => cons'.ready = Used'
    BY <2>1, <2>2, <2>3
  <2>7. \A i \in cons'.ready + 1 .. Len(b2) : b2[i] \notin {"nl", "eof"}
    <3>1. CASE line
      BY <2>1, <2>2, <2>3, <3>1
    <3>2. CASE ~ line
      <4>1. SUFFICES ASSUME NEW i \in cons.ready + 1 .. Len(b) + 1
                     PROVE  b2[i] \notin {"nl", "eof"}
        BY <2>2, <2>3, <3>2
      <4>2. i \in cons.ready + 1 .. Len(b) \/ i = Len(b) + 1
        BY <2>1
      <4>3. i \in cons.ready + 1 .. Len(b) => i \in 1 .. Len(b)
        BY <2>1
      <4> QED
        BY <2>1, <2>2, <3>2, <4>2, <4>3
    <3> QED
      BY <3>1, <3>2
  <2>8. ASSUME NEW k \in Hart PROVE RoomFound(fr[k]["intr"])'
    <3>1. fr'[k]["intr"].pc \notin {"store", "echo"}
      <4>1. CASE k = h
        BY <1>2, <1>5, <4>1 DEF Moves
      <4>2. CASE k # h
        <5>1. fr[h]["intr"].pc \in Under("cons")
          BY <1>1 DEF Under
        <5>2. "store" \in Under("cons") /\ "echo" \in Under("cons")
          BY DEF Under
        <5>3. fr'[k]["intr"] = fr[k]["intr"]
          BY <1>5, <4>2 DEF Moves
        <5> QED
          BY <4>2, <5>1, <5>2, <5>3, OneConsole
      <4> QED
        BY <4>1, <4>2
    <3> QED
      BY <3>1 DEF RoomFound
  <2>9. rx' \in Key \cup {"none"}
    BY <1>3, <1>6 DEF RingInv
  <2> QED
    BY <2>3, <2>4, <2>5, <2>6, <2>7, <2>8, <2>9 DEF RingInv
<1> QED
  BY <1>8, <1>9, <1>10 DEF DataInv

LEMMA DataConsoleDone == ASSUME CtlInv, DataInv, NEW h \in Hart, ConsoleDone(h) PROVE DataInv'
<1> DEFINE f == [Nil EXCEPT !.pc = "getc"]
<1>1. f.pc = "getc"
  BY DEF Nil
<1>2. Top(h) = "intr"
  BY HandlerTop DEF ConsoleDone, At, Me
<1>3. fr' = Frames(h, f) /\ UNCHANGED <<ticks, cons, ntx, rx, thr, uirq>>
  BY DEF ConsoleDone, uartVars
<1> HIDE DEF f
<1>4. RoomFound(f) /\ Starts(f)
  BY <1>1 DEF RoomFound, Starts
<1> QED
  BY <1>2, <1>3, <1>4, QuietTop

LEMMA DataInit == Init => DataInv
<1> SUFFICES ASSUME Init PROVE DataInv
  OBVIOUS
<1>1. \A h \in Hart : fr[h]["proc"].pc = "user" /\ fr[h]["intr"].pc = "none"
  BY DEF Init, Frame, User, Nil
<1>2. SleepInv
  BY <1>1 DEF Init, SleepInv, Sleeping
<1>3. RingInv
  <2>1. Used = 0 /\ cons.ready = 0 /\ cons \in [buf : Seq(Key), ready : Nat]
    BY DEF Init, Used
  <2>2. \A h \in Hart : RoomFound(fr[h]["intr"])
    BY <1>1 DEF RoomFound
  <2> QED
    BY <2>1, <2>2 DEF Init, RingInv
<1>4. OutInv
  <2>1. ntx = 0 /\ thr \in BOOLEAN /\ uirq \in BOOLEAN
    BY DEF Init
  <2>2. 0 \in 0 .. UART_TX_BUF_SIZE /\ ~ (0 > 0)
    OBVIOUS
  <2> QED
    BY <2>1, <2>2 DEF OutInv
<1> QED
  BY <1>2, <1>3, <1>4 DEF DataInv

\* The variables whose values the other invariants do not need.
RestType ==
  /\ env \in Environments /\ killed \in [Hart -> BOOLEAN]
  /\ sip \in [Hart -> BOOLEAN] /\ serving \in BOOLEAN

LEMMA DataNext == ASSUME CtlInv, DataInv, RestType, [Next]_vars PROVE DataInv'
<1>1. ASSUME NEW h \in Hart, Step(h) PROVE DataInv'
  BY <1>1, DataAcquire, DataReadWait, DataReadTake, DataWritePut, DataUart, DataSleep, DataClock,
     DataServe, DataConsoleIntr, DataEcho, DataStore, DataConsoleDone DEF Step
<1>2. ASSUME NEW h \in Hart, TakeTimer(h) \/ TakeExternal(h) \/ Kill(h) PROVE DataInv'
  BY <1>2, DataTake, DataKill
<1>3. ASSUME NEW h \in Hart, NEW call \in env.calls[h], Call(h, call) PROVE DataInv'
  BY <1>3, DataCall DEF RestType
<1>4. ASSUME UNCHANGED <<fr, ticks, cons, ntx>>, rx' \in Key \cup {"none"},
             thr' \in BOOLEAN, uirq' \in BOOLEAN, thr \/ uirq => thr' \/ uirq'
      PROVE  DataInv'
  <2>1. SleepInv'
    BY <1>4 DEF DataInv, SleepInv, Sleeping, Elapsed
  <2>2. RingInv'
    BY <1>4 DEF DataInv, RingInv, RoomFound, Used
  <2>3. OutInv'
    BY <1>4 DEF DataInv, OutInv, Starts
  <2> QED
    BY <2>1, <2>2, <2>3 DEF DataInv
<1>5. rx \in Key \cup {"none"} /\ thr \in BOOLEAN /\ uirq \in BOOLEAN
  BY DEF DataInv, RingInv, OutInv
<1>6. CASE UNCHANGED vars
  BY <1>4, <1>5, <1>6 DEF vars
<1>7. CASE \E h \in Hart : Timer(h)
  BY <1>4, <1>5, <1>7 DEF Timer, uartVars
<1>8. CASE Transmitted
  BY <1>4, <1>5, <1>8 DEF Transmitted
<1>9. ASSUME NEW c \in env.keys, Type(c) PROVE DataInv'
  <2>1. c \in Key
    BY DEF RestType
  <2>2. UNCHANGED <<fr, ticks, cons, ntx, thr>> /\ rx' = c /\ uirq' = TRUE
    BY <1>9 DEF Type
  <2> QED
    BY <1>4, <1>5, <2>1, <2>2
<1> QED
  BY <1>1, <1>2, <1>3, <1>6, <1>7, <1>8, <1>9 DEF Next

LEMMA RestNext == ASSUME RestType, [Next]_vars PROVE RestType'
<1>1. env' = env
  BY DEF Next, vars
<1>2. killed' \in [Hart -> BOOLEAN]
  <2>1. ASSUME NEW h \in Hart, Step(h) PROVE killed' \in [Hart -> BOOLEAN]
    BY <2>1 DEF RestType, Step, PushOff, Spin, ReadWait, ReadTake, WritePut, UartStart, UartSent,
       SleepStart, SleepTick, Clock, Ack, Claim, Complete, Getc, ConsoleIntr, Echo, Store,
       ConsoleDone, LeaveIntr, Return
  <2> QED
    BY <2>1 DEF RestType, Next, vars, TakeTimer, TakeExternal, Enter, Kill, Timer, Call, Type,
       Transmitted
<1>3. sip' \in [Hart -> BOOLEAN] /\ serving' \in BOOLEAN
  <2>1. ASSUME NEW h \in Hart, Step(h) PROVE sip' \in [Hart -> BOOLEAN] /\ serving' \in BOOLEAN
    BY <2>1 DEF RestType, Step, PushOff, Spin, ReadWait, ReadTake, WritePut, UartStart, UartSent,
       SleepStart, SleepTick, Clock, Ack, Claim, Complete, Getc, ConsoleIntr, Echo, Store,
       ConsoleDone, uartVars
  <2> QED
    BY <2>1 DEF RestType, Next, vars, TakeTimer, TakeExternal, Enter, Kill, Timer, Call, Type,
       Transmitted, uartVars
<1> QED
  BY <1>1, <1>2, <1>3 DEF RestType

DevicesInv == CtlInv /\ DataInv /\ RestType

LEMMA DevicesInvariant == Spec => []DevicesInv
<1>1. Init => DevicesInv
  <2>1. Init => RestType
    BY DEF Init, RestType
  <2> QED
    BY <2>1, CtlInit, DataInit DEF DevicesInv
<1>2. DevicesInv /\ [Next]_vars => DevicesInv'
  <2> SUFFICES ASSUME DevicesInv, [Next]_vars PROVE DevicesInv'
    OBVIOUS
  <2>1. CtlInv /\ DataInv /\ RestType
    BY DEF DevicesInv
  <2>2. env \in Environments /\ ticks \in 0 .. UINT - 1 /\ rx \in Key \cup {"none"}
    BY <2>1 DEF RestType, DataInv, SleepInv, RingInv
  <2> QED
    BY <2>1, <2>2, CtlNext, DataNext, RestNext DEF DevicesInv
<1> QED
  BY <1>1, <1>2, PTL DEF Spec

-----------------------------------------------------------------------------
(* The theorems.                                                           *)

\* Every variable keeps its type: the counters of the rings and of the clock
\* stay in range, and so does what a process has still to read, write or wait
\* for.
THEOREM DevicesTypeCorrect == Spec => []TypeOK
<1>1. DevicesInv => TypeOK
  <2> SUFFICES ASSUME DevicesInv PROVE TypeOK
    OBVIOUS
  <2>1. CtlType /\ RestType /\ SleepInv /\ RingInv /\ OutInv
    BY DEF DevicesInv, CtlInv, DataInv
  <2>2. noff \in [Hart -> 0 .. 2]
    BY <2>1 DEF CtlType
  <2> QED
    BY <2>1, <2>2 DEF CtlType, FrameRec, RestType, SleepInv, RingInv, OutInv, TypeOK
<1> QED
  BY <1>1, DevicesInvariant, PTL

\* push_off() and pop_off() match on every hart, also inside a handler:
\* interrupts are off while a lock is held or awaited and while a handler runs,
\* and only then, and no hart waits for a lock that it holds.
THEOREM DevicesInterruptsSafe == Spec => []InterruptsSafe
<1>1. DevicesInv => InterruptsSafe
  <2> SUFFICES ASSUME DevicesInv, NEW h \in Hart
               PROVE  /\ At(h, "off") \/ At(h, "spin") => Me(h).want \notin Holds(h)
                      /\ noff[h] = Cardinality(Holds(h)) + (IF At(h, "spin") THEN 1 ELSE 0)
                      /\ intr[h] <=> noff[h] = 0 /\ Top(h) = "proc"
    BY DEF InterruptsSafe
  <2>1. CtlInv /\ HartOk(fr[h]["proc"], fr[h]["intr"], intr[h], noff[h], intena[h])
    BY DEF DevicesInv, CtlInv, HartsOk
  <2>2. /\ Top(h) = "intr" => Me(h) = fr[h]["intr"] /\ fr[h]["proc"].pc \in Outside
                              /\ fr[h]["intr"].pc # "none" /\ IntrOk(Me(h))
        /\ Top(h) = "proc" => Me(h) = fr[h]["proc"] /\ fr[h]["intr"].pc = "none"
                              /\ ProcOk(Me(h))
        /\ Top(h) \in {"intr", "proc"} /\ Me(h) \in FrameRec
    BY <2>1, TopIs
  <2>3. \A l \in Lock : l \in Holds(h) <=> Me(h).pc \in Under(l)
    <3>1. \A l \in Lock : \A p \in Outside \cup {"none"} : p \notin Under(l)
      BY DEF Lock, Under, Outside
    <3> QED
      BY <2>1, <2>2, <3>1 DEF CtlInv, LocksOwned, Holds
  <2>4. noff[h] = IF Me(h).pc \in Deep THEN 1 ELSE 0
    BY <2>1, <2>2 DEF HartOk, Deep, Outside
  <2>5. intr[h] <=> Top(h) = "proc" /\ Me(h).pc \in Outside
    BY <2>1, <2>2 DEF HartOk
  <2>6. CASE Me(h).pc \in Deep \ {"spin"}
    <3>1. PICK l \in Lock : Me(h).pc \in Under(l)
      BY <2>6 DEF Deep, Under, Lock
    <3>2. \A m \in Lock : Me(h).pc \in Under(m) => m = l
      BY <3>1 DEF Under, Lock
    <3>3. Holds(h) = {l}
      BY <2>3, <3>1, <3>2 DEF Holds
    <3>4. Cardinality({l}) = 1
      BY FS_Singleton
    <3>5. Me(h).pc \notin Outside /\ Me(h).pc \notin {"off", "spin"}
      BY <2>6 DEF Deep, Outside
    <3> QED
      BY <2>4, <2>5, <2>6, <3>3, <3>4, <3>5 DEF At, Me
  <2>7. CASE Me(h).pc \notin Deep \ {"spin"}
    <3>1. \A l \in Lock : Me(h).pc \notin Under(l)
      BY <2>7 DEF Deep, Under, Lock
    <3>2. Holds(h) = {}
      BY <2>3, <3>1 DEF Holds
    <3>3. Cardinality({}) = 0
      BY FS_EmptySet
    <3>4. Top(h) = "proc" => (Me(h).pc \in Outside <=> Me(h).pc \notin Deep)
      BY <2>2, <2>7 DEF ProcOk, Deep, Outside
    <3> QED
      BY <2>4, <2>5, <2>7, <3>2, <3>3, <3>4 DEF At, Me, Deep
  <2> QED
    BY <2>6, <2>7
<1> QED
  BY <1>1, DevicesInvariant, PTL

\* No process sleeps in consoleread(), uartputc() or sys_sleep() for what has
\* come already, on any number of harts and with a clock that wraps around.
THEOREM DevicesSleepersWait == Spec => []SleepersWait
<1>1. DevicesInv => SleepersWait
  BY DEF DevicesInv, DataInv, SleepInv, SleepersWait
<1> QED
  BY <1>1, DevicesInvariant, PTL

\* While characters wait in the output ring somebody will send them, whichever
\* hart claims the interrupt of the UART.
THEOREM DevicesOutputGoesOn == Spec => []OutputGoesOn
<1>1. DevicesInv => OutputGoesOn
  <2> SUFFICES ASSUME DevicesInv, ntx > 0, lock["tx"] = NoHart
               PROVE  thr \/ uirq \/ \E h \in Hart : Starts(fr[h]["intr"])
    BY DEF OutputGoesOn
  <2>1. \A h \in Hart : fr[h]["proc"].pc # "start"
    <3>1. "tx" \in Lock /\ "start" \in Under("tx")
      BY DEF Lock, Under
    <3> QED
      BY <3>1 DEF DevicesInv, CtlInv, LocksOwned
  <2> QED
    BY <2>1 DEF DevicesInv, DataInv, OutInv
<1> QED
  BY <1>1, DevicesInvariant, PTL

\* The input ring stays within its size through every erasure and every
\* end-of-file put back, for any INPUT_BUF_SIZE, and a full ring and an ended
\* line can be read.
THEOREM DevicesRingReadable == Spec => []RingReadable
<1>1. DevicesInv => RingReadable
  BY DEF DevicesInv, DataInv, RingInv, RingReadable
<1> QED
  BY <1>1, DevicesInvariant, PTL
=============================================================================
