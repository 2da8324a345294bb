------------------------------ MODULE Devices -------------------------------
(***************************************************************************)
(* Spin locks and interrupts (kernel/spinlock.c, kernel/trap.c,            *)
(* kernel/plic.c) with the devices whose drivers depend on them: the clock *)
(* and sys_sleep() (kernel/sysproc.c), the console (kernel/console.c) and  *)
(* the UART (kernel/uart.c).                                               *)
(*                                                                         *)
(* A hart runs a process, or the scheduler with interrupts on while the    *)
(* process sleeps; an interrupt handler runs on top of either.  Which      *)
(* process a hart runs next is the subject of Sched, and so is sleep(),    *)
(* one step here.  acquire() is two: push_off(), and the swap that spins.  *)
(* The UART, the timer and the interrupt controller are external.          *)
(***************************************************************************)
EXTENDS Naturals, Sequences, FiniteSets

CONSTANTS
  Hart, NoHart,
  Hart0,             \* the hart whose cpuid() is 0
  Environments,      \* what may go on: [calls, keys, timers, victims], the device calls
                     \* [op, n] of the program on each hart, the characters typed, the
                     \* harts with a timer, the harts whose processes are killed
  INPUT_BUF_SIZE,
  UART_TX_BUF_SIZE,
  UINT               \* one more than the largest unsigned int, 2^32 in the code

Key == {"x", "nl", "eof", "bs", "kill"}   \* "eof" is control-D, "kill" control-U

ASSUME DevicesAssumption ==
  /\ Hart0 \in Hart /\ NoHart \notin Hart
  /\ \A v \in Environments :
       /\ v.keys \subseteq Key
       /\ \A h \in Hart : \A call \in v.calls[h] :
            /\ call.op \in {"read", "write", "sleep"} /\ call.n \in 0 .. UINT - 1
            /\ call.op # "sleep" => call.n > 0    \* else consoleread() and
                                                 \* consolewrite() return at once
  /\ INPUT_BUF_SIZE \in Nat \ {0} /\ UART_TX_BUF_SIZE \in Nat \ {0}
  /\ UINT \in Nat \ {0}

VARIABLES
  env,               \* the environment of this behaviour
  lock,              \* the holder of each spin lock
  intr,              \* SIE: the hart takes interrupts
  noff, intena,      \* of struct cpu
  fr,                \* of each hart: the process, and the interrupt handler
  killed,            \* p->killed
  ticks,
  cons,              \* the input ring: what is in it from r to e, and w - r
  ntx,               \* uart_tx_w - uart_tx_r
  sip,               \* a timer interrupt is pending on the hart
  uirq, serving,     \* the UART asks for an interrupt; the PLIC has one claimed
  rx, thr            \* the receive register; the transmit register is in use

cpuVars == <<lock, intr, noff, intena>>
uartVars == <<uirq, serving, rx, thr>>
vars == <<env, lock, intr, noff, intena, fr, killed, ticks, cons, ntx, sip, uirq, serving, rx, thr>>

Lock == {"ticks", "cons", "tx"}
Frame == {"proc", "intr"}
Pc == {"user", "none", "off", "spin", "asleep", "read", "write", "start", "sent", "ticks0",
       "tick", "clock", "ack", "claim", "getc", "cons", "echo", "store", "consdone",
       "complete"}
Nil == [pc |-> "none", want |-> "ticks", then |-> "none", n |-> 0, arg |-> 0, c |-> "x"]
User == [Nil EXCEPT !.pc = "user"]

TypeOK ==
  /\ env \in Environments
  /\ lock \in [Lock -> Hart \cup {NoHart}]
  /\ intr \in [Hart -> BOOLEAN] /\ intena \in [Hart -> BOOLEAN]
  /\ noff \in [Hart -> 0 .. 2]
  /\ fr \in [Hart -> [Frame -> [pc : Pc, want : Lock, then : Pc, n : 0 .. UINT,
                                arg : 0 .. UINT, c : Key]]]
  /\ killed \in [Hart -> BOOLEAN]
  /\ ticks \in 0 .. UINT - 1
  /\ cons \in [buf : Seq(Key), ready : Nat]
  /\ ntx \in 0 .. UART_TX_BUF_SIZE
  /\ sip \in [Hart -> BOOLEAN] /\ uirq \in BOOLEAN /\ serving \in BOOLEAN
  /\ rx \in Key \cup {"none"} /\ thr \in BOOLEAN

Init ==
  /\ env \in Environments
  /\ lock = [l \in Lock |-> NoHart]
  /\ intr = [h \in Hart |-> TRUE] /\ intena = [h \in Hart |-> FALSE]
  /\ noff = [h \in Hart |-> 0]
  /\ fr = [h \in Hart |-> [x \in Frame |-> IF x = "proc" THEN User ELSE Nil]]
  /\ killed = [h \in Hart |-> FALSE]
  /\ ticks = 0
  /\ cons = [buf |-> <<>>, ready |-> 0]
  /\ ntx = 0
  /\ sip = [h \in Hart |-> FALSE] /\ uirq = FALSE /\ serving = FALSE
  /\ rx = "none" /\ thr = FALSE

-----------------------------------------------------------------------------
(* What a hart executes: the handler if there is one.                      *)
Top(h) == IF fr[h]["intr"].pc # "none" THEN "intr" ELSE "proc"
At(h, pc) == fr[h][Top(h)].pc = pc
Me(h) == fr[h][Top(h)]

Acquiring(f, l, next) == [f EXCEPT !.pc = "off", !.want = l, !.then = next]

\* wakeup(): the processes asleep on the channel of lock l go on, by acquiring
\* l.
Sleeping(h, l) == fr[h]["proc"].pc = "asleep" /\ fr[h]["proc"].want = l
Woken(frames, l) ==
  [h \in Hart |->
     IF frames[h]["proc"].pc = "asleep" /\ frames[h]["proc"].want = l
     THEN [frames[h] EXCEPT !["proc"].pc = "off"] ELSE frames[h]]

\* The hart's top frame becomes f.
Frames(h, f) == [fr EXCEPT ![h][Top(h)] = f]
Goto(h, pc) == fr' = Frames(h, [Me(h) EXCEPT !.pc = pc])

\* push_off() and the test in acquire(): the hart must not hold the lock.
PushOff(h) ==
  /\ At(h, "off")
  /\ intr' = [intr EXCEPT ![h] = FALSE]
  /\ intena' = [intena EXCEPT ![h] = IF noff[h] = 0 THEN intr[h] ELSE @]
  /\ noff' = [noff EXCEPT ![h] = @ + 1]
  /\ Goto(h, "spin")
  /\ UNCHANGED <<lock, killed, ticks, cons, ntx, sip, uartVars>>

Spin(h) ==
  /\ At(h, "spin") /\ lock[Me(h).want] = NoHart
  /\ lock' = [lock EXCEPT ![Me(h).want] = h]
  /\ Goto(h, Me(h).then)
  /\ UNCHANGED <<intr, noff, intena, killed, ticks, cons, ntx, sip, uartVars>>

\* A mutant of release: pop_off() turns interrupts on without looking at
\* intena.
releaseOn(h, l) ==
  /\ lock' = [lock EXCEPT ![l] = NoHart]
  /\ noff' = [noff EXCEPT ![h] = @ - 1]
  /\ intr' = [intr EXCEPT ![h] = @ \/ noff[h] = 1]
  /\ UNCHANGED intena

\* release(), pop_off()
release(h, l) ==
  /\ lock' = [lock EXCEPT ![l] = NoHart]
  /\ noff' = [noff EXCEPT ![h] = @ - 1]
  /\ intr' = [intr EXCEPT ![h] = @ \/ (noff[h] = 1 /\ intena[h])]
  /\ UNCHANGED intena

\* sleep(): the lock is given up, and the scheduler turns interrupts on.
sleep(h, l) ==
  /\ release(h, l)
  /\ Goto(h, "asleep")

\* A call returns; a process that was killed exits, and another one takes its
\* place.
Return(h) ==
  /\ fr' = Frames(h, User)
  /\ killed' = [killed EXCEPT ![h] = FALSE]

-----------------------------------------------------------------------------
(* Processes                                                               *)

Call(h, call) ==
  /\ At(h, "user")
  /\ fr' = Frames(h,
       LET f == [User EXCEPT !.n = call.n, !.arg = call.n] IN
       CASE call.op = "read"  -> Acquiring(f, "cons", "read")
         [] call.op = "write" -> Acquiring(f, "tx", "write")
         [] call.op = "sleep" -> Acquiring([f EXCEPT !.arg = 0], "ticks", "ticks0"))
  /\ UNCHANGED <<cpuVars, killed, ticks, cons, ntx, sip, uartVars>>

\* kill() of the process of a hart.
Kill(h) ==
  /\ h \in env.victims /\ fr[h]["proc"].pc # "user" /\ ~ killed[h]
  /\ killed' = [killed EXCEPT ![h] = TRUE]
  /\ fr' = [fr EXCEPT ![h]["proc"].pc = IF @ = "asleep" THEN "off" ELSE @]
  /\ UNCHANGED <<cpuVars, ticks, cons, ntx, sip, uartVars>>

\* consoleread(): no input, so return if killed and otherwise sleep.
ReadWait(h) ==
  /\ At(h, "read") /\ cons.ready = 0
  /\ IF killed[h] THEN release(h, "cons") /\ Return(h)
                  ELSE sleep(h, "cons") /\ UNCHANGED killed
  /\ UNCHANGED <<ticks, cons, ntx, sip, uartVars>>

\* It takes a character.  An end-of-file that comes after others is put back; a
\* line's end, a failing either_copyout() and a full buffer end the call.
ReadTake(h) ==
  LET c == Head(cons.buf)
      last == c \in {"eof", "nl"} \/ Me(h).n = 1 IN
  /\ At(h, "read") /\ cons.ready > 0
  /\ cons' = IF c = "eof" /\ Me(h).n < Me(h).arg THEN cons
             ELSE [buf |-> Tail(cons.buf), ready |-> cons.ready - 1]
  /\ \/ release(h, "cons") /\ Return(h)
     \/ /\ ~ last
        /\ fr' = Frames(h, [Me(h) EXCEPT !.n = @ - 1])
        /\ UNCHANGED <<cpuVars, killed>>
  /\ UNCHANGED <<ticks, ntx, sip, uartVars>>

\* uartputc(), for each byte of consolewrite().
WritePut(h) ==
  /\ At(h, "write")
  /\ IF ntx = UART_TX_BUF_SIZE
     THEN sleep(h, "tx") /\ UNCHANGED ntx
     ELSE /\ ntx' = ntx + 1
          /\ Goto(h, "start")
          /\ UNCHANGED cpuVars
  /\ UNCHANGED <<killed, ticks, cons, sip, uartVars>>

\* A turn of uartstart(), which the process and the handler call with the lock
\* held.
UartStart(h) ==
  /\ At(h, "start")
  /\ IF ntx = 0 \/ thr
     THEN /\ Goto(h, "sent")
          /\ UNCHANGED <<ntx, thr>>
     ELSE /\ ntx' = ntx - 1
          /\ fr' = Woken(fr, "tx")
          /\ thr' = TRUE
  /\ UNCHANGED <<cpuVars, killed, ticks, cons, sip, uirq, serving, rx>>

UartSent(h) ==
  /\ At(h, "sent")
  /\ release(h, "tx")
  /\ IF Top(h) = "intr" THEN Goto(h, "complete") /\ UNCHANGED killed
     ELSE IF Me(h).n > 1
     THEN /\ fr' = Frames(h, Acquiring([Me(h) EXCEPT !.n = @ - 1], "tx", "write"))
          /\ UNCHANGED killed
     ELSE Return(h)
  /\ UNCHANGED <<ticks, cons, ntx, sip, uartVars>>

\* sys_sleep() notes the time it starts at.
SleepStart(h) ==
  /\ At(h, "ticks0")
  /\ fr' = Frames(h, [Me(h) EXCEPT !.pc = "tick", !.arg = ticks])
  /\ UNCHANGED <<cpuVars, killed, ticks, cons, ntx, sip, uartVars>>

\* ticks - ticks0 < n, in unsigned arithmetic
Elapsed(f) == (ticks + UINT - f.arg) % UINT

SleepTick(h) ==
  /\ At(h, "tick")
  /\ IF Elapsed(Me(h)) >= Me(h).n \/ killed[h]
     THEN release(h, "ticks") /\ Return(h)
     ELSE /\ release(h, "ticks")
          /\ fr' = Frames(h, [Me(h) EXCEPT !.pc = "asleep", !.then = "tick"])
          /\ UNCHANGED killed
  /\ UNCHANGED <<ticks, cons, ntx, sip, uartVars>>

-----------------------------------------------------------------------------
(* Interrupts: usertrap() or kerneltrap(), and devintr()                   *)

Enter(h, f) ==
  /\ intr[h]
  /\ intr' = [intr EXCEPT ![h] = FALSE]
  /\ fr' = [fr EXCEPT ![h]["intr"] = f]
  /\ UNCHANGED <<lock, noff, intena, killed, ticks, cons, ntx, sip, uartVars>>

\* A timer interrupt; hart 0 keeps the time.
TakeTimer(h) ==
  /\ sip[h]
  /\ Enter(h, IF h = Hart0 THEN Acquiring(Nil, "ticks", "clock") ELSE [Nil EXCEPT !.pc = "ack"])

\* clockintr()
Clock(h) ==
  /\ At(h, "clock")
  /\ ticks' = (ticks + 1) % UINT
  /\ fr' = Woken(Frames(h, [Me(h) EXCEPT !.pc = "ack"]), "ticks")
  /\ release(h, "ticks")
  /\ UNCHANGED <<killed, cons, ntx, sip, uartVars>>

\* The return from an interrupt restores sstatus.
LeaveIntr(h) ==
  /\ intr' = [intr EXCEPT ![h] = TRUE]
  /\ fr' = [fr EXCEPT ![h]["intr"] = Nil]
  /\ UNCHANGED <<lock, noff, intena, killed, ticks, cons, ntx>>

Ack(h) ==
  /\ At(h, "ack")
  /\ sip' = [sip EXCEPT ![h] = FALSE]
  /\ LeaveIntr(h)
  /\ UNCHANGED uartVars

\* An external interrupt is offered to every hart; the first to claim it serves
\* it.
TakeExternal(h) ==
  /\ uirq /\ ~ serving
  /\ Enter(h, [Nil EXCEPT !.pc = "claim"])

Claim(h) ==
  /\ At(h, "claim")
  /\ IF uirq /\ ~ serving
     THEN /\ uirq' = FALSE /\ serving' = TRUE
          /\ Goto(h, "getc")
          /\ UNCHANGED <<cpuVars, killed, ticks, cons, ntx>>
     ELSE LeaveIntr(h) /\ UNCHANGED <<uirq, serving>>
  /\ UNCHANGED <<sip, rx, thr>>

Complete(h) ==
  /\ At(h, "complete")
  /\ serving' = FALSE
  /\ LeaveIntr(h)
  /\ UNCHANGED <<sip, uirq, rx, thr>>

\* A mutant of Getc: uartintr() only looks after input.
GetcOnly(h) ==
  /\ At(h, "getc")
  /\ fr' = Frames(h, IF rx = "none" THEN [Me(h) EXCEPT !.pc = "complete"]
                     ELSE Acquiring([Me(h) EXCEPT !.c = rx], "cons", "cons"))
  /\ rx' = "none"
  /\ UNCHANGED <<cpuVars, killed, ticks, cons, ntx, sip, uirq, serving, thr>>

\* uartintr(): the characters received go to consoleintr(), and then output
\* goes on.
Getc(h) ==
  /\ At(h, "getc")
  /\ fr' = Frames(h, IF rx = "none" THEN Acquiring(Me(h), "tx", "start")
                     ELSE Acquiring([Me(h) EXCEPT !.c = rx], "cons", "cons"))
  /\ rx' = "none"
  /\ UNCHANGED <<cpuVars, killed, ticks, cons, ntx, sip, uirq, serving, thr>>

-----------------------------------------------------------------------------
(* consoleintr()                                                           *)

Used == Len(cons.buf)

\* What the character does: erase the last one or, step by step, the line, or
\* append.
ConsoleIntr(h) ==
  LET c == Me(h).c
      erase == c \in {"bs", "kill"} /\ Used # cons.ready
      append == c \notin {"bs", "kill"} /\ Used < INPUT_BUF_SIZE IN
  /\ At(h, "cons")
  /\ cons' = [cons EXCEPT !.buf = IF erase THEN SubSeq(@, 1, Used - 1) ELSE @]
  /\ fr' = Frames(h, IF erase \/ append
                     THEN [Me(h) EXCEPT !.pc = "echo",
                             !.then = IF append THEN "store"
                                      ELSE IF c = "kill" THEN "cons" ELSE "consdone"]
                     ELSE [Me(h) EXCEPT !.pc = "consdone"])
  /\ UNCHANGED <<cpuVars, killed, ticks, ntx, sip, uartVars>>

\* uartputc_sync() waits for the transmit register.
Echo(h) ==
  /\ At(h, "echo") /\ ~ thr
  /\ thr' = TRUE
  /\ Goto(h, Me(h).then)
  /\ UNCHANGED <<cpuVars, killed, ticks, cons, ntx, sip, uirq, serving, rx>>

\* Mutants of Store: a full ring is no reason to wake the reader; or it is
\* nothing at all.
StoreWakesOnLine(h) ==
  LET line == Me(h).c \in {"nl", "eof"}
      done == Frames(h, [Me(h) EXCEPT !.pc = "consdone"]) IN
  /\ At(h, "store")
  /\ cons' = [buf |-> Append(cons.buf, Me(h).c),
              ready |-> IF line \/ Used + 1 = INPUT_BUF_SIZE THEN Used + 1 ELSE cons.ready]
  /\ fr' = IF line THEN Woken(done, "cons") ELSE done
  /\ UNCHANGED <<cpuVars, killed, ticks, ntx, sip, uartVars>>

StoreLinesOnly(h) ==
  LET line == Me(h).c \in {"nl", "eof"}
      done == Frames(h, [Me(h) EXCEPT !.pc = "consdone"]) IN
  /\ At(h, "store")
  /\ cons' = [buf |-> Append(cons.buf, Me(h).c),
              ready |-> IF line THEN Used + 1 ELSE cons.ready]
  /\ fr' = IF line THEN Woken(done, "cons") ELSE done
  /\ UNCHANGED <<cpuVars, killed, ticks, ntx, sip, uartVars>>

\* Line end, end-of-file and a full ring make what was typed available.
Store(h) ==
  LET line == Me(h).c \in {"nl", "eof"} \/ Used + 1 = INPUT_BUF_SIZE
      done == Frames(h, [Me(h) EXCEPT !.pc = "consdone"]) IN
  /\ At(h, "store")
  /\ cons' = [buf |-> Append(cons.buf, Me(h).c),
              ready |-> IF line THEN Used + 1 ELSE cons.ready]
  /\ fr' = IF line THEN Woken(done, "cons") ELSE done
  /\ UNCHANGED <<cpuVars, killed, ticks, ntx, sip, uartVars>>

ConsoleDone(h) ==
  /\ At(h, "consdone")
  /\ release(h, "cons")
  /\ fr' = Frames(h, [Nil EXCEPT !.pc = "getc"])
  /\ UNCHANGED <<killed, ticks, cons, ntx, sip, uartVars>>

-----------------------------------------------------------------------------
(* The devices: the timer, the keyboard, and the transmitter               *)

Timer(h) ==
  /\ h \in env.timers /\ ~ sip[h]
  /\ sip' = [sip EXCEPT ![h] = TRUE]
  /\ UNCHANGED <<cpuVars, fr, killed, ticks, cons, ntx, uartVars>>

Type(c) ==
  /\ rx = "none"
  /\ rx' = c /\ uirq' = TRUE
  /\ UNCHANGED <<cpuVars, fr, killed, ticks, cons, ntx, sip, serving, thr>>

Transmitted ==
  /\ thr
  /\ thr' = FALSE /\ uirq' = TRUE
  /\ UNCHANGED <<cpuVars, fr, killed, ticks, cons, ntx, sip, serving, rx>>

Step(h) ==
  \/ PushOff(h) \/ Spin(h)
  \/ ReadWait(h) \/ ReadTake(h) \/ WritePut(h) \/ UartStart(h) \/ UartSent(h)
  \/ SleepStart(h) \/ SleepTick(h)
  \/ Clock(h) \/ Ack(h) \/ Claim(h) \/ Complete(h) \/ Getc(h)
  \/ ConsoleIntr(h) \/ Echo(h) \/ Store(h) \/ ConsoleDone(h)

Next ==
  /\ \/ \E h \in Hart :
          \/ Step(h) \/ TakeTimer(h) \/ TakeExternal(h) \/ Kill(h) \/ Timer(h)
          \/ \E call \in env.calls[h] : Call(h, call)
     \/ \E c \in env.keys : Type(c)
     \/ Transmitted
  /\ UNCHANGED env

Spec == Init /\ [][Next]_vars

-----------------------------------------------------------------------------
(* Properties                                                              *)

Holds(h) == {l \in Lock : lock[l] = h}

\* Interrupts are off on a hart that holds a spin lock, waits for one or serves
\* an interrupt, so that a handler never spins on a lock that the code below it
\* holds; no lock is taken twice, and a hart back in its process or asleep has
\* them on again (spinlock.c: push_off and pop_off are matched, also inside a
\* handler).
InterruptsSafe ==
  \A h \in Hart :
    /\ At(h, "off") \/ At(h, "spin") => Me(h).want \notin Holds(h)
    /\ noff[h] = Cardinality(Holds(h)) + (IF At(h, "spin") THEN 1 ELSE 0)
    /\ intr[h] <=> noff[h] = 0 /\ Top(h) = "proc"

\* Nobody sleeps for what has already come: input, room in the output ring or
\* the time to wake up, unless somebody holds the lock and is about to wake the
\* sleepers (console.c:172, uart.c:153, trap.c:194); sys_sleep() counts in
\* unsigned arithmetic.
SleepersWait ==
  \A h \in Hart :
    /\ Sleeping(h, "cons") /\ lock["cons"] = NoHart => cons.ready = 0
    /\ Sleeping(h, "tx") /\ lock["tx"] = NoHart => ntx = UART_TX_BUF_SIZE
    /\ Sleeping(h, "ticks") /\ lock["ticks"] = NoHart =>
         Elapsed(fr[h]["proc"]) < fr[h]["proc"].n

\* Output never stalls: while characters wait in the ring, the transmitter is
\* busy and will interrupt, or its interrupt is due, or a handler has yet to
\* call uartstart() (uart.c:142), whichever hart claims it.
Starts(f) ==
  f.pc \in {"getc", "cons", "echo", "store", "consdone", "start"}
    \/ (f.pc \in {"off", "spin"} /\ f.want # "ticks")
OutputGoesOn ==
  ntx > 0 /\ lock["tx"] = NoHart => thr \/ uirq \/ \E h \in Hart : Starts(fr[h]["intr"])

\* The input ring never blocks: through every erasure and end-of-file put back
\* it holds no more than its size and no less than what readers may take, a
\* full ring can be read though no line has ended, and an ended line is not
\* withheld (console.c:159).
RingReadable ==
  LET idle == lock["cons"] = NoHart IN
  /\ cons.ready <= Used /\ Used <= INPUT_BUF_SIZE
  /\ idle /\ Used = INPUT_BUF_SIZE => cons.ready = Used
  /\ idle => \A i \in cons.ready + 1 .. Used : cons.buf[i] \notin {"nl", "eof"}
=============================================================================
