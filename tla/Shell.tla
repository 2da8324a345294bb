------------------------------- MODULE Shell --------------------------------
(***************************************************************************)
(* The programs that users meet first: init (user/init.c) and the shell    *)
(* (user/sh.c), which parses a line into a tree of commands and runs the   *)
(* tree with fork(), pipe(), dup(), close(), open(), exec() and wait().    *)
(*                                                                         *)
(* A line is a sequence of tokens, as gettoken() cuts them; ShellParser    *)
(* has the parser.  A step is a system call that other processes can       *)
(* notice, with the calls on the process's own descriptors that follow it. *)
(* The system calls are taken by what they promise; those that need        *)
(* memory, a slot or a file may fail.  What the programs do that the shell *)
(* runs is not known, only when they have to wait for the other end of a   *)
(* pipe.                                                                   *)
(***************************************************************************)
EXTENDS Naturals, Sequences

CONSTANTS
  NPROC,         \* process slots; slot 1 is init
  NPipe,         \* bound on the pipes that exist at a time
  Sessions,      \* what is typed: sequences of lines
  Command,       \* the trees of the commands in Sessions, and their parts
  parse(_),      \* parsecmd(): the tree of a line
  Wiring(_, _, _) \* the programs of a tree, with the input and the output of each

ASSUME ShellAssumption == NPROC \in Nat \ {0} /\ NPipe \in Nat

VARIABLES
  proc,       \* the processes, with the parent each has and its descriptors
  session     \* the lines not yet read from the console

shellVars == <<proc, session>>

Slot == 1 .. NPROC
init == 1
Fd == 0 .. 4                    \* two more than are open between commands

CmdType == {"EXEC", "REDIR", "PIPE", "LIST", "BACK"}
Panic == [type |-> "PANIC"]

-----------------------------------------------------------------------------
(* Processes and open files                                                *)

\* An open file: the console, a file named in the line, or an end of a pipe,
\* which remembers the "|" it was made for.
Open(kind, id, at) == [kind |-> kind, id |-> id, at |-> at]
None == Open("none", 0, 0)
Console == Open("cons", 0, 0)
Standard == [d \in Fd |-> IF d < 3 THEN Console ELSE None]

\* An open file without the number of the pipe, as a tree gives it to a program.
Anonymous(o) == IF o.kind \in {"r", "w"} THEN Open(o.kind, 0, o.at) ELSE o

Line == UNION {{s[i] : i \in DOMAIN s} : s \in Sessions}
CommandOf(types) == {c \in Command : c.type \in types}
File == {Console} \cup {Open(c.mode, c.file, 0) : c \in CommandOf({"REDIR"})}
          \cup {Open(e, 0, c.at) : e \in {"r", "w"}, c \in CommandOf({"PIPE"})}

\* The parser makes trees of the five kinds of commands.
ASSUME CommandAssumption ==
  /\ \A s \in Sessions : s \in Seq(Line)
  /\ \A l \in Line : parse(l) \in Command \cup {Panic}
  /\ \A c \in Command : c.type \in CmdType
  /\ \A c \in CommandOf({"REDIR", "BACK"}) : c.cmd \in Command
  /\ \A c \in CommandOf({"PIPE", "LIST"}) : c.left \in Command /\ c.right \in Command
  /\ \A c \in CommandOf({"REDIR"}) : c.mode \in {"<", ">", ">>"}

\* A redirection changes one side of its command, a pipe joins two commands, and
\* the other kinds hand on what they have.
ASSUME WiringAssumption ==
  /\ \A c \in CommandOf({"EXEC"}), in \in File, out \in File :
       Wiring(c, in, out) = {[argv |-> c.argv, in |-> in, out |-> out]}
  /\ \A c \in CommandOf({"REDIR"}), in \in File, out \in File :
       Wiring(c, in, out) = IF c.mode = "<" THEN Wiring(c.cmd, Open("<", c.file, 0), out)
                            ELSE Wiring(c.cmd, in, Open(c.mode, c.file, 0))
  /\ \A c \in CommandOf({"PIPE"}), in \in File, out \in File :
       Wiring(c, in, out) = Wiring(c.left, in, Open("w", 0, c.at)) \cup
                            Wiring(c.right, Open("r", 0, c.at), out)
  /\ \A c \in CommandOf({"LIST"}), in \in File, out \in File :
       Wiring(c, in, out) = Wiring(c.left, in, out) \cup Wiring(c.right, in, out)
  /\ \A c \in CommandOf({"BACK"}), in \in File, out \in File :
       Wiring(c, in, out) = Wiring(c.cmd, in, out)

Unused == [st |-> "free", parent |-> 0, pc |-> "none", line |-> <<>>,
           cmd |-> Panic, fd |-> [d \in Fd |-> None], child |-> 0]

ShellPc == {"none", "init", "initwait", "initchild", "shstart", "prompt", "shfork", "shwait",
       "parse", "run", "listwait", "pipeleft", "left", "pipe2", "right", "wait1", "wait2",
       "end", "prog"}

ShellTypeOK ==
  /\ \A q \in Slot :
       /\ proc[q].st \in {"free", "live", "zombie"} /\ proc[q].pc \in ShellPc
       /\ proc[q].cmd.type \in CmdType \cup {"PANIC"}
       /\ proc[q].parent \in Slot \cup {0} /\ proc[q].child \in Slot \cup {0}
       /\ \A d \in Fd : proc[q].fd[d].kind \in {"none", "cons", "<", ">", ">>", "r", "w"}
  /\ session \in Seq(Line)

\* init has opened the console three times.
ShellInit ==
  /\ proc = [q \in Slot |-> IF q = init THEN [Unused EXCEPT !.st = "live", !.pc = "init",
                                                            !.fd = Standard]
                                        ELSE Unused]
  /\ session \in Sessions

Live == {q \in Slot : proc[q].st = "live"}
At(q, place) == proc[init].st = "live" /\ proc[q].st = "live" /\ proc[q].pc = place
Running(q, type) == At(q, "run") /\ proc[q].cmd.type = type
Children(q) == {c \in Slot : proc[c].st # "free" /\ proc[c].parent = q}

GoOn(q, place) == proc' = [proc EXCEPT ![q].pc = place]

\* exit(): descriptors are closed, children become init's.
\* init itself must not exit: the kernel panics, and nothing runs any more.
exit(q) ==
  proc' = [c \in Slot |->
             IF c = q THEN [Unused EXCEPT !.st = "zombie", !.parent = proc[q].parent]
             ELSE IF proc[c].st # "free" /\ proc[c].parent = q
             THEN [proc[c] EXCEPT !.parent = init] ELSE proc[c]]

\* fork() fails for want of a slot or of memory; the child runs on as the
\* record child.
FreeSlots == {c \in Slot : proc[c].st = "free"}
newslot == CHOOSE c \in FreeSlots : \A d \in FreeSlots : c <= d
Fork(q, parent, child) ==
  /\ FreeSlots # {}
  /\ proc' = [proc EXCEPT ![q] = [parent EXCEPT !.child = newslot],
                          ![newslot] = [child EXCEPT !.parent = q]]

\* fork1() panics if fork() fails.
fork1(q, parent, child) == Fork(q, parent, child) \/ exit(q)

\* wait() frees a zombie child, or fails if there are no children.
wait(q, place) ==
  \/ \E c \in Children(q) :
       /\ proc[c].st = "zombie"
       /\ proc' = [proc EXCEPT ![c] = Unused, ![q].pc = place]
  \/ /\ Children(q) = {}
     /\ GoOn(q, place)

\* The lowest free descriptor, which open(), dup() and pipe() return.
Lowest(fd) == CHOOSE d \in Fd : fd[d] = None /\ \A e \in 0 .. d - 1 : fd[e] # None
With(fd, o) == [fd EXCEPT ![Lowest(fd)] = o]
Close(fd, d) == [fd EXCEPT ![d] = None]

-----------------------------------------------------------------------------
(* init                                                                    *)

InitFork ==
  /\ At(init, "init")
  /\ \/ Fork(init, [proc[init] EXCEPT !.pc = "initwait"], [proc[init] EXCEPT !.pc = "initchild"])
     \/ exit(init)
  /\ UNCHANGED session

\* exec("sh"), which may fail
InitChild(q) ==
  /\ At(q, "initchild")
  /\ GoOn(q, "shstart") \/ exit(q)
  /\ UNCHANGED session

\* wait() returns the shell, which is started again, or a process without
\* parent.
InitWait ==
  /\ At(init, "initwait")
  /\ \/ \E c \in Children(init) :
          /\ proc[c].st = "zombie"
          /\ proc' = [proc EXCEPT ![c] = Unused,
                                  ![init].pc = IF c = proc[init].child THEN "init" ELSE @,
                                  ![init].child = IF c = @ THEN 0 ELSE @]
     \/ Children(init) = {} /\ exit(init)
  /\ UNCHANGED session

-----------------------------------------------------------------------------
(* main() of the shell                                                     *)

\* The console is opened until it gets a descriptor above 2, which is closed.
ShStart(q) ==
  /\ At(q, "shstart")
  /\ proc' = [proc EXCEPT ![q].pc = "prompt", ![q].child = 0,
                          ![q].fd = [d \in Fd |-> IF d < 3 /\ @[d] = None THEN Console ELSE @[d]]]
  /\ UNCHANGED session

\* getcmd(): at the end of input the shell exits; cd is done by the shell
\* itself.
Prompt(q) ==
  /\ At(q, "prompt")
  /\ \/ session = <<>> /\ exit(q) /\ UNCHANGED session
     \/ /\ session # <<>>
        /\ session' = Tail(session)
        /\ proc' = IF Head(session) # <<>> /\ Head(session)[1] = "cd" THEN proc
                   ELSE [proc EXCEPT ![q].pc = "shfork", ![q].line = Head(session)]

ShFork(q) ==
  LET p == proc[q] IN
  /\ At(q, "shfork")
  /\ fork1(q, [p EXCEPT !.pc = "shwait", !.line = <<>>], [p EXCEPT !.pc = "parse"])
  /\ UNCHANGED session

ShWait(q) == At(q, "shwait") /\ wait(q, "prompt") /\ UNCHANGED session

Parse(q) ==
  /\ At(q, "parse")
  /\ IF parse(proc[q].line) = Panic THEN exit(q)
     ELSE proc' = [proc EXCEPT ![q].pc = "run", ![q].cmd = parse(proc[q].line)]
  /\ UNCHANGED session

-----------------------------------------------------------------------------
(* runcmd()                                                                *)

\* exec() turns the process into the program; if it fails, the process exits.
RunExec(q) ==
  /\ Running(q, "EXEC")
  /\ \/ proc[q].cmd.argv # <<>> /\ GoOn(q, "prog")
     \/ exit(q)
  /\ UNCHANGED session

RunRedir(q) ==
  LET cmd == proc[q].cmd
      d == IF cmd.mode = "<" THEN 0 ELSE 1 IN
  /\ Running(q, "REDIR")
  /\ \/ proc' = [proc EXCEPT ![q].cmd = cmd.cmd,
                             ![q].fd = With(Close(@, d), Open(cmd.mode, cmd.file, 0))]
     \/ exit(q)
  /\ UNCHANGED session

RunList(q) ==
  LET p == proc[q] IN
  /\ Running(q, "LIST")
  /\ fork1(q, [p EXCEPT !.pc = "listwait"], [p EXCEPT !.cmd = p.cmd.left])
  /\ UNCHANGED session

ListWait(q) ==
  /\ At(q, "listwait")
  /\ \/ \E c \in Children(q) :
          /\ proc[c].st = "zombie"
          /\ proc' = [proc EXCEPT ![c] = Unused, ![q].pc = "run", ![q].cmd = @.right]
     \/ /\ Children(q) = {}
        /\ proc' = [proc EXCEPT ![q].pc = "run", ![q].cmd = @.right]
  /\ UNCHANGED session

\* pipe(): two new descriptors, or a panic.
PipeIds == {k \in 1 .. NPipe : \A q \in Slot : \A d \in Fd : proc[q].fd[d].id # k
                                   \/ proc[q].fd[d].kind \notin {"r", "w"}}
RunPipe(q) ==
  LET k == CHOOSE i \in PipeIds : \A j \in PipeIds : i <= j
      at == proc[q].cmd.at IN
  /\ Running(q, "PIPE")
  /\ \/ /\ PipeIds # {}
        /\ proc' = [proc EXCEPT ![q].pc = "pipeleft",
                                ![q].fd = With(With(@, Open("r", k, at)), Open("w", k, at))]
     \/ exit(q)
  /\ UNCHANGED session

\* The descriptors of the pipe that q has just made.
p0(q) == CHOOSE d \in 3 .. 4 : proc[q].fd[d].kind = "r"
p1(q) == CHOOSE d \in 3 .. 4 : proc[q].fd[d].kind = "w"

PipeLeft(q) ==
  LET p == proc[q] IN
  /\ At(q, "pipeleft")
  /\ fork1(q, [p EXCEPT !.pc = "pipe2"], [p EXCEPT !.pc = "left"])
  /\ UNCHANGED session

\* A mutant of Left: the process keeps the read end of the pipe it writes to.
LeftKeepsEnd(q) ==
  LET fd == proc[q].fd IN
  /\ At(q, "left")
  /\ proc' = [proc EXCEPT ![q].pc = "run", ![q].cmd = @.left,
                          ![q].fd = Close(With(Close(fd, 1), fd[p1(q)]), p1(q))]
  /\ UNCHANGED session

\* close(1), dup(p[1]), and the two ends are closed.
Left(q) ==
  LET fd == proc[q].fd IN
  /\ At(q, "left")
  /\ proc' = [proc EXCEPT ![q].pc = "run", ![q].cmd = @.left,
                          ![q].fd = Close(Close(With(Close(fd, 1), fd[p1(q)]), p0(q)), p1(q))]
  /\ UNCHANGED session

\* A mutant of PipeRight: the shell waits for the commands before it closes the
\* pipe.
PipeRightOpen(q) ==
  LET p == proc[q] IN
  /\ At(q, "pipe2")
  /\ fork1(q, [p EXCEPT !.pc = "wait1"], [p EXCEPT !.pc = "right"])
  /\ UNCHANGED session

\* The second fork; the parent then closes both ends.
PipeRight(q) ==
  LET p == proc[q] IN
  /\ At(q, "pipe2")
  /\ fork1(q, [p EXCEPT !.pc = "wait1", !.fd = Close(Close(@, p0(q)), p1(q))],
              [p EXCEPT !.pc = "right"])
  /\ UNCHANGED session

Right(q) ==
  LET fd == proc[q].fd IN
  /\ At(q, "right")
  /\ proc' = [proc EXCEPT ![q].pc = "run", ![q].cmd = @.right,
                          ![q].fd = Close(Close(With(Close(fd, 0), fd[p0(q)]), p0(q)), p1(q))]
  /\ UNCHANGED session

\* A mutant of PipeWait1: one wait() for two commands.
PipeWaitOnce(q) == At(q, "wait1") /\ wait(q, "end") /\ UNCHANGED session

PipeWait1(q) == At(q, "wait1") /\ wait(q, "wait2") /\ UNCHANGED session
PipeWait2(q) == At(q, "wait2") /\ wait(q, "end") /\ UNCHANGED session

RunBack(q) ==
  LET p == proc[q] IN
  /\ Running(q, "BACK")
  /\ fork1(q, [p EXCEPT !.pc = "end"], [p EXCEPT !.cmd = p.cmd.cmd])
  /\ UNCHANGED session

EndRun(q) == At(q, "end") /\ exit(q) /\ UNCHANGED session

\* A program ends.
ProgExit(q) == At(q, "prog") /\ exit(q) /\ UNCHANGED session

-----------------------------------------------------------------------------
ShellStep(q) ==
  \/ InitChild(q) \/ ShStart(q) \/ Prompt(q) \/ ShFork(q) \/ ShWait(q) \/ Parse(q)
  \/ RunExec(q) \/ RunRedir(q) \/ RunList(q) \/ ListWait(q)
  \/ RunPipe(q) \/ PipeLeft(q) \/ Left(q) \/ PipeRight(q) \/ Right(q)
  \/ PipeWait1(q) \/ PipeWait2(q) \/ RunBack(q) \/ EndRun(q) \/ ProgExit(q)

ShellNext == InitFork \/ InitWait \/ \E q \in Slot : ShellStep(q)

ShellSpec == ShellInit /\ [][ShellNext]_shellVars

-----------------------------------------------------------------------------
(* Properties                                                              *)

\* Every program starts with the input and output that its place in the line
\* gives it, the console for errors and no other descriptor, however commands,
\* pipes, lists and redirections nest (sh.c: runcmd, which relies on the lowest
\* descriptor being taken).
Wired ==
  \A q \in Slot : proc[q].pc = "prog" =>
    LET p == proc[q] IN
    /\ [argv |-> p.cmd.argv, in |-> Anonymous(p.fd[0]), out |-> Anonymous(p.fd[1])]
         \in Wiring(parse(p.line), Console, Console)
    /\ p.fd[2] = Console /\ \A d \in Fd : d > 2 => p.fd[d] = None

Holders(kind, k) == {q \in Live : \E d \in Fd : proc[q].fd[d].kind = kind /\ proc[q].fd[d].id = k}
Waiting == {"initwait", "shwait", "listwait", "wait1", "wait2"}

\* Whom a process waits for: wait() for the children, a program for the end of
\* its input and, while no program reads it, for somebody to read its output.
WaitsFor(q) ==
  LET p == proc[q]
      readers == Holders("r", p.fd[1].id) IN
  CASE p.pc \in Waiting ->
         IF \E c \in Children(q) : proc[c].st = "zombie" THEN {} ELSE Children(q)
    [] p.pc = "prog" ->
         (IF p.fd[0].kind = "r" THEN Holders("w", p.fd[0].id) ELSE {}) \cup
         (IF /\ p.fd[1].kind = "w"
             /\ ~ \E r \in readers :
                  proc[r].pc = "prog" /\ proc[r].fd[0] = Open("r", p.fd[1].id, p.fd[1].at)
          THEN readers ELSE {})
    [] OTHER -> {}

\* Whoever calls wait() has a child, whichever fork() failed before, so that the
\* message it prints has been set (sh.c:104, 132, 186, init.c:46): init always
\* finds the shell or an orphan.
WaitersHaveChildren ==
  proc[init].st = "live" => \A q \in Live : proc[q].pc \in Waiting => Children(q) # {}

\* Processes do not wait for each other in a circle, through wait() and the pipe
\* ends they hold.
NoCircles ==
  LET waits == [q \in Live |-> WaitsFor(q)]
      waiting == {q \in Live : waits[q] # {}} IN
  \A S \in SUBSET waiting : S # {} => \E q \in S : waits[q] \cap S = {}

\* No line hangs: nobody waits for children it does not have or in a circle,
\* wherever a fork(), pipe() or exec() fails (sh.c:110).
NobodyHangs == WaitersHaveChildren /\ NoCircles

\* The prompt comes back when the line is done: the shell has no child left
\* then, and a command that ends as planned leaves a child behind only for "&"
\* (sh.c:139, 184).
ForegroundDone ==
  \A q \in Live :
    /\ proc[q].pc = "prompt" => Children(q) = {}
    /\ proc[q].pc = "end" => Children(q) = {} \/ proc[q].cmd.type = "BACK"
=============================================================================
