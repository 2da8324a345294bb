# xv6 with pluggable scheduling: a TLA+ verification project

The repository is a fork of the xv6 RISC-V teaching kernel. It adds three
scheduling policies that can be switched at run time, per-process time
accounting, exit messages and a few system calls. `vm.c` (page tables,
`copyin`/`copyout`) is not in the repository; it is modelled only by how the
code that is there uses it.

## 1. Inventory

| component | sources | state | operations | interacts with |
|---|---|---|---|---|
| Spin locks | `spinlock.c` | `lk->locked`, `lk->cpu`, `cpu->noff`, `cpu->intena`, the interrupt-enable bit | `acquire`, `release`, `holding`, `push_off`, `pop_off` | everything; interrupt handlers take the same locks as the code they interrupt |
| Context switch, sleep and wakeup | `proc.c` | `p->state`, `p->chan`, `p->lock`, `cpu->proc`, the saved contexts | `scheduler_old`, `sched`, `yield`, `sleep`, `wakeup`, `forkret` | holds `p->lock` across `swtch`; the condition lock is released only under `p->lock` |
| Process life cycle | `proc.c`, `sysproc.c`, `trap.c` | process table, `nextpid`, `wait_lock`, `p->parent`, `p->killed`, `p->xstate`, `p->exit_msg` | `allocproc`, `freeproc`, `fork`, `exit`, `reparent`, `wait`, `kill`, `killed`, `setkilled` | sleeps and wakes through the above |
| Scheduling policies | `proc.c`, `trap.c`, `sysproc.c` | `policy`, `p->accumulator`, `p->ps_priority`, `p->cfs_priority`, `p->rtime`, `p->stime`, `p->retime` | `scheduler`, `schedulerPriority`, `schedulerCFS`, `find_minimum`, `minimum_vruntime`, `check_vruntime`, `update_ticks`, `set_*` | every CPU runs its own loop; timer interrupts charge the accounts |
| Clock | `trap.c`, `sysproc.c` | `ticks`, `tickslock` | `clockintr`, `sys_sleep`, `sys_uptime` | `wakeup(&ticks)` |
| Sleep locks | `sleeplock.c` | `lk->locked`, `lk->pid` | `acquiresleep`, `releasesleep`, `holdingsleep` | sleep/wakeup |
| Buffer cache | `bio.c` | LRU list, `refcnt`, `valid`, `blockno`, the buffer's sleep lock | `bget`, `bread`, `bwrite`, `brelse`, `bpin`, `bunpin` | sleep locks, disk driver |
| Log | `log.c` | `outstanding`, `committing`, in-memory header, on-disk log and home blocks | `begin_op`, `end_op`, `log_write`, `commit`, `recover_from_log` | buffer cache, crash and reboot |
| Inode table | `fs.c` | `ip->ref`, `ip->valid`, the inode's sleep lock, the inode on disk | `ialloc`, `iget`, `idup`, `ilock`, `iunlock`, `iput`, `iupdate` | log, buffer cache; `itable.lock` and the sleep lock are held one after the other |
| Blocks of files | `fs.c`, `file.c` | bit map, block addresses, size, `f->off` | `balloc`, `bfree`, `bmap`, `itrunc`, `readi`, `writei`, `filewrite` | one transaction of the log for each chunk |
| Directories and path names | `fs.c`, `sysfile.c` | directory entries, `nlink`, `p->cwd` | `dirlookup`, `dirlink`, `namex`, `sys_link`, `sys_unlink`, `sys_open`, `create`, `sys_mkdir`, `sys_mknod`, `sys_chdir` | inode table |
| File table and descriptors | `file.c`, `sysfile.c` | `f->ref`, `f->type`, `p->ofile` | `filealloc`, `filedup`, `fileclose`, `sys_open`, `sys_dup`, `sys_pipe`, ... | pipes, inodes |
| Pipes | `pipe.c` | ring buffer, `nread`, `nwrite`, `readopen`, `writeopen` | `pipealloc`, `pipewrite`, `piperead`, `pipeclose` | sleep/wakeup, `kalloc` |
| Page allocator | `kalloc.c` | free list | `kalloc`, `kfree` | everything |
| Disk driver | `virtio_disk.c` | descriptor table, avail/used rings, `b->disk` | `virtio_disk_rw`, `virtio_disk_intr`, `alloc3_desc`, `free_chain` | device, interrupt |
| Console and UART | `console.c`, `uart.c` | input ring `r/w/e`, transmit ring | `consoleread`, `consoleintr`, `uartputc`, `uartstart`, `uartintr` | interrupt |
| Exec | `exec.c` | the inode it reads, the new image | `exec` | path names, inode table; page tables |
| mkfs | `mkfs/mkfs.c` | the image of a new disk | `main`, `ialloc`, `iappend`, `balloc` | the kernel must agree with it on the layout |
| init and shell | `user/init.c`, `user/sh.c` | tree of commands, descriptors, children | `parsecmd`, `runcmd`, the two main loops | `fork`, `exec`, `wait`, `pipe`, `dup`, `close`, `open` |
| VM, boot, trampoline, library, small programs, tests | `start.c`, `*.S`, `user/` | | | not modelled (see section 8) |

### What is hard, and what makes each part correct

- **Context switch.** A process becomes RUNNABLE or SLEEPING while it still
  runs on its kernel stack; `p->lock` is taken by one thread and released by
  another. Correct: no stack is used by two CPUs, `sched()` is entered with
  exactly one lock, a wakeup is never lost, nobody starves.
- **Life cycle.** `fork`, `exit`, `wait` and `kill` use `wait_lock` and many
  `p->lock`s in an order that must be acyclic, and slots are reused. Correct:
  parents are alive, a slot is freed only off its stack, every lock comes free
  again, orphans are reaped.
- **Policies.** The minimum a CPU schedules by is collected slot by slot while
  other CPUs change the table, and a policy switch calls one loop from inside
  another. Correct: the choice is a minimum, the policy is adopted, no process
  is forgotten, the stack suffices (up to a number of switches: section 6).
- **Log.** A crash may come between any two block writes, also during recovery.
  Correct: groups of calls are atomic, the reserved space suffices, whoever
  waits is woken.
- **Pipe.** Two sleep channels, a full and an empty ring, two reference counts,
  wrapping counters. Correct: it is a byte stream, misses no wakeup, is freed
  once and unused.
- **Disk driver and buffer cache.** Three parties (callers, handler, device)
  share queues; buffers are recycled between the release of a sleep lock and
  the drop of a reference. Correct: descriptors are neither lost nor shared, requests
  finish, a block has one buffer, readers see the last store.
- **Inodes and names.** A reference keeps an inode in memory, a link keeps it on
  disk, and `iput()` decides about both with two locks that it does not hold
  together. Calls fail half way. Correct: both counts are exact, whoever has a
  pointer has an allocated inode, no two calls wait for each other.
- **Blocks.** Two processes use one bit map, and a write stops where a copy or an
  allocation fails. Correct: every used block has one owner, a file holds what
  was written to it, a chunk fits the reservation.
- **Locks, interrupts and devices.** A handler may come between any two
  instructions at which interrupts are on, and takes the locks of the code below
  it. Input and output share one interrupt. Correct: interrupts are off whenever
  they must be and on again afterwards, nobody sleeps for what has come, output
  goes on, a full ring can be read.
- **Shell.** A pipeline ends only when every copy of an end of the pipe is closed,
  in processes that come and go in any order. Correct: the tree is that of the
  line, every program gets its descriptors and no others, nobody hangs.

`PROJECT.json` lists these hazards with their source lines and the properties
that cover them.

## 2. Plan

| | module | composes / refines | run | TLAPS |
|---|---|---|---|---|
| 1 | `Sched` | | `sched` | types, stacks, `sched()`, wakeups |
| 2 | `Proc` | | `proc` | `ParentAlive`, `FreedOffStack`, `BornAlive` |
| 3 | `Policy` | | `policy` | `RunningOnOne`, `PsPicksMinimum`, the stack, arithmetic |
| 4 | `Log` | refines `AtomicDisk` | `log` | all its properties, the refinement included |
| 5 | `Pipe` | refines `ByteStream` | `pipe` | `NoMissedWakeup`, `FreedUnused`, the refinement |
| 6 | `VirtioDisk` | | `virtio` | `DescriptorsOwned`, `NobodyWaitsInVain` |
| 7 | `Bcache` | extends `VirtioDisk` | `bcache` | `OneBuffer`, `CoherentReads` |
| 8 | `Inodes` | | `inodes`, `inode_orphan` | types, and all properties of `inodes` |
| 9 | `Blocks` | | `blocks` | types, and all its properties |
| 10 | `Devices` | | `devices` | types, and all its properties |
| 11 | `Shell`, `ShellParser` | the parser is a parameter of the rest | `shell` | `Wired`, `NobodyHangs`, `ForegroundDone` |

All modules are written, and all invariants proved but `ParseCorrect`, which compares
recursive definitions.

## 3. Modules and the code

Every mapped definition has its source lines in `PROJECT.json`. Conventions:

- A section under a spin lock that nobody can observe half done is one action;
  where code holds a lock across something observable (another lock, `swtch`,
  a device) the lock is a variable and the section several actions.
- `pc` names the point where a process is. `UNCHANGED` lists what a step of the
  code leaves alone.
- A definition whose comment begins with "A ... that ..." and describes a
  mistake (`YieldUnlocked`, `RecycleUnchecked`, ...) is not part of any
  specification: it stands next to the definition it distorts and shows that
  the properties notice it.

**`Sched`**: `Dispatch`, `Skip`, `Back` are the loop of `scheduler_old()`;
`YieldStart`, `Swtch`, `Resume` are `yield()`, `sched()` and the return in
`yield()` or `forkret()`; `AcquireSleep` ... `SleepReturn` are `acquiresleep()`
with `sleep()` inlined; `ReleaseSleep` ... `WakeupDone` are `releasesleep()`
with `wakeup()` inlined, one table slot a step; `Kill` is the part of `kill()`
that wakes. `on[c]` is the stack a CPU runs on, independent of `c->proc`.

**`Proc`**: the process table with `state`, `pid`, `parent`, `killed`, the locks,
and for each thread a `pc`. The system calls and faults of a program are
`UserFork`, `UserWait`, `UserKill`, `UserExit`, `UserFault` in any order. Every
scan of the table is one slot a step. Failure of memory allocation in `fork()`
and of `copyout()` in `wait()` are choices. Which CPU runs a thread is left out:
that is `Sched`.

**`Policy`**: the three loops on every CPU with `loop[c]` the innermost one,
`frames[c]` the bytes of the nested frames (80 or 96 each, from `kernel.asm`),
and the scan for the minimum, one slot a step. The system calls check their
arguments first (`sys_set_cfs_priority`, `sys_set_policy`; `sys_set_ps_priority`
checks nothing). `rtime`, `stime` and `retime` only enter a comparison through
`check_vruntime()`, whose integer division yields one, zero or minus one.
Hence `usage` keeps which of three cases a process is in; theorems
`VRuntimeExact` and `ChargeExact` show that this loses nothing. `waiting` is
auxiliary: who has been RUNNABLE since the scan of a CPU began.

**`Log`**, **`AtomicDisk`**: `begin_op`, `log_write`, `end_op`, `commit` and
`recover_from_log`; each `bwrite()` is a step and `Crash` may come between any
two. The buffer cache appears as `cache`: blocks of the transaction are pinned,
which `Bcache` is about. The abstract disk has a memory image and a durable
image; the second changes only while no call is active, in one step.

**`Pipe`**, **`ByteStream`**: each turn of the copying loops is a step, so
`kill()` may come between; `left` is `n - i`. `copyin()` and `copyout()` may
fail. The refinement maps the stream to the bytes between `nread` and `nwrite`.

**`VirtioDisk`**: `free`, `next`, `addr`, `info`, `status` are the driver's
tables, `avail` and `used` the unread parts of the rings. The device is
external: it fetches in order, finishes in any order, and interrupts for each
request. The interrupt handler is three actions, because the device goes on
while it holds the lock. `Kill` wakes a process that sleeps in the driver, which
the loops there must survive. A status other than 0 is a panic and the device
of the model never writes one.

**`Bcache`** extends `VirtioDisk`: a read or write is a call of the driver's
`virtio_disk_rw(p)`, `Returned(p)` joins with its `Finish(p)`, and `Transfer`
with the device's. The callers follow the discipline of `log.c` and `fs.c`: a
changed block is written, or pinned until it is.

**`Inodes`**: the inode table, the inodes on disk, directories as functions from
names to inode numbers, open files and current directories. A step goes from
taking an inode's sleep lock to giving it up or taking the next. `Start`, `Walk`,
`WalkEnd` are `namex()`; `Put`, `Trunc`, `Freed`, `Unref` are `iput()`, with the two
windows in which it holds only one of its locks; `Create*`, `Open*`, `Unlink*`,
`Link*`, `Chdir`, `Exec`, `Dup`, `Close`, `Fork`, `Exit` are the calls. A directory
entry may fail to be written, which stands for a full disk. `lost` is auxiliary:
it counts the links of a directory that went away with entries in it, which
`create()` in a removed current directory makes possible.

**`Blocks`**: `mkfs` first (`MkfsRoot`, `MkfsFile`, `MkfsEnd`, with one turn of `iappend()` a
step), then the kernel on the disk it made: `Write`, `WriteChunk`, `Bmap`, `Copy`,
`WriteEnd` are `filewrite()` with `writei()` and `bmap()`; `OpenTrunc`, `Bfree`,
`TruncEnd` are `itrunc()`, one block a step. A block is a row of cells, and an
indirect block is a block like any other. Programs write the file's own mark,
so that a byte in the wrong file shows. `copyin()` may fail in each turn.
`logged` collects the blocks of a transaction.

**`Devices`**: every hart has a process frame and, on top of it, the frame of an
interrupt handler. `acquire()` is `PushOff` and `Spin`; `release()` restores the
interrupt state. `TakeTimer` and `TakeExternal` may come whenever interrupts are
on. `Clock` is `clockintr()`, `SleepStart` and `SleepTick` are `sys_sleep()` in
arithmetic modulo `UINT`; `ReadWait`, `ReadTake`, `WritePut`, `UartStart`, `UartSent`
and `ConsoleIntr` ... `ConsoleDone` are the console and UART. The timer, the PLIC
and the UART itself are external. Erasing (`^H`, `^U`) is part of `ConsoleIntr`.

**`Shell`** and **`ShellParser`**: in `ShellParser`, `parsecmd()` and the parsers under it
are operators over a sequence of tokens; a command is a record as in the code. `Shell`
takes the parser as a parameter: `parse` is the tree of a line, `Command` the trees
with their parts, and `Wiring` the programs of a tree with the input and output of each.
It assumes only that trees are built of the five kinds of commands
(`CommandAssumption`) and what each kind does with input and output
(`WiringAssumption`); the run takes `parsecmd` and `WiringOf` for them, and TLC evaluates
both assumptions for all its lines. `RunExec` ... `RunBack` are the
cases of `runcmd()`, `InitFork`, `InitChild`, `InitWait` the loop of `init`, `ShStart`
... `Parse` the loop of the shell. `fork()`, `pipe()`, `open()` and `exec()` may fail.
A program runs until it exits; what it does is known only through the
descriptors it holds.

## 4. Runs

| run | instance | states | shows |
|---|---|---|---|
| `sched` | 2 processes, 2 CPUs, 1 sleep lock | 14,000 | stacks, `sched()` preconditions, no lost wakeup; liveness |
| `proc` | 3 slots, pids to 3, the first child may be killed | 32,000 | life cycle safety and liveness |
| `policy` | 2 processes, 1 CPU, all policies, 2 switches | 553,000 | minimum, policy adopted, idle machine finds work |
| `log` | 2 clients, 3 blocks, 4 log blocks, 2 crashes | 1.7 million | log refines the atomic disk; reservation; wakeups |
| `pipe` | 2 processes, 2 bytes, counters modulo 4, one victim | 348,000 | byte stream, wakeups, freeing, returns |
| `virtio` | 3 processes, 8 descriptors | 5,900 | descriptors, completions, interrupts |
| `bcache` | 2 processes, 2 buffers, 3 blocks | 470,000 | one buffer a block, coherent reads |
| `inodes` | 2 processes, 3 inodes, 1 open file, 12 calls | 2.3 million | link and reference counts, no stale pointer, no deadlock |
| `inode_orphan` | 2 processes that create and unlink one name | | *violation*: an inode is never freed |
| `blocks` | 2 processes, 3 files, 6 data blocks of 2 cells | 853,000 | block ownership, contents, size of a transaction |
| `devices` | 2 harts, three scenarios | 2.1 million | interrupt state, wakeups, output, input ring |
| `shell` | 7 slots, 3 pipes, all lines to 3 tokens and longer ones | 116,000 | parser against a second grammar, descriptors, children, no hang |

Each passing run takes between some seconds and four minutes with two workers.
`TypeOK` (`CacheTypeOK` in `Bcache`) has been checked as an invariant of each of
these instances too, and types are part of every inductive invariant of section 7;
the configurations spend their time on the properties above.

**Bounds.** Two processes and two CPUs are the least at which a stack can be
entered twice; a slot is reused within three slots and three pids, and a pid
counter that has reached `MaxPid` makes the next `fork()` fail, as for want of
memory. Two clients with a log of four blocks produce waiting, absorption and
commits of several blocks; two crashes suffice for a crash in recovery. Three
processes with eight descriptors leave one without (8 < 9) and two left over,
which the failing allocation takes and returns. Three blocks in two buffers
force recycling. Pipe counters modulo 4 with two bytes wrap in a few steps; the
code's 2^32 is a multiple of 512 as 4 is of 2 (`PipeAssumption`). The policy run has one
hart; the minimum under several harts is the theorem `PriorityIsMinimum`.
Three inodes are a root, a directory and a file in it; one process makes names
and the other removes, opens and runs them (`Requests` says which). One file
table entry makes `filealloc()` fail. In `blocks` a file has one direct block and
an indirect one of two addresses, a bit map block has one bit, and a write of
three cells is never aligned, so every chunk is as expensive as it can be;
six data blocks run out. `MAXOPBLOCKS` 6 is the least with a positive chunk.
Console rings of two and one character are full at once; counters modulo 3
wrap, and `UINT - 1` is what `sleep(-1)` passes. The three scenarios are sleeping
against writing, reading against writing, and two readers of which one is
killed. In `shell`, seven slots hold init, the shell, a background pipeline
and a part of the next line; a further `fork()` fails. `MaxAcc`, `MaxSwitches`,
`MaxPid`, `MaxN`, `HostMax` and `MaxCrashes` bound counters and inputs, in guards.

**Deadlock** is checked where the system may not stop. It may in `log` (a
panicked machine that has used up its crashes), `pipe` (everybody closed, or
reader and writer in the same process blocked), `bcache` (panic "bget: no
buffers") and `shell` (init has exited, or nothing more is typed).

**Symmetry** is used for `log` (clients, blocks), `bcache` (processes, blocks) and
`blocks` (processes). `log` checks a refinement that is a step property; no
liveness property is checked under symmetry.

## 5. Fairness

- `Sched`: a CPU executes, and a spinning `acquire()` is not starved by others
  (strong fairness on a CPU's steps); a timer interrupt stays pending while
  interrupts are off (strong, on `YieldStart`); a program that has a sleep lock
  gives it back, and its time slice is long enough for that.
- `Proc`: every thread is scheduled, locks are fair, and init calls `wait()`
  again and again (`user/init.c`). Nothing else need happen.
- `Policy`: a CPU in its scheduler goes on, and the timer interrupts a running
  process (weak).
- `Pipe`: as `Proc`; a killed process exits and so closes its files.
- `VirtioDisk`: the driver and the handler get `vdisk_lock` (strong), the device
  finishes what it has fetched (weak). A call that waits for descriptors may be
  overtaken for ever by later ones, since `wakeup()` wakes all and nobody
  queues; `RequestsFinish` therefore starts when a call has its descriptors.

The other modules state no fairness. That nobody waits in vain is said there as an
invariant on who is about to wake whom (`SleepersWillWake`, `SleepersWait`,
`OutputGoesOn`, `NeverStuck`, `NobodyHangs`): it needs no assumption on scheduling,
and with any fair scheduler it gives progress.

`RunnableRuns` holds of round robin only. The priority and CFS loops starve by
design; what they promise is that an idle machine finds work.

## 6. Where the code disagrees with its comments

**`inode_orphan`**: `iput()` (fs.c:336) frees the last reference to an unlinked
inode on disk with `itable.lock` released, and drops the reference only
afterwards. In between `ialloc()` may hand out the same number to a `create()` of
another process, and `iget()` finds the old entry. When that `create()` then fails
in `dirlink()`, its own `iput()` sees two references and frees nothing, and the
first process drops the last one without looking again. The inode stays
allocated with no link and no reference, against the comment at fs.c:332.

Seen while modelling, without a run of their own:

- `kill()` (proc.c:767) compares pids without a look at `p->state`: pid 0 matches a
  free slot, and `allocproc()` does not clear `killed`. `BornAlive` therefore holds of
  `kill()` with a positive pid; with 0 added to `KillPids` in `MCProc.cfg` TLC finds a process
  that is born killed.
- Scheduler loops call each other and never return (proc.c:540, 602, 637). Each
  change of policy leaves a frame of 80 or 96 bytes on a boot stack of 4096
  (`entry.S`). `StackLasts` proves that 41 changes fit; some fifty do not.
- `begin_op()` reserves against `LOGSIZE`, `log_write()` panics at `log.size - 1`, and
  `mkfs` makes `log.size` equal to `LOGSIZE` with the header in it (log.c:133, 220).
  Calls that write all they reserve meet the panic one block early. `log_write()`
  also panics on a full log for a block that would be absorbed. The step is
  `LogPanic`; `ReservationKept` shows that the reservation itself is right.
- `get_cfs_priority()` copies its answer out through the page table of the process asked
  about, not of the caller (proc.c:927).
- `ps_priority` is not checked by the system call, although proc.h:123 says 1 to 10.
  With a negative one an accumulator can reach the marker -1 of `find_minimum()`;
  the model takes `PsPriorities` from the natural numbers.
- `unlink()` of a directory that is somebody's current directory leaves its `..` as it
  is. Once the parent is removed too, `..` leads to a free inode, and `ilock()`
  panics ("no type"). The paths of the runs have no `..`.
- `create()` in a removed current directory succeeds, and what it makes is lost with
  the directory (`lost`).
- `mkfs` rounds the size of the root directory up and adds a whole block when it
  is aligned already (mkfs.c:166).
- `init` exits when `fork()` fails, and the kernel panics ("init exiting").
- Of two redirections of the same descriptor the first one wins, as the tree is
  run from the outside in.
- A `kill()` between `killed()` and `sleep()` (e.g. proc.c:471-478) sets the flag
  of a process that is still RUNNING and does not wake it: it sleeps on until its
  event comes.
- A killed pipe writer returns without `wakeup(&pi->nread)` (pipe.c:84-86), so
  readers sleep on bytes it wrote. `NoMissedWakeup` makes exactly this exception
  (`cut`).
- `piperead()` has advanced `nread` when `copyout()` fails: the byte is lost.
- A new process keeps the accumulator of the slot's last one (proc.c:168), whose
  comment says it gets the minimum. `ps_priority` starts as 0.
- `check_vruntime()` divides integers before it multiplies, so it is 0 or the
  weight, and minus the weight before the first tick (0/0 is -1 on RISC-V).
- `update_ticks()` runs on every CPU's timer, so times grow with the number of
  CPUs.
- The exit message is copied with the size of a pointer (proc.c:387), and `wait()`
  copies out the message of children that have not exited (proc.c:444).

## 7. Proofs

All are for every value of the constants under the named assumptions in the
component modules: table sizes positive, null values outside the sets they mark.
Some assume what the code fixes: the counters of a pipe wrap at a multiple of its
size (`PipeAssumption`, 2^32 and 512), the log has room for one reservation and a
call writes no more than it reserves (`LogAssumption`, param.h:9-10), a request
fits the descriptor table (`VirtioAssumption`, `NUM` at least 3), the buffers are
finitely many (`BcacheAssumption`), a `read()` or `write()` of the console is for at least
one byte (`DevicesAssumption`; one of none returns at once), the entries of the root
directory that `mkfs` makes do not fill a whole number of blocks (`RootAssumption`;
see section 6 for what happens otherwise), and a file, or the bit map, is small
enough for `itrunc()` to fit a transaction (`TruncAssumption`: `FSSIZE` is 2000 and
one block of the bit map has 8192 bits, so that `itrunc()` writes at most that one
and the inode). `RequestsAssumption` says that the paths of `Inodes` are names with or without
a leading `/`, and never `..`: with `..` in a path `HeldInodesCurrent` is false of the code
(section 6). Every inductive invariant below was checked by
TLC on the instance of its module before it was proved.

**`SchedProofs`**: `TypeCorrect`, `StackExclusion`, `SchedNeverPanics`,
`WakeupsAreNotLost`. None of the last three is inductive. `ExclusiveStack`
depends on who holds `p->lock`, so `LockOwner` says exactly when a CPU holds it:
as the process between `acquire` and `swtch` or as the scheduler behind it.
`Dispatched`, `OnState` and `OffState` tie the scheduler's loop variable and
`p->state` to the stack in use; together these are `LockInv`, proved first.
`NoLostWakeup` needs `LkOwner` (the same for the lock inside a sleep lock),
`SleepChan` (what a sleeper sleeps on) and above all `SleepTested`: from the test
to the release inside `sleep()` the condition is still false. That is `WaitInv`,
proved relative to `LockInv`.

**`PolicyProofs`**: `TypeCorrect`; `OneCpuEach`; `PriorityIsMinimum`, an action
property, from `PsInv`: what counts as waiting is still RUNNABLE
(`StillWaiting`), and the result of a scan is a lower bound on the waiting
processes it has passed (`ScanBound`). It holds because only a process on a CPU
is charged, so the accumulators of waiting ones do not move.
`VRuntimeExact` and `ChargeExact` are about the arithmetic, for all counter
values. `StackLasts` bounds the boot stack: `FramesPaid` charges every frame of every
CPU to a change of policy that the CPU has adopted, so that with at most 41
changes `StackFits` holds, whatever else happens. It is not inductive without the
count of changes and without knowing that a CPU whose loop is not the present
policy has one change still to pay.

**`PipeProofs`**: `WakeupsHappen`, from `LockOwner`, `SleepTested` (as above) and
`AsleepJustified`: whatever a sleeper waits for is still missing, or a process
in the middle of a copying loop has yet to call `wakeup()`. The property speaks of
moments when the lock is free and is not inductive by itself.
`PipeFreedUnused` needs the reference counts: `FdInv` says that `ref` of an end is the
number of processes that have it open (`RefCounted`), that an end stays open until its last
descriptor is closed (`OpenOwned`), that a call has its descriptor (`InCallOpen`), and
that only one process is on its way to `kfree()` (`FreedOnce`).
`PipeImplementsByteStream` takes `RingInv`: `nwrite - nread`, in the arithmetic of the
counters, is at most `PIPESIZE`. The rest is arithmetic, proved once as lemmas for all
widths: `% PIPESIZE` commutes with the wrapping of the counters since one divides the
other (`SlotInc`), different positions of the stream have different slots
(`SlotsDistinct`), so a write appends to `Contents` and a read takes its head.

**`PipeProofs`**, the shell: `ProgramsWired`, `PromptAfterLine`, `WaitFindsChild` and
`ShellNeverHangs`, for every set of trees with the two assumptions above.
`ShellInv` has two parts. `PlanInv` is about each process alone: the programs of the tree
it has left to run, started with the descriptors it has now, are among the programs
of the line (`PlannedTree`); descriptors 0 to 2 are open whenever `open()`, `dup()` or
`pipe()` is called, so that the lowest free one is the one the code counts on
(`CloseThenOpen`, `PipeFds`). `Wired` is the case of a tree that is one program.
`FamilyInv` counts the children of a process at every point of the code, through `exit()`
that gives children away and `fork1()` that fails; `ForegroundDone` and
`WaitersHaveChildren`, the first half of `NobodyHangs`, can be read off it, and neither is
inductive alone.

The other half, `NoCircles`, needs history. `HangInv` says that there are a tree of all processes
that ever ran, numbered as they came (`Forest`), and two children of the maker of each
pipe, its sides (`Sides`), such that a live process is below its parent, and holds an
end of a pipe only if it is on that side or below it (`Held`), or just makes
the pipe (`Beside`). `ShellInvStep` shows that every step is one of three kinds
(`TreeStep`): no process gets a new end (`Quiet`), `fork()` adds a node or takes a side of
the pipe being made (`Forks`), or `pipe()` takes a pipe that nobody has (`Pipes`).
Waiting then goes down the tree or across a pipe, and at one pipe always in one
direction. In a set of processes that all wait for one of the set, look at the lowest node
below which everybody waits for somebody below it: the members under a child of that node
that wait outside it do so across a pipe whose side the child is; so do those on the
other side of that pipe, back across the same pipe, which is the other direction
(`NoCircle`).

**`FsProofs`**, the log: `LogCacheAheadByLog`, `LogReservationKept`, `LogSleepersWillWake` and
`LogImplementsAtomicDisk`, from one invariant in three parts. `CtlInv` is about who
commits: nobody is in a call while a commit is in progress (`CommitAlone`),
`outstanding` counts the calls, and the tail of `commit()` finds a header that is in
order. `DataInv` follows the copies of a block: before the header is written the log
holds what the cache holds (`LogCopied`), after it the blocks already installed are
on the disk (`Installed`), and all others are behind the cache only if listed.
`ReserveInv` counts: a block that a call has written is listed, so that a second write adds
nothing (`WroteListed`), and each entry of the log is paid from a reservation. The
refinement maps `durable` to what recovery would restore. The header write is the
one step that changes it, and `Atomic!Sync` is what it does; `DataInv` is what makes
every later step, and every step of recovery, leave it alone.

**`FsProofs`**, the inodes: `InodesTypeCorrect`, `ReferencesCounted`, `HeldInodesCurrent`,
`LinksConsistent` and `InodesNeverStuck`, all from `FsInv`, whose parts need each other. `CallInv`
lists for every place in a call the pointers it has (`Shape`) and the inodes it has
locked (`Locks`); an inode's lock is held by exactly the call that has it there. That and
`RefCounts` tell `iput()` that with one reference nobody else holds or waits for the inode
(`RefAlone`). `AllocInv`: whatever is referred to is `Safe`, that is in use, not about to
be freed, and not what a `create()` has just taken from the disk, so that `ialloc()` never
finds an inode that somebody uses. `CacheInv`: a valid entry agrees with the disk unless
`iput()` is between the write of the free inode and the release of its lock; it is of
an inode in use if it has references, since otherwise `ialloc()` could hit an old valid
entry. `LinkInv` holds also within calls: it adds what each call owes (`Owes`), the link that `link()` has
counted in advance or that `unlink()` has still to take back. `FoundInv` keeps what a
call saw under the parent's lock. `TreeInv` says that a directory has one name, in
the directory that its `..` names, and `RankInv` that directories have ranks that fall along
names, so that there is no cycle. It is what makes `unlink()`, which waits for a child with
the parent locked, safe: in a set of processes that wait for each other each would hold a directory
below that of the one before. Only `CreateLink` makes a new edge, to a directory that has no entries
yet. Most steps change one call and at most two table entries; for these there are common
lemmas (`QuietInv`, `RelinkInv`, `EntryInv`, `FileInv`), one for each kind of data that changes.

**`ProcProofs`**: `ProcParentAlive`, `ProcFreedOffStack` and the action property
`ProcBornAlive`. `ControlInv` ties each thread's place in the code to `p->state`
(`StateOf`) and to the locks it holds (`LockHeld`, `WaitHeld`), and says what `fork()` has
set up so far (`ChildSetUp`). `ParentAlive` then needs `TreeInv`: init never exits, and a
process in `exit()` behind the scan of `reparent()` has no children below its position
(`Reparented`); `wait_lock` keeps new ones out. `BornAlive` needs `FreeClean`: an
unused slot is not marked killed, which is why the theorem assumes that nobody
calls `kill(0)` (section 6).

**`DiskProofs`**: for the driver `DiskDescriptorsOwned` and `DiskNobodyWaitsInVain`. Neither
is inductive: that `Submit` takes free descriptors and `Finish` gives back its own
needs `ChainsValid` and `ChainsDisjoint` (each request in flight is a chain of three
descriptors that are not free, no two share one), and that the handler finds the right
process needs `QueuesValid`: an entry of either ring, or in the device, is the first
descriptor of one request that has not finished, in one place. `MinIn` shows that
`alloc_desc()` finds what it looks for. For the cache `CacheOneBuffer` and
`CacheCoherentReads`: `CacheDrives` shows that the cache's steps are steps of the driver's
specification, so the driver's invariant holds here too. `CacheInv` adds who holds which
buffer (`CallsKept`), and three facts about contents: a valid buffer is current and a block in
an invalid one is current on disk (`ValidCurrent`); what the disk does not have is
pinned or in the hands of a caller that will write it, so that `bget()` never
recycles it (`DirtyKept`); and a finished request has been carried out
(`RequestsDone`, with the driver's `FinishedDone`).

**`DevicesProofs`**: `DevicesTypeCorrect`, `DevicesInterruptsSafe`, `DevicesSleepersWait`,
`DevicesOutputGoesOn` and `DevicesRingReadable`. `InterruptsSafe` says nothing about where
code runs, so `CtlInv` does: `HartsOk` lists the places where a process and where a
handler can be, allows a handler only on top of code with interrupts on, and gives `noff`
and `intena` for each (`intena` is what distinguishes a lock taken by a handler from
one taken by a process), and `LocksOwned` gives the holder of each lock as the hart that is
inside its section. Every step moves the top frame of one hart and may wake sleepers, so
the proof is one lemma about such moves (`CtlStep`), three special cases (same locks,
release, interrupt entry and exit), and their instances. The other properties follow from
`DataInv`, proved with `CtlInv`: `SleepInv` and `RingInv` hold also while a lock is held;
`RingInv` remembers that the handler found room for the character it is still echoing
(`RoomFound`), which nobody else can take away because of the lock; `OutInv` adds the process
inside `uartstart()` to those who keep output going.

**`BlocksProofs`**: `BlocksTypeCorrect`, `BlocksAreOwned`, `BlocksKeepContent` and
`BlocksOpFits`, from one invariant in four parts that need each other. `CtlInv` says that
a file's lock is held by the process inside `writei()` or `itrunc()`, what such a call has
before it (`CallOk`), and that an unlocked inode is on the disk (`Synced`). `OwnInv` is
ownership in a form that holds also in the middle of a call: `Names` are the slots of all
inodes without those that `itrunc()` has passed, no block has two of them, and every
block in use behind the metadata has one; for `mkfs` the blocks in use are those below
`freeblock`, and the others are zero (`Fresh`). `OwnedGain` and `OwnedLose` are the two ways
in which it changes, `balloc()` and `bfree()`, whatever the file. Ownership is also
why a store into one file's block, or into its indirect block, leaves every
other file's bytes and addresses alone, which `DataInv` needs: the bytes below the size, and
those below the position of a writer, were written. `LogInv` tells where each block that
a transaction has logged comes from: a slot of the chunk, or the bit of a slot that the
chunk filled. A chunk that begins inside a block touches one block more
than an aligned one but finds its first block there, so that it fills no more, and the
count comes out at `MAXOPBLOCKS`. The steps of `mkfs` are a separate group of
lemmas (`AppendDirect`, `AppendIndirect`).

## 8. What is only model-checked, and what is not modelled

Only model-checked, on the instances above: all liveness properties (fairness is
out of the prover's reach), and `ParseCorrect`, which compares recursive definitions.
That `parsecmd` and `WiringOf` have the two properties which `Shell` assumes is evaluated by
TLC for the lines of the run, since it too is an induction over trees.

Not modelled, and why:

- memory ordering below the level of locks, and assembly (trampoline, `swtch`,
  boot): `Sched` takes a context switch as one step;
- page tables and user memory: `vm.c` is not in the repository, and `copyin()`,
  `copyout()`, `uvmcopy()` are calls that may fail. Of `exec()` the models have the inode
  it holds and its outcomes, not the image;
- the page allocator, a free list under one lock: `kalloc()` is a call that may fail;
- `fstat()`, `sys_uptime()`, `procdump()`: they change nothing;
- how many buffers all calls together hold (`bget: no buffers` in a full system);
- `..` in path names (see section 6), and names longer than `DIRSIZ`;
- in the shell: failure of `malloc()`, the contents of messages, and `kill` of the
  shell's own processes;
- `printf`, string functions, the small programs and the tests: sequential code
  above the system calls, which the models let programs make in any order.
