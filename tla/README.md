# Verification of the miviex kernel

TLA+ models of the miviex kernel (a Unix-like x86-64 kernel in C), the TLC runs
that check them on small instances, and TLAPS proofs for every value of their
constants. `PROJECT.json` maps every definition to the lines it models, lists
the hazards of the code with the properties that cover them, and gives for each
property a plausible bug that breaks it.

## The system

One CPU. A system call runs with interrupts off from its entry to its return,
so the only places where two processes interleave inside the kernel are
`sleep_on()` and `scheduler_exit()`. User mode and the idle loop can be
interrupted anywhere. A process has one thread. Everything that sleeps does so
in a loop that tests its condition again; `wakeup(chan)` readies every sleeper
on an address.

| Part | Source | Modules | State |
|---|---|---|---|
| Run queues, sleep, wakeup | `proc/scheduler.c` | `Sched` | modelled, proved |
| fork, exit, wait4, reaping | `proc/scheduler.c`, `syscall/proc.c` | `Process` | modelled, partly proved |
| Signals | `proc/signal.c` | `Process` | modelled, partly proved |
| Groups and sessions | `proc/signal.c`, `drivers/tty.c` | `Process`, `Tty` | modelled, proved |
| Idle loop, timer, interrupts | `kernel.c`, `hal/isr.c`, `hal/clock.c` | `Process` | modelled |
| Sleeping calls (nanosleep, poll, ppoll, I/O) | `syscall/time.c`, `syscall/fs.c` | `Process` | loops, without deadlines |
| execve | `proc/exec.c` | `Process`, `Files`, `Memory` | signals, descriptors, memory |
| Pipes | `vfs/pipe.c` | `Pipe`, `Stream` | modelled, proved |
| Unix sockets | `net/socket.c` | `Socket` | modelled |
| Name space, mounts | `vfs/vfs.c` | `Vfs`, `Files` | modelled |
| Open files, descriptors | `vfs/file.c`, `syscall/fs.c` | `Files`, `Pipe` | modelled |
| ramfs | `vfs/ramfs.c` | `Ramfs`, `ByteFile` | modelled |
| Frames | `mm/pmm.c` | `Pmm` | modelled |
| Kernel heap | `mm/memory.c` | `Heap` | modelled |
| Address spaces, mmap, brk | `mm/vmm.c`, `syscall/mman.c` | `Memory`, `UserMemory` | modelled without permissions |
| Terminals | `drivers/tty.c` | `Tty` | input side modelled, proved |
| The rest | | | see "Not modelled" |

## Modules

### Processes

**`Sched`** is the scheduler as operators on a record: process states, ready
queues, the current process, wait channels, remaining ticks. Each C function is
an operator from the state before a call to the state after it, so a handler
that makes several calls is their composition, in the order of the code.
`scheduler_yield` takes the next process out before it puts the previous one
back, as the code does. The list of all processes is not stored: new processes
go to its head and pids only grow, so it is the descending order of pids, which
`ListOrder` gives to `Wake`. `ticks` counts with the quantum of the code
(2 + priority).

**`Process`** has the variables and actions. `pc[p]` says where process `p` is:
in user mode, in the loop of a blocking call, about to return through
`signal_deliver()`, halted (idle), or dead. An action is a whole call up to its
return or its sleep (`Fork`, `Wait4`, `Kill`, `Sigsuspend`, ...), a whole pass of
the loop after a wakeup (`Wait4Again`, `PauseAgain`, ...), one run of
`signal_deliver()` (`DeliverNone`, `DeliverDeath`, `DeliverFrame`), or an
interrupt (`Tick`, `DeviceIrq`, `SignalIrq`). `OtherCall` stands for every call
that is not modelled here, and for a modelled one that fails its checks. The
constant `Calls` says which calls which process makes, so that a run can
concentrate on a part. `frames` are the masks in the handler frames on the user
stack; `base` is a history variable.

The modules below do not build on `Sched`: which awake process goes on is left
open, which covers every schedule. A sleeper has a channel, and a wakeup or a
signal takes it away.

### Pipes and sockets

**`Pipe`** is one pipe with its ring buffer, the references to its two ends, and
the processes that share it. **`Stream`** is what a pipe promises, a bounded
FIFO of bytes with two ends that close; `IsStream` says that `Pipe` implements
it, with the ring read from its head as the queue.

**`Socket`** is every `sock_t` (`sk`), the names sockets are bound to, the
descriptors of each process, and for a process inside a call which call it is
(`pc`), its arguments and progress (`call`) and the socket it sleeps on
(`chan`). The actions are the calls (`sys_socket`, `sys_bind`, `sys_listen`,
`sys_connect`, `sys_accept4`, sends and receives on streams and datagrams,
`sys_shutdown`, close) up to their return or sleep, `Step` for the next turn of
a sleeping call's loop, and fork, exit, a signal, and the removal of a socket's
file. Closing the last descriptor runs the whole of `sock_free`: the peer is
told, what waits in a backlog is freed with its listener, and a name in the file
system is left as the file of a socket that is gone. A ring is the sequence of
the sizes in it; its index arithmetic is that of the pipe, which `Pipe` models.

### Files

**`Vfs`** is the kernel's tree as one record: inodes with link and reference
counts, dentries with their lists of children, mounts, open file descriptions.
Its operators are the functions of `vfs.c` and `file.c` from heap to heap: path
walks, `vfs_add_child`, unlink, rename with its ancestor check, mount and
umount. **`Ramfs`** is the data of a file as the page-sized buffer that the code
keeps, with the bytes beyond the size; **`ByteFile`** is what a file promises,
and `FilesAreByteFiles` says the buffers implement it. **`Files`** has the
processes, with descriptors, close-on-exec flags and current directories, and
one action per system call.

### Memory

**`Pmm`** is the frame allocator as operators on a record: the frames whose bit
is set and the counter that is kept beside them; `pmm_init` over a memory map
with the reserved ranges and the search for a place for the bitmap itself.
**`Heap`** adds the list of blocks: first fit, split, merge, growth by frames.
**`Memory`** composes both with address spaces: `as[p]` has the block of the
`address_space_t`, the PML4, the tables below it and the frame of every page.
Its actions are fork, execve, exit, brk, mmap, munmap, stack growth on a fault,
a store by the program, and the allocations of the rest of the kernel and of
drivers. Every allocation in them may fail because the machine has only so many
frames, so every error path is taken. **`UserMemory`** is what a process is
promised of its pages; `MemoryIsPrivate` says that `Memory` implements it.

### Terminals

**`Tty`** is the line discipline (`tty_input`, `edit`, `queue`), reads that
sleep, changes of mode, flush, hang-up, and the ownership of terminals by
sessions and foreground groups, with `setsid`, fork and exit as far as they
concern it. It has its own small processes: what `Process` says about groups is
not repeated, only `setpgid(0, 0)` is there.

**`SchedProofs`, `ProcessProofs`, `PipeRing`, `PipeProofs`, `PipeStream`,
`TtyProofs`** hold the proofs. `MC*` are the instances.

### Abstractions

- The caller of `kill` is privileged, and the caller of the file system calls is
  root; one who is not is refused more and reaches less.
- An interrupted call that is restarted is the program making it again.
- One channel `Io` stands for every pipe, socket and terminal in `Process`;
  whether its condition holds after a wakeup is left open. So are deadlines.
- `setup_frame()` may fail at any time (no restorer, no room on the stack).
- In `Process` the wrap of the 32-bit pid counter, load averages, leaving a
  handler by longjmp and return values are left out. In `Pipe`, pollers are
  (they sleep on the clock). A `writev` of more than PIPE_BUF bytes is a series
  of writes, as in the code; a shorter one is one write.
- In `Socket` a process has a socket at most once among its descriptors, a
  call that fails without changing anything is no step, and credentials,
  options and names that are only reported are left out. `sendmsg` and
  `recvmsg` are the sends and receives that they call.
- In `Files` times, owners and modes are left out. A path is a sequence of
  names, absolute or from a base; a trailing slash after a file is not one of
  the paths. Positions are small: the truncation of `pread` and `pwrite`
  positions of 2^32 and more to 32 bits is not in the model.
- In `Memory` user addresses count pages, a page holds 0 or something else, and
  kernel addresses are in units of which four make a page. The kernel half of
  an address space is shared and takes no frames after boot. Of the heap blocks
  of a process only the `address_space_t`, the texts of scripts and programs and
  the vectors are there: its `process_t`, its kernel stack and execve's copies of
  the arguments are among the blocks of the rest of the kernel (`KernelMalloc`).
- In `Tty` characters are named for what the mode makes of them. Echo and
  output are left out.

## Runs

| Run | Instance | Checks | States |
|---|---|---|---|
| `life` | init, a child, a grandchild | `SchedConsistent`, `ParentAlive`, `NoLostChild`, `GroupInOneSession` | 151,000 |
| `signals` | init and a child, 3 signals | `TypeOK`, `NoDeafSleeper`, `MaskComesBack` | 581,000 |
| `live` | init, two children, fairness | `WokenRunsAtOnce`, `ReadyRuns`, `KilledDies` | 21,000 |
| `pipe` | 3 processes, 2-byte ring, fairness | `TypeOK`, `Fifo`, `AtomicWrites`, `SleepersMustWait`, `FreedWhenUnused`, `IsStream`, `CallsEndWithPeer` | 446,000 |
| `socket` | 2 processes, up to 4 sockets | `TypeOK`, `NothingDangles`, `EveryLiveSocketIsHeld`, `SleepersMustWait`, `PollAgrees`, `EofIsFinal` | 660,000 |
| `files` | 2 processes, 2 descriptors each | `TypeOK`, `CountsAreExact`, `FreedWhenUnused`, `TreeIsATree`, `ScanGivesEachOnce`, `ReadOnlyNamesStand`, `FilesAreByteFiles` | 325,000 |
| `memory` | 7 to 19 frames, 2 processes | `TypeOK`, `FramesHaveOneOwner`, `HeapIsTiled`, `MemoryIsPrivate` | 211,000 |
| `tty` | 3 processes, 2 terminals | `TypeOK`, `NoDeafReader`, `ControlledBySession` | 259,000 |
| `priority` | as `live` | violation of `StrictPriority` | |
| `init_signal` | init and a child | violation of `InitGetsOnlyAsked` | |
| `socket_race` | 2 processes that connect | violation of `NothingDangles` | |
| `null_page` | as `memory` | violation of `NothingBelowMmapMin` | |

What the newer ones show:

- `socket`: two processes that share sockets close, exit, are killed, connect,
  accept and send in every order. The ends of a connection point at each other
  or nowhere, every socket has a descriptor or waits in one backlog, no sleeper
  misses what it waits for though readers, writers, connects and accepts share
  one address, a byte never follows an end of file, and poll never reports
  ready a socket on which the call would sleep.
- `files`: the counts that decide when an inode or a description is freed equal
  what refers to it, so nothing in use is freed, and nothing unused is kept but
  what a mount without memory loses (below); a rename never makes a cycle or an
  orphan; a directory read in pieces while it changes gives each lasting entry
  once; nothing is created, linked, renamed or removed on a read-only mount; and
  a file is the bytes written to it, with no byte of an earlier, longer content.
- `memory`: whatever allocation fails in fork, execve, mmap, brk or a fault,
  each frame in use has one owner, the blocks tile the heap, and a failed
  execve leaves the old image.
- `tty`: nobody sleeps in read with input, an end of file or a signal there,
  also when the mode changes under the reader; the line leaves room for its
  last character; a controlling terminal belongs to the session of each process
  that has it.

**Bounds.** Two queues (user and idle) stand for sixteen: the code uses these
two only. With `PRIO_USER = 0` the quanta are 2 and 3 ticks, so preemption is
frequent. `MaxPid = 3` gives a parent, a child and a grandchild, enough for
adoption, for disowning, and for a process that waits for one child while
another exits; pids are not reused, so a run ends its forks at `MaxPid`.
`MaxFrames` bounds nested handlers. `signals` uses SIGKILL, SIGCHLD (ignored by
default) and SIGUSR1 (fatal by default): the three kinds the code tells apart.
The pipe has 2 bytes and writes of 1, 2 and 3: one that leaves room, one that
fills it, one too long to be atomic. `MaxWrites` and `MaxRefs` (2 each) allow
two competing writers and an end shared by two processes.

The other four runs each hold several small instances, of which `lim` picks one
in the initial state; one instance asks one kind of question with the calls it
needs.

- `socket`: a stream pair with a 3-byte buffer and sends of 4, so that every
  send sleeps, with one shutdown or signal; listeners with a backlog of one and
  four sockets, so that a connect waits while another is queued, with a signal;
  datagrams of 2 to names that may be unlinked (one fits, two do not); datagram
  pairs; streams made by connect. A listen with 0 and with more than the
  backlog covers both ends of the clamp.
- `files`: directories moved with processes inside; files with several names;
  symlinks (2 may be followed, so loops end); descriptors; mounts with open
  files and current directories (2 attempts at most, each of which may find no
  memory); names made, linked, moved and removed in and around mounts, which may
  be read-only; a directory scanned while it changes; bytes. Pages have 2 bytes and files up
  to 4, so a write can start in, at and behind the end of a page. `seq` bounds
  the number of names ever made.
- `memory`: `Machines` are the heap alone with drivers, mmap and brk, the same
  for a program without a segment, and execve with scripts that nest, end, loop
  and name nothing. `Boots` are memory maps
  with a hole, unaligned ends and modules anywhere. `Forks` have every number of
  frames from too few for one image to just enough for two. Two levels of tables
  with two entries each have tables that are shared by pages, that become
  empty, and that cannot be made.
- `tty`: two readers of one terminal whose mode changes; two terminals and the
  sessions of three processes; a reader whose terminal is taken, interrupted or
  hung up. A buffer of 3 has the full queue, the full line, and a newline that
  does not fit. `MaxEof` bounds unread end-of-file marks.

Deadlock is not checked for `pipe`, `socket`, `files`, `memory` and `tty`:
everybody may have exited or sleep for good, and pools and events are bounded.

**Fairness.** `Continue` is weakly fair: the CPU does not stop inside the
kernel. `Tick` is strongly fair: the timer interrupt is latched while interrupts
are off and is taken when they are on again. Nothing is assumed of programs. In
`Pipe` an awake process goes on, which is `ReadyRuns` of `Process`. For sockets
and terminals, that nobody sleeps past what it waits for is stated as an
invariant, which needs no fairness.

**Assumptions on programs.** Two constants exclude uses that the code does not
guard against, so that the rest can be checked:

- `SharedConnect = FALSE` in `socket`: a socket on which one process sleeps in
  connect is not connected by another. `socket_race` is the run without it.
- `MountUsed = FALSE` in `files`: nothing is mounted on a directory that is
  open or somebody's current directory. `vfs_mount` gives the dentry of the
  mount point the children of the new root while the covered directory still
  refers to that dentry (`vfs.c:565-572`), so users of the directory then work
  on the mounted tree without being counted as its users and without being
  held to its read-only flag.

`FramesHaveOneOwner` keeps apart the frames in `m.lost`: `vmm_alloc_range`
(`vmm.c:343`) takes a frame and, when no page table can be made for it, returns
failure without giving it back. Everything else is accounted for exactly. In the
same way `Files` keeps apart what a mount loses when it runs out of memory: when
`ramfs_init` (`ramfs.c:156`) gets only one of the root's inode and dentry, or
`vfs_mount` (`vfs.c:553`) gets no `mount_t`, what was allocated is not given
back. Such an address is `LOST`, neither live nor free, and `CountsAreExact`,
`FreedWhenUnused` and `TreeIsATree` are about everything else.

### What the violations show

- `priority`: `process.h` says lower queues are always preferred, but
  `scheduler_yield()` picks before it queues the running process again. When the
  quantum of the only busy process ends, the idle process is chosen and halts
  the CPU up to the next interrupt. What does hold is `WokenRunsAtOnce`: a
  process that was woken or forked is never passed over that way.
- `init_signal`: `signal.c` says init only gets signals it has asked for. A
  blocked signal for which init has a handler stays pending over an `execve`
  of init, which resets the handler to the default.
- `socket_race`: `socket.c:13` says nothing points at a socket that can go away
  without being told. `stream_connect` tests the state of its socket before it
  sleeps for room in the backlog and not after. When two processes share the
  socket and both connect, the second overwrites the first's peer, and the
  first server end keeps a pointer that no close will clear.
- `null_page`: `vmm.h:35` says of `MMAP_MIN` "nothing below: a NULL dereference
  must fault", and `tests/exec.c` says that nothing may be mapped at page 0.
  `load_elf` tests each segment against it, but accepts a program that has no
  segment to load; its heap then starts at 0, and brk maps page 0. For programs
  with a segment nothing is below `MMAP_MIN`, which is part of `TypeOK`.

Behaviour met while modelling that no comment or test contradicts, and that the
models have as it is: a send on a datagram socket ignores an earlier shutdown;
a second listen with a larger backlog, and dissolving the association of a
datagram socket, wake nobody (`SleepersMustWait` says so); poll of a datagram
socket does not report a shutdown; an open that creates a file and then finds no
free descriptor leaves the file; a mount that becomes read-only leaves open
descriptors writing; a read that began in canonical mode goes on so when the
mode changes; TIOCSPGRP accepts any number; a mount that finds no memory leaks.

## Proofs

**Processes** (`SchedProofs`, `ProcessProofs`). For all numbers of processes and
queues, all sets of signals, actions, masks, groups and calls, from
`SchedAssumption` (there is a queue below `PRIO_USER` for idle; NULL is no
channel) and `ProcessAssumption` (types of the constants):

- `TypeCorrect`: `Spec => []TypeOK`
- `SchedulerConsistent`: `Spec => []SchedConsistent`
- `ParentsAlive`: `Spec => []ParentAlive`
- `GroupsInOneSession`: `Spec => []GroupInOneSession`

All four follow from `Invariance`, `Spec => []Inv`, where `Inv` adds to them
what makes them inductive:

- `IdleInLoop`: the idle process is in its loop, so no call is made by it and
  it never sleeps or exits; `pick_next()` always finds somebody.
- `FreshAreFree`: pids from `next_pid` on are unused, so a fork overwrites
  nobody, and nobody is already a child of the new process.
- `InitAlive`: init is there to adopt, since its exit halts the machine.
- `GroupsKnown`: groups have the numbers of pids that were given out. A group
  may outlive the process of its name, but pids are not given out again, so no
  later process can revive the name in another session.
- `GroupWithLeader`: while the process that a group is named after exists, the
  group is in its session. So `setpgid(p, p)` puts `p` into a group of its own
  session, and `setsid`, which refuses a caller whose pid names a group, makes a
  new one.

`SchedProofs` shows, for each operator of `Sched`, that it takes a consistent
state to a consistent one. Inside a call the current process may be BLOCKED or
TERMINATED already (`InCall`); `SwitchConsistent` shows that a yield ends this.
The arguments about queues are that `Append` and `Tail` of an enumeration
enumerate one process more or less, and that `ListOrder` enumerates its set.
`ProcessProofs` then has one lemma per action or group of like actions. Sends
and wakeups are chained through `Leads`, the relation between scheduler states
that all of them keep.

**Pipes** (`PipeRing`, `PipeProofs`, `PipeStream`). For a ring of any size, any
processes and any sizes of reads and writes, from `PipeAssumption` (types of the
constants; the ring and the sizes are not 0):

- `RingInBounds`: `Spec => []TypeOK`
- `BytesInOrder`: `Spec => []Fifo`
- `ShortWritesAtomic`: `Spec => []AtomicWrites`
- `NoLostWakeup`: `Spec => []SleepersMustWait`
- `FreedAtLastClose`: `Spec => []FreedWhenUnused`
- `PipeIsStream`: `Spec => IsStream`

They follow from `PipeInvariance`, whose invariant adds:

- `Counted`: `refs` is the number of descriptors of an end over all processes,
  an end is open while it is not 0, and who has exited has none. This is what
  keeps the other end of a sleeper's pipe open, and what a release relies on.
- `Entitled`: who is inside a read or a write has a descriptor for it, so the
  pipe is not freed under a sleeper.
- `InProgress`: each write in progress is its own, one that waits to fit has
  sent nothing, and one that was interrupted half-way is longer than the ring.
  Without it `AtomicWrites` is not inductive: a short write that went on could
  add to bytes it had sent before.

`PipeRing` has the arithmetic of the ring: moving the head takes a prefix off
(`RingTakes`), copying behind the tail adds a suffix (`RingAdds`), both across
the wrap; and that one process's descriptors change the count by as many
(`CountChange`). `PipeProofs` has one lemma per way a call can turn (`ReadKeeps`,
`WriteWaits`, `WriteSends`) and per kind of descriptor step (`PutKeeps`,
`MoreKeeps`). In `PipeStream` a read that finds bytes is a `Take`, a copy is a
`Put` of a chunk, the last close of an end is a `Close`, and nothing else shows.

**Terminals** (`TtyProofs`). For any terminals, processes, buffer size and
instances, from `TtyAssumption` (a buffer holds a character; pids are positive;
types of the instances):

- `BuffersHold`: `Spec => []TypeOK`
- `ReadersWake`: `Spec => []NoDeafReader`
- `TerminalsStayInSession`: `Spec => []ControlledBySession`

They follow from `TtyInvariance`, whose invariant joins the three with the types
of a terminal and of a process: who is alive has a session, which is never 0, so
nobody alive controls a terminal without a session; who is in `tty_read` has a
terminal. The proof goes from the line discipline (`QueueKeeps`, `EditKeeps`:
one character keeps the buffers, and if it wakes nobody it makes nothing to
read) over `Roused`, what wakeups and signals do to processes, to `OneTtyKeeps`:
a step on one terminal keeps the invariant if whoever still sleeps there has
nothing to read. `ReadTurnKeeps` is a turn of the read loop; that `taken`, a
minimum of positions, is a position uses the well-foundedness of `<`.

**Only model-checked:** the liveness properties (liveness and fairness are
beyond the prover), `NoLostChild`, `NoDeafSleeper`, `MaskComesBack`,
`WokenRunsAtOnce`, everything about sockets, files and memory, and the
refinements `FilesAreByteFiles` and `MemoryIsPrivate`. The invariants of
sockets, files and memory rest on sums and cardinalities over structures built
by recursive or folded operators, which need induction over data.

## Not modelled

- `keyboard.c`, echo and terminal output, `video/`: tables and layout.
- Page permissions, `mprotect`, `ioremap`, huge pages: no frame or page changes
  hands through them.
- `procfs` and `devfs`: nodes that are built when they are looked up or at boot,
  outside the tree of `Vfs`, and text; `initramfs`: a parser run once at boot.
- `cred.c`, limits: single assignments under a test of the caller's ids.
- stat, access, readlink: they only read. chmod, chown, utimens: attributes that
  nothing in the models reads.
- Deadlines: the sleeping calls are modelled with a wakeup that may or may not
  find its time come. `pselect` is not modelled.
- ELF headers, the argument stack, setuid of execve.
- ACPI, APIC, PCI, HPET, random numbers, the log, the kernel's libc, boot code:
  hardware set-up and output, with no protocol between two parties.
