# A TLA+ verification of the OS/161 kernel of azurespider

The repository holds three programs: OS/161 (`src/os161`), a teaching operating
system in C for a MIPS machine; phenom (`src/phenom`), a stock analysis in Java
with download scripts; and AzureSpider (`src/AzureSpider`), Ruby scripts that
fetch web pages. The last two are batch programs: they compute or fetch, print
and end. The program whose correctness depends on interleavings, failures and
shared state is the kernel of OS/161 (`src/os161/kern`), and this project is
about it.

Paths below are relative to `src/os161/kern` unless they say otherwise.

## 1. The system and its parts

```
   user programs (src/os161/{bin,sbin,testbin,lib})
   ------------------------------------------------ traps, system calls
   userprog/  loadelf, runprogram, uio      arch/mips/mips/dumbvm, ram
   fs/vfs/    device table, paths, vnodes, current directories
   fs/sfs/    the simple file system     dev/lamebus/emu  host file system
   dev/generic/ console, random, clock   dev/lamebus/ lhd, lser, ltimer, lamebus
   main/      menu, shutdown, reboot
   thread/    threads, scheduler, clock, semaphores, locks
   lib/       queue, array, bitmap, heap, kprintf, kgets, copyin/copyout
   arch/mips  interrupt levels, traps, context switch
```

One processor. Interrupts are the only concurrency below the thread system:
`splhigh` turns them off, and code between `splhigh` and `splx` runs alone unless
it calls `mi_switch`. Threads are preempted by `hardclock`, which ends in
`thread_yield`. Semaphores and locks are built on `thread_sleep` and
`thread_wakeup`; the drivers, VFS and SFS are built on semaphores and locks.

| Part | Code | Modules | State |
| --- | --- | --- | --- |
| Threads, scheduler, clock | `thread/thread.c`, `scheduler.c`, `hardclock.c` | `Threads`, `ThreadsProofs` | modelled |
| Storage of the thread lists | the same, with `lib/queue.c`, `lib/array.c` | `ThreadTables`, `StorageProofs` | modelled |
| Semaphores and locks | `thread/synch.c` | `Synch`, `AtomicSynch`, `SynchProofs` | modelled but for destruction |
| Condition variables | `thread/synch.c:188-242` | | stubs in the code |
| Ring buffer | `lib/queue.c` | `Queue`, `Fifo`, `StorageProofs` | modelled |
| Bitmap, array | `lib/bitmap.c`, `lib/array.c` | `Containers` | modelled |
| Heap | `lib/kheap.c` | `Kheap`, `Allocator` | modelled |
| User memory, uio | `lib/copyinout.c`, `userprog/uio.c` | `UserMem` | modelled |
| String functions, printf | `src/os161/lib/libc` | `Libc`, `Printf` | what the kernel uses |
| Random numbers | `src/os161/lib/libc/random.c` | `LibcRandom` | every function |
| Menu, line input | `main/menu.c`, `lib/kgets.c` | `Menu` | parsing, dispatch, editing |
| Interrupts, traps, switching, bus | `arch/mips/mips/{spl,trap,interrupt,pcb,syscall}.c`, `exception.S`, `switch.S`, `dev/lamebus/lamebus.c` | `Interrupts`, `KernelProofs` | modelled but for detaching |
| Console and serial port | `dev/generic/console.c`, `dev/lamebus/lser.c`, `lib/kprintf.c` | `Console`, `ConsoleProofs` | modelled |
| Disk driver | `dev/lamebus/lhd.c` | `Lhd`, `AtomicDisk`, `KernelProofs` | modelled |
| Emulator file system | `dev/lamebus/emu.c` | `Emu` | handles, vnodes, the card |
| Small devices, device vnodes | `fs/vfs/device.c`, `devnull.c`, `dev/generic/*`, `ltimer.c`, `lscreen.c` | `Drivers` | modelled |
| Memory, program loading | `dumbvm.c`, `ram.c`, `userprog/loadelf.c`, `runprogram.c` | `Vm` | modelled |
| Shutdown, reboot, panic | `main/main.c`, `lib/kprintf.c`, `thread/*.c` | `Shutdown`, `KernelProofs` | modelled |
| VFS: table of devices | `fs/vfs/vfslist.c` | `DevTable` | modelled |
| VFS: paths and references | `fs/vfs/*.c` | `Vfs`, `VfsProofs` | references and mounting |
| SFS | `fs/sfs/*.c` | `Sfs`, `Files` | one operation at a time |
| SFS vnode table | `fs/sfs/sfs_vnode.c` | `SfsVnodes` | load and reclaim, interleaved |
| SFS byte-level I/O | `fs/sfs/sfs_vnode.c:417-513` | `SfsIo`, `StorageProofs` | modelled |
| SFS block I/O | `fs/sfs/sfs_io.c` | `SfsRetry` | modelled |
| Kernel tests, user programs, phenom, AzureSpider | | | not modelled, section 7 |

`PROJECT.json` lists every part with its files, the line ranges each definition
stands for, the hazards of the code at their lines and the properties that cover
them.

## 2. How the modules correspond to the code

**An action is a stretch of code nobody can get into.** At the level of threads
that is a section at `splhigh`, up to the point where `mi_switch` gives the
processor away; a thread woken in `thread_sleep` is still inside its section.
That such a section is not interrupted is itself a property of the code below:
`LevelsTrue` of Interrupts. In the drivers and above, P, V, `lock_acquire` and
`lock_release` are atomic steps: that they may be seen so is what
`SynchRefinesAtomic` proves.

### Threads and what they stand on

**Threads.** `curthread` (`NULL` in the idle loop), the run queue, the array of
sleepers, the zombies, the thread structures in use, `numthreads`, `t_sleepaddr`,
`lbolt_counter`, and two things the C code has implicitly: where each thread is
(`pc`) and on whose stack the processor runs (`stack`). Actions: `thread_fork`,
`thread_exit`, `thread_yield`, `clocksleep`, its loop, `hardclock`, the end of the
idle loop, and users of `thread_sleep` and `thread_wakeup`. A new thread starts in
`mi_threadstart` and not behind `mi_switch`, so it does not call `exorcise`.

**Synch** is `P`, `V`, `lock_acquire` and `lock_release` on top of all actions of
Threads. `holds` is what each thread believes to hold, apart from the lock's
`owner`. `SynchSpec` has clients that release only what they hold, `CarelessSpec`
clients that release anything: `lock_release` does not stop them.
**AtomicSynch** is what `include/synch.h` promises.

**ThreadTables** abstracts from who the threads are, and has instead what Threads
leaves out: how large the lists are, what `thread_fork` preallocates, and
allocations that fail.

**Interrupts** is one level lower than Threads. The processor's enable bit and
`curspl` are two variables which `splx`, `cpu_idle`, traps and returns from them
change in separate steps, and an interrupt may come wherever the bit is set. Each
thread has a stack of the code it is in (kernel or user code, system call, fault,
interrupt), each frame with the local variables that outlive a switch: the saved
level, `old_in`, and in `lamebus_interrupt` the slot and the mask of pending
interrupts that were read before. The timer's handler calls `mi_switch` from the
middle of that loop. Booting probes for cards and attaches handlers with
interrupts on.

**Shutdown** has the threads as running, ready, asleep or dropped, the lock of the
device table and the disk as the two things a thread can sleep for on the way
down, and `panic` with its stages. A panic may strike any thread or a handler, at
any place; every stage can itself panic, which starts `panic` again one stage
further.

### Memory and library

**Queue** is the ring with its indices; it implements **Fifo**. **Containers** has
the words of the bitmap and the storage of the array, each with what it stands for
(a set, a sequence) as a history beside it. **Kheap** has the pages, the page
references, the lists of pages by size and the free lists inside the pages; pages
and page references run out. It implements **Allocator**.

**UserMem**, **Libc**, **LibcRandom**, **Printf**, **Menu** and **Drivers** are functions on values
(a memory, a uio, a line) written as the C code is, with loops as folds: word or
byte copies by alignment, `strtok_r` in place, bounds with wrapping addresses,
digits written backwards in a buffer. Each comes with a definition of what should
come out, stated without the algorithm. A C function that writes through pointers
returns the memory it leaves.

**Vm** has the physical pages that `getppages` hands out and nobody gives back, the
TLB, address spaces, and threads that load programs byte by byte, run, write, fork
and exit, switched between any two of these steps. `image` is what a thread itself
has put where. `vm_panic` is where the code panics.

### Devices

**Console** has the boot thread's early output, user writes and reads, `kprintf`,
output by handlers and at `splhigh` (polled), the interrupt handler, and the card
as the driver uses it. **Lhd** has several threads with requests of several
sectors, the card with its one buffer and its result word, media errors and
failing copies; **AtomicDisk** is what a client relies on. **Emu** has the card with
its registers and open handles, `e_lock`, and threads that look up, create, read,
write, drop references and so reclaim vnodes; each request may fail, closes too.
The cards are external: what they do is taken from how the drivers use them.

### File systems

**DevTable** is the table of known devices with its names; **Vfs** follows
references to vnodes: every lookup is a sequence of steps (`getdevice`, then
`vfs_lookup` or `vfs_lookparent`), other threads run in between, and each step may
fail. `held` are the references in local variables of a call under way. A path is
where it starts (current directory, boot directory, root of the current file
system, device) and whether a name follows. The reclaim of a vnode may fail, which
leaves its last reference behind (`orphans`).

**Sfs** writes each function of the code as an operator that gives the set of its
outcomes (file system, error, result), so that every read error, lack of memory
and full disk is an alternative at the very place where it happens, and error
paths are followed as the code has them. A block holds one unit of data or one
directory entry. The freed blocks and the out-of-date ones on disk are `Garbage`,
so that a use of them shows. **Files** is what a file system promises: names,
files as sequences of blocks, operations that change one of them. **SfsIo** has
the cutting of byte ranges into blocks that Sfs abstracts from, **SfsRetry** the
retries below a block transfer, **SfsVnodes** the interleaving of
`sfs_loadvnode` and `sfs_reclaim`.

### Suites

Components that share no state are model-checked in one run: `MCDevices`
(Console, Lhd, Emu) and `MCKernel` (Queue, ThreadTables, SfsIo, Kheap, Containers,
Vm, Shutdown, DevTable and the functions) choose in the initial state which of
them, the `subject`, the behaviour is about. In MCKernel the subject "functions"
takes every input of the pure functions in turn, one state for each.

## 3. What the runs check

| Run | Module, config | Distinct states | Shows |
| --- | --- | --- | --- |
| threads | `MCThreads` | 64,190 | every live thread is in exactly one place; the stack in use is never freed; nobody overtakes on the run queue; a runnable thread runs; `clocksleep` returns |
| synch | `MCSynch` | 46,830 | no wakeup is lost; locks exclude; the code implements atomic semaphores and locks, and what is available is eventually taken by a waiter |
| interrupts | `MCInterrupts` | 154,184 | the enable bit, `curspl`, `in_interrupt` and `curkstack` agree whatever interrupts, faults and switches; a card with a handler is served |
| kernel | `MCKernel` | 114,661 | the subjects below |
| devices | `MCDevices` | 201,463 | the drivers' idea of their cards is right, output is complete and in order, sectors are atomic, handles and vnodes of emufs agree, every call returns |
| vfs | `Vfs`, `MCVfs.cfg` | 795,032 | reference and open counts are exact on all paths; a file system in use is mounted |
| sfs | `MCSfs` | 52,956 | no check in the code finds an inconsistency; each used block has one owner; link counts are exact; success means done; the file system implements `Files` |
| careless_release | `MCSynchCareless.cfg` | | *violated*: a release by a thread that does not hold the lock |
| fork_preallocates | `MCThreadTables.cfg` | | *violated*: what `thread_fork` preallocates is one too few for the run queue |
| stray_interrupt | `MCInterruptsStray.cfg` | | *violated*: interrupts that no card asserts never lead to the panic |
| sfs_retry | `MCSfsRetry.cfg` | | *violated*: a failed write reported as a success |
| sfs_reclaim_race | `MCSfsVnodes.cfg` | | *violated*: a vnode is destroyed while another thread takes a reference |

The properties of the run **kernel**, by subject:

- `ImplementsFifo` (queue): the ring is a queue through every wrap, growth and
  failed allocation. `NoOverflow` (tables): the thread lists do not overflow
  where the code may not fail, and the sleepers are preallocated.
- `TransferAccounted` (sfs_io): whole blocks are aligned, and every byte moved
  is accounted for in the uio and in the size of the file.
- `HeapConsistent`, `ImplementsAllocator` (kheap): the checks that `kheap.c` only
  compiles in when debugging never fail; nothing in use is handed out again and
  nothing that was freed is lost.
- `ContainersExact`: the bitmap is a set and the array a sequence.
- `ProgramMemory` (vm): a program reads back what was loaded or written, whoever
  ran in between; no translation outlives its owner.
- `NamesResolve` (names): what was added or mounted is found under each of its
  names, `pwd` names the place it is at, and a file system leaves the table only
  after a sync that succeeded. It assumes that no volume is given a name that is
  taken: the code does not check that on mounting.
- `PanicsAlone`, `SystemStops` (shutdown): once the other threads are dropped none
  comes back, and panic and shutdown reach their end.
- `UserMemoryExact`, `LibcExact`, `CommandsExact`, `DriversExact` (functions): for
  each input, what the algorithms compute is what their reference definitions say.
  For `random` the input is a program that sets up, seeds and switches between state
  arrays, and the reference one stream per array. Programs that call `setstate` for the
  array that is current are left out. `random.c:344` says that this is OK, but the code
  reads the rear pointer from the array before it saves it there, so that the pointers
  go back to where they were when the array was last set aside.

The violated properties each state what a comment, an assertion or a header of
the repository says; `PROJECT.json` quotes the line under "findings":

1. `assert(lock->owner = curthread)` in `lock_release` assigns (`synch.c:162`).
2. `scheduler_preallocate(numthreads+1)` asks for slots, and the ring keeps one
   of them free (`scheduler.c:41`).
3. `lamebus_interrupt` returns on a stray interrupt before it checks the number of
   duds; the comment above says that it does not (`lamebus.c:293`).
4. `sfs_rwblock` retries with a uio that is used up (`sfs_io.c:46`).
5. `sfs_reclaim` gives up the lock before it takes the vnode out of the table
   (`sfs_vnode.c:879`).

Other things the modelling brought up, about which the repository says nothing to
hold the code to, or which no caller in it reaches:

- `con_input` counts every key in `cs_rsem` and keeps only the last in
  `cs_gotchar` (`console.c:129`): keys typed faster than they are read come out
  as repetitions of the last. What holds, and is checked, is that the last arrives.
- `sfs_truncate` compares with `<` where `<=` would be needed (`sfs_vnode.c:1111`,
  `1124`), so that a truncation to a length within the indirect block's range keeps one
  block too many. The kernel itself truncates to 0 only, where nothing is kept.
- `vfs_doadd` does not free the names of a device it refuses (`vfslist.c:307`).
- When `sfs_rename` undoes the link of a rename that failed it lowers the link count
  without marking the inode dirty again; it had been marked for the link.
- The menu's program thread uses the words of the command line while the menu reads
  the next; `menu.c:90-92` says so itself.
- `vm_fault` returns `EFAULT` without restoring the interrupt level
  (`dumbvm.c:97`); `mips_trap` restores it for every trap, so that `LevelsTrue` holds.

### Bounds and why they are enough

- threads: four threads, so that one runs (or the machine idles on the stack of
  one that exited), one sleeps, one is queued and one is a zombie; structures
  are used again after they are freed. `HZ = 2` gives ticks with and without a
  wakeup of `lbolt`. Two addresses: `lbolt` and another.
- synch: three threads, one semaphore and two locks: a holder, a waiter and a
  newcomer that gets there first, and a thread that holds one lock while it
  waits for another. `MaxCount = 2` bounds V by a guard.
- interrupts: two threads, the timer, a disk and the controller: the loop over the
  slots is left in the middle by the timer's switch and the other thread takes the
  disk's interrupt. One stray interrupt (two in stray_interrupt, where the limit
  of duds is 1 for 10000).
- kernel, queue and tables: a ring from 2 to 8 slots with two elements is wrapped
  and doubled twice at every position; five threads outgrow lists of 2 and 4
  entries (the code starts with 32: the doubling is the same). `MaxDead` bounds
  the zombies between two calls of `exorcise`.
- kernel, sfs_io: blocks of 3 bytes and positions up to 10 give every combination
  of leading part, whole blocks and trailing part with every end of file.
- kernel, kheap: pages of 8 bytes with blocks of 2 and 4, three pages and two page
  references, so that either runs out first; requests of 1, 3 and 9 bytes take
  either size of block or two whole pages.
- kernel, containers: 4 bits in words of 3, so that the last word has bits past the
  end; arrays of up to 4 members with a shrinking threshold of 3.
- kernel, vm: two threads, programs of one, two and three segments, two TLB
  entries and eight pages: memory and TLB fill up and two programs fit.
- kernel, names: three devices, one of which is named like another's raw name, and
  volumes named like devices.
- kernel, shutdown: two threads: the one that goes down, and one that holds what it
  needs.
- kernel, functions: addresses are 3 bits with `USERTOP` at 5; machine words are 2
  bytes; numbers have 5 bits; lines have up to 6 characters and 3 words; keys come
  in sequences of 4; the random generator has the modulus 127 in 8 bits (the code has
  2^31-1 in 32: the split of the product is the same); `random` has polynomials of
  degree 3 to 5 and discards one round of the table after seeding instead of ten (whole
  rounds leave the pointers where they were); its programs have up to three calls, with
  one or four draws after each, so that both pointers wrap; screens are 2 wide.
- devices: two writers, a `kprintf`, the boot thread, a reader, two keys and one
  polled character; one writer's newline becomes two characters. Two disk threads
  with every pair of six requests, which overlap, end at the last sector, pass it,
  are empty or misaligned. emufs: two threads with two calls, the root and two more
  handles and vnodes, transfers of up to two pieces and one retry of a close.
- vfs: two threads, one disk with a root and one file, one file open per thread
  and one failing reclaim. A second disk or a device adds names, and no new way
  to gain or lose a reference.
- sfs: seven blocks, of which four are free, so that files, the directory and
  indirect blocks compete for space and the disk fills up; two direct blocks and
  one in the indirect block; two names (symmetric) and one datum beside zeros;
  one reference per vnode held by callers and one block lost.

The runs check for deadlock except where the system really may stop: kernel (the
machine is switched off, memory is used up), devices (all threads finish),
interrupts (the kernel panics) and sfs (a kernel that gives up on an I/O error
stops), and two of the violated ones.

### Fairness

- Threads, Synch: strong fairness of `hardclock` (the timer comes again and again
  and its line stays up until served, so interrupts that are off for a while do
  not lose it), weak fairness of the idle loop's exit and of code that runs with
  interrupts off. No fairness of the threads' own calls: a thread may loop for
  ever, and others run nevertheless.
- Interrupts: the processor executes the next instruction (weak fairness), and takes
  a pending interrupt if the enable bit is set again and again (strong fairness:
  the line stays up, and the bit is on for long stretches between sections). None
  for cards.
- Console, Lhd, Emu: weak fairness of each thread (`RunnableRuns` is what the
  scheduler gives them; that a waiter on a semaphore gets its turn, when the
  number of operations is finite, is `ImplementsAtomicFairly`), of the card's
  completion and of the interrupt handler. None for keys being struck, and none for
  beginning a call of emufs.
- Shutdown: strong fairness of each thread's next step and of its turn on the
  processor: the run queue is first come, first served (`NoOvertaking`), so that
  who is preempted again and again still gets on. Weak fairness of the timer and of
  the disk's answer. None for beginning a panic or a reboot.

## 4. What is proved

TLAPS checks seven modules. Six hold the theorems about components, for any sets
of threads, vnodes, sectors and so on, and any bounds; `InductionFacts` holds what
they share. The assumptions are the ones named in the components (`ThreadAssumption`,
`SynchAssumption`, `TablesAssumption`, `QueueAssumption`, `LhdAssumption`,
`ConsoleAssumption`, `InterruptsAssumption`, `SfsIoAssumption`, `VfsAssumption`),
which TLC evaluates in the runs: that special values are not threads or vnodes, that
sizes are positive, that `Thread`, `VfsThread` and `Vnode` are finite (they are
counted), and for the console that the boot thread's text fits the delay buffer and
that nobody prints an empty text with `kprintf`.

| Module | Theorem | Property of a run |
| --- | --- | --- |
| `ThreadsProofs` | `TypeCorrect`, `EveryThreadInOnePlace`, `StackNeverFreed`, `QueueInOrder` | `TypeOK`, `OnePlace`, `StackInUse`, `NoOvertaking` |
| | `EverySleeperFindable`, `NumthreadsExact` | |
| `SynchProofs` | `SynchTypeCorrect`, `WakeupsNotLost`, `LocksExclude` | `SynchTypeOK`, `NoLostWakeup`, `MutualExclusion` |
| | `OwnersLive`, `SynchRefinesAtomic` | |
| `StorageProofs` | `TablesNeverOverflow`, `RingIsFifo`, `TransfersAccounted` | `NoOverflow`, `ImplementsFifo`, `TransferAccounted` |
| `ConsoleProofs` | `ConsoleOutputExact` | `OutputExact` |
| | `SerialUnitKept` | part of `CardsAgree` |
| `KernelProofs` | `LevelsAlwaysTrue`, `LhdIsAtomicDisk`, `PanicGoesOnAlone` | `LevelsTrue`, `ImplementsAtomicDisk`, `PanicsAlone` |
| | `LhdCompletion` | part of `CardsAgree` |
| | `IntInvariant`, `DroppedForGood` | |
| `VfsProofs` | `CountsExact`, `InUseStaysMounted`, `VfsTypesHold` | `RefcountExact`, `FsInUseIsMounted`, `VfsTypeOK` |

**Threads.** `ThreadsInv` is the conjunction of `TypeOK`, `OnePlace`, `StackInUse`,
`SleepersFindable` and `CountsThreads`. None of the last four is inductive alone:
`mi_switch` keeps a thread in one place only because whoever calls it is on none
of the lists; the stack stays allocated in the idle loop only because it belongs
to a thread that is a zombie or asleep, which `OnePlace` tells apart; counting
needs that the new structure was in no list. The proof has a lemma for `mi_switch`
(`SwitchFacts`, `SwitchInv`), which every action that gives up the processor uses,
one for `thread_wakeup` (`WakeupFacts`), and one per action; four lemmas about
sequences (`AppendFacts`, `HeadTailFacts`, `ConcatFacts`, `InOrderFacts`) say what
moving threads between lists does to their ranges and to injectivity.
`QueueInOrder` is about steps: from `OnePlace`, a thread that a step adds to the run
queue was not in it, so nobody already there moves.

**Synch.** `SynchInv` adds `SynchTypeOK`, `NoLostWakeup`, `MutualExclusion`,
`OwnerLives` and `PcTells`. `PcTells` says what a thread's place tells of where it
is in the code (a free structure is nowhere, a sleeper is in P or `lock_acquire`),
which is what a loop that goes on after a sleep relies on. The steps of the thread
system alone are shown to be *calm*: they put nobody to sleep on a semaphore or
lock, destroy no holder, and begin and end no wait; what remains is one lemma per
operation. `SynchRefinesAtomic`: every step of the code is a step of
`AtomicSynch` or leaves it unchanged, where a thread waits from its first sleep
until it has what it wants.

`LocksExclude` is about `SynchSpec`, whose clients release only what they hold: the
run careless_release shows that the code does not enforce it.

**Storage.** `TabInv` adds to `NoOverflow` the types and `EveryThreadListed`: a
thread that counts in `numthreads` runs, is queued or is asleep. It is this sum that
makes the arrays, preallocated to `numthreads`, long enough when a thread goes to
sleep. `RingIsFifo` needs no more than `QTypeOK`: a lemma per operation says what it
does to the sequence that the indices cut out of the ring (`AddInPlaceFacts`,
`RemheadFacts`, `PreallocateFacts`, `GrowAndAddFacts`), where the copying loops of
`q_grow` move a part of a wrapped ring. That the doubling loops end at a size that is
large enough is `DoublingFacts`.

**Disk.** `LhdInv` has one user of the device (`OneUser`), and for that user what the
card, its buffer, `lh_result` and `lh_done` are at each place of `lhd_io`
(`Serves`). The refinement to `AtomicDisk` has the whole sector change hands in the
step in which the card finishes.

**Console.** `ConInv` follows the unit of `cs_wsem` (`UnitPlaced`: in the semaphore,
with a thread that has taken it, or with the card that is busy) and the state of the
card (`CardState`: what was handed to it is on the wire or in its register). For each
outputter `AllThere` says that what it handed to the card, what `putch` still has of
the current character (a newline is two) and what is in the delay buffer are together
the translation of the part of its text that it has begun. `ConPlaces` ties these to
the place in the code, and `InTurns` has the writes by the order of
`con_userlock_write`. Without `ConPlaces` and `InTurns` neither of the other parts is
kept by a step. What a filter over a sequence and a translation of it do when the
sequence grows by one is `FromAppend` and `ExpansionAppend`.

**Panic, transfers.** `StopInv` has one thread running and, once `thread_panic` has
run, all the others dropped; the stages at which `panic` can start again are in it.
`SfsIoInv` follows `uio_offset`, `uio_resid`, `extraresid` and the positions moved
through the partial first block, the whole blocks and the partial last one; the
lemmas under it are about division by the block size.

**Interrupts.** `IntInv` describes the stack of frames of every thread: what a frame
saved is the level and the enable bit of the code below it, a handler is never below
another, and a thread that is not running was left with interrupts off and will set
`curspl` from its own saved level. `LevelsTrue` speaks of the running thread alone and
is not kept by a switch.

**Vfs.** `VfsInv` has the counts as sums over threads (current directories, open
files, references held by calls under way), and `LocalOK`: for each place in each
operation, which vnodes the call holds in which local variable. That makes every error
path show which references it gives back. `SumChanges` says what a step that changes
one thread's part does to the sum.

**Induction** is over sets. The induction theorems of the library take a predicate,
which the provers here cannot instantiate; `NatSetInduction` and
`FiniteSetInduction` take the set of values for which something holds, proved from
the least element of a set of naturals. From them come what a counting loop reaches
(`LoopReaches`), when two recursive functions over a sequence agree (`StepsAgree`), and
that the fold of `FiniteSetsExt` over addition is a sum (`FoldIsSum`).

`Ends` has the two operators on the end of a sequence that Vfs and Interrupts use, as
in SequencesExt, whose many other definitions every proof obligation would carry.

## 5. What is only model-checked

- Liveness (`RunnableRuns`, `ClocksleepReturns`, `ImplementsAtomicFairly`,
  `InterruptServed`, `SystemStops`, `DriversReturn`): out of the prover's reach.
- Kheap with `ImplementsAllocator`, Containers, Vm, DevTable, Emu, Sfs with
  `ImplementsFiles`, SfsVnodes and SfsRetry, for the bounds above. Nothing about them
  is out of reach in principle; their inductive invariants are long.
- What the functions of Libc, LibcRandom, Printf, UserMem, Menu and Drivers compute,
  for the inputs above. They are folds over a memory, and each needs an induction of
  its own.

## 6. Abstractions to keep in mind

- Vfs leaves out names: a path is where it starts and whether a name follows, and
  `vfs_doadd` has run before the initial state. DevTable has the names and no
  references. Names are compared, not spelled.
- Vfs loads and reclaims a vnode in one step. That SFS does not is SfsVnodes; emufs,
  which takes a lock for both, has them step by step in Emu.
- Sfs runs one operation at a time. SFS holds no lock over an operation; what can
  happen then is modelled for `sfs_loadvnode` and `sfs_reclaim` only.
- Sfs has no failing block writes, because `sfs_rwblock` never reports one
  (SfsRetry); what is then on the disk is not followed.
- The clients of semaphores and locks in Synch neither create nor destroy them.
- Console: the allocations of `config_con` succeed, and nobody calls `getch` beside
  the user reads.
- Interrupts has what a thread does between `splhigh` and `splx` as sleeping, waking
  and yielding only; registers and page tables are not in it.
- Shutdown has one lock and one disk for the locks and devices of the file systems.
  A panic in the idle loop is left out: it has no thread that could sleep.
- Vm: a segment's contents are "from the file" or zero, and the checks of the ELF
  header are one failure.
- Emu leaves out file contents; a transfer counts in pieces of `EMU_MAXIO`.
- Offsets and sizes in Sfs, SfsIo and Vfs are natural numbers in the range of the
  model; where wrapping matters (UserMem, Drivers, Printf, Vm) numbers have a width.

## 7. What is not modelled and why

- Condition variables, the exercises in `asst1`, the template in `vm/addrspace.c`:
  stubs in the code.
- Registers in `exception.S` and `switch.S`, cache and TLB instructions, `start.S`:
  Interrupts takes them as "saved and restored", since there is nothing in the
  model a register could be wrong for.
- Two operations of SFS interleaved block by block, with the static buffers of
  `sfs_bmap`, `sfs_partialio` and `sfs_truncate`: an instance with indirect blocks,
  two threads and a step for every block access is beyond what TLC explores in minutes. So
  is the sleep inside `thread_exit` when it drops the current directory, which needs
  the product of Threads and Vfs. Both are listed as hazards without a property.
- Destruction of semaphores and locks: no code of the kernel destroys one that
  other threads still use.
- Detaching of bus devices: no driver detaches.
- `sfs_stat`, `sfs_gettype` and the operations of either file system that only
  return an error; `vnode_check`, whose assertions are in the invariants; `kstrdup`,
  `strerror` and byte order: single expressions.
- The network card, which has no driver behind it, and the trace card, one register
  write per call.
- The kernel's tests and the help texts of the menu.
- User programs and the rest of the C library: batch programs. The kernel has no
  system call but `reboot`, so that most of them do not get far.
- phenom computes signals in floating point over a database, one thread at a time;
  its scripts and AzureSpider's fetch pages.

## 8. Next

1. **Proofs**: the names of the device table (`DevTable`), the bitmap and the array
   (`Containers`), disjoint blocks in the heap (`Kheap`), handles and references of emufs
   (`Emu`), pages of address spaces (`Vm`).
2. **SFS under concurrency** on an instance without indirect blocks, and the disk
   image after a crash.
