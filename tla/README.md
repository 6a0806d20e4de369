# TLA+ verification of neulacpu

neulacpu is a LoongArch-32 processor written in Verilog (`src/lacpu`) and the
software that runs on it (`src/lasoft`), above all a port of the xv6 kernel
(`src/lasoft/xv6-la`). This directory holds TLA+ models of the parts of both
where correctness depends on the order of events or on a long history: the
crash-safe file system log, the buffer cache and its disk driver, inodes and
directories, processes and the scheduler, the pages of their address spaces,
pipes and the file table, the console, the shell with its parser, the user
memory allocator, and the memory side of the processor (data cache, uncached
path, bus controller, stall network).

Contents: [parts of the system](#1-parts-of-the-system) ·
[models](#2-the-models-and-the-code) · [runs](#3-the-tlc-runs) ·
[proofs](#4-the-proofs) · [findings](#5-findings) ·
[what is left out](#6-what-is-not-modelled) · [plan](#7-plan)

## 1. Parts of the system

Kernel (`src/lasoft/xv6-la/kernel`). Several CPUs run it; a spin lock turns
interrupts off on the CPU that takes it, `sleep`/`wakeup` block and wake kernel
threads, and devices interrupt.

| part | state | operations | talks to | what makes it hard | what makes it correct |
|---|---|---|---|---|---|
| redo log (`log.c`) | `log.lh`, `outstanding`, `committing`; header and data blocks on disk | `initlog`, `begin_op`, `log_write`, `end_op`, `commit`, `recover_from_log` | pins buffers (`bio.c`), sleeps on `&log` | a crash between any two disk writes, also in recovery; group commit; the space reservation | a crash leaves a state between two commits; nobody sleeps in `begin_op` for ever |
| buffer cache (`bio.c`, `sleeplock.c`) | LRU list; per buffer block number, `valid`, `refcnt`, sleep lock | `bread`, `bwrite`, `brelse`, `bpin`, `bunpin` | `virtio_disk_rw` | a buffer is recycled while others sleep for its lock; all buffers in use | one copy of a block, one user at a time, with the last user's data |
| disk driver (`virtio_disk.c`) | descriptors, both rings, requests in flight | `virtio_disk_rw`, `virtio_disk_intr` | the device; wakes sleepers | completions in any order while the handler runs; descriptors run out | each completion frees and wakes its own request; none is lost |
| processes (`proc.c`, `spinlock.c`, `trap.c`) | process table, `p->lock`, `wait_lock`, `c->proc` | `scheduler`, `sched`, `yield`, `fork`, `exit`, `wait`, `kill`, `sleep`, `wakeup` | everything that sleeps | locks handed over in `swtch`; a wakeup between test and sleep; exit of parent and child at once | one CPU per process; no wakeup lost; every zombie can be reaped |
| pipes and files (`pipe.c`, `file.c`, `sysfile.c`) | `ftable` with `ref`, `p->ofile`; ring with `nread`, `nwrite`, two open flags | `pipe`, `read`, `write`, `dup`, `close`, and the files of `fork` and `exit` | `sleep`/`wakeup`, `kill` | shared files closed by several processes; a process killed in mid-call; counters that wrap | bytes come out once and in order; a page is freed once and not under a user |
| inodes, directories, path calls (`fs.c`, `sysfile.c`) | `itable` with `ref`, `valid`, lock; `dinode` with `nlink`, `addrs`; bitmap; directory entries | `iget`, `ilock`, `iput`, `ialloc`, `bmap`, `itrunc`, `namex`, `dirlink`, `create`, `link`, `unlink`, `chdir` | log, buffer cache | freeing an unlinked inode beside a lookup; two locks in a row; a full disk half-way | every pointer is counted, every name has a link, every block has one owner |
| memory (`vm.c`, `kalloc.c`, `exec.c`) | free list, page tables, `p->sz` | `kalloc`, `kfree`, `mappages`, `uvmalloc`, `uvmcopy`, `uvmfree`, `growproc`, `exec`, `copyin`, `copyout` | processes | memory runs out half-way, for a page or for the page table | no page lost or freed twice; an image survives a failed call |
| console, UART (`console.c`, `uart.c`) | input ring `r/w/e`, transmit ring, both locks | `consoleintr`, `consoleread`, `consolewrite`, `uartputc`, `uartputc_sync`, `uartstart`, `uartintr` | the 16550, `sleep`/`wakeup` | editing beside readers; the echo goes past the driver's lock; a full ring | lines are read once and as edited; output is not stuck, lost or overrun |

User programs (`src/lasoft/xv6-la/user`). Sequential, but the shell is a tree of
processes.

| part | state | operations | talks to | what makes it hard | what makes it correct |
|---|---|---|---|---|---|
| shell and init (`sh.c`, `init.c`) | the line, the command tree; descriptors of each process | `getcmd`, `parsecmd`, `runcmd` | system calls | nested grammar parsed in place; copies of pipe ends in every child | a line runs as it reads; the prompt returns |
| allocator (`umalloc.c`) | circular list of free blocks, `freep` | `malloc`, `free`, `morecore` | `sbrk` | merging with both neighbours; gaps in the heap | no block handed out twice or lost |

Processor (`src/lacpu/rtl/mycpu`, wired in `mycpu_top.v`). Everything moves at the clock edge.

| part | state | operations | talks to | what makes it hard | what makes it correct |
|---|---|---|---|---|---|
| data cache (`dcache.v`, `cache_tag.v`, `cache_data.v`) | tag, valid and LRU bit of two ways, data banks, victim buffer | hit, miss, write-back, refill | bus controller by `miss`, `write_back`, `refresh` | the refill overtakes the write-back of its victim | a word is found as the program wrote it |
| uncached path (`uncache.v`) | IDLE / BUFFER / WAIT and one buffered store | load, store | bus controller by `reload` | stores return before they are done | order and number of the device's accesses |
| bus controller (`axi_ctrl.v`) | two one-hot machines, latched requests, burst buffers | refill, write-back, uncached access | AXI slave, by handshakes | two machines, three clients, a slave that takes its time | no request lost, no deadlock |
| DT, MEM1, MEM2, stall (`dt_stage.v`, `mem_stage.v`, `pip_ctrl.v`) | the access in each stage, stall flag and read buffer | advance, hold, flush | all of the above | the data bank shows a word for one cycle only | a load gets its word however long the stall |
| front of the pipeline, CSRs (`if_stage.v`, `id_stage.v`, `exe_stage.v`, `forward.v`, `csr.v` ...) | pipeline registers, CSRs, timer | decode, forward, branch, exception | MEM stages | forwarding under stalls, interrupts in ID | *not modelled* |

`PROJECT.json` lists every component with its status, the source lines behind
every definition (`map`), and the hazards, each at its line with the properties
that would catch it.

## 2. The models and the code

| module | models | refines |
|---|---|---|
| `AtomicLog` | what the log promises: calls change blocks, a commit makes all finished changes permanent, a crash returns to the last commit | |
| `Log` | `log.c`, with the pins and the recycling of `bio.c` | `AtomicLog` |
| `BlockStore` | what the cache promises: one user of a block at a time, and the block as the last user left it | |
| `VirtioDisk` | `virtio_disk.c` and, external, the device | |
| `BufCache` | `bio.c` and `sleeplock.c` on `VirtioDisk` | `BlockStore` |
| `Proc` | `proc.c` with the killed checks and `yield` of `trap.c` | |
| `Fifo` | what a pipe promises: a bounded queue of bytes | |
| `Pipe` | `pipe.c`, `file.c`, `sys_pipe/dup/close/read/write`, the files of `fork` and `exit` | `Fifo` |
| `Inode` | the first half of `fs.c` as operators: blocks, `dinode`s, `itable` | |
| `Fs` | directories and paths (`fs.c`), the path calls of `sysfile.c`, write and close of an inode file (`file.c`), on `Inode` | |
| `Vm` | `kalloc.c`, `vm.c`, `exec.c`, and the memory of `fork`, `exit`, `wait` and `sbrk` | |
| `LineEditor` | what the console promises: a line can be edited until it is complete, then is read once | |
| `Console` | `console.c`, `uart.c` and, external, the 16550 | `LineEditor`, `Fifo` |
| `ShGrammar` | what a command line means | |
| `ShParse` | the parser of `sh.c` | checked against `ShGrammar` |
| `Sh` | `init.c`, `main` and `runcmd` of `sh.c`, with `cat.c` as the program that is run | |
| `Umalloc` | `umalloc.c` | |
| `DCache`, `Uncache`, `AxiCtrl` | the Verilog modules of these names | |
| `MemSys` | their composition in `mycpu_top.v` with DT, MEM1, MEM2, the stall network and, external, the AXI slave | |
| `LogProofs`, `BufCacheProofs`, `ProcProofs`, `PipeProofs`, `ConsoleProofs`, `MemSysProofs`, `FsProofs` | the proofs about these modules | |
| `FsNameProofs` | the proofs about names and links in `Fs`, on top of `FsProofs` | |
| `MemSysStores` | `MemSys` with a count of the stores the program did and the device got | |

**Log.** Variables are the fields of `struct log` and what is on the disk:
`disk` (home blocks), `dlog` (log data blocks) and `dhead` (log header). A
critical section under `log.lock` is one action (`BeginOp`, `LogWrite`,
`EndOp`); `commit()` and `recover_from_log()` are one action per disk write
(`WriteLog`, `WriteHead`, `Install`, `Erase`; `ReadHead`, `RecoverInstall`,
`RecoverClear`), with `tail` as in the code's loops. `Crash` may fall anywhere.
It wipes memory and may leave the data block being written half-written
(`Torn`), since a block is two sectors; the header fits in one sector and is
written whole or not. `Recycle(b)` is `bget()` taking an unpinned buffer for
another block: the log must never depend on an unpinned copy. What a crash
preserves is `Durable`: home blocks overlaid with the log if the header on
disk is not empty.

**VirtioDisk, BufCache.** A critical section under `bcache.lock`, under a sleep
lock's `lk`, or under `vdisk_lock` is one action; the interrupt handler is one
action per turn of its loop, because the device appends to the used ring
meanwhile (`HandleEntry`). `BgetCached`, `BgetRecycle` and `BgetPanic` are the three
ways out of `bget`; `acquiresleep` and both sleeps of `virtio_disk_rw` have an action
for waiting and one for going on. `head[p]` is `idx[0]` in `virtio_disk_rw`; `pc` has a label for each
place where a process can sleep. The clients follow the contract of `log.c`: a
changed buffer is pinned or written before it is released, and pinned blocks
are written before they are unpinned. The device takes requests from the ring
in order and serves them in any order. Ring entries and commands that nobody
will read again are blanked, which merges states that behave alike.

**Proc.** An action is what a CPU does between two points where it can wait for
a lock or be observed. Locks belong to CPUs, as `holding()` tests. `Schedule`
and `SchedulerAgain` are the two halves of the scheduler's loop around
`swtch()`; `Resume` is the end of `sched()` in the thread that runs again. The
loops of `wait`, `reparent` and `wakeup` visit the table slot by slot (`todo`).
User code may call any system call at any time; `Yield` may happen whenever
interrupts are on.

**Pipe.** Between two looks at `p->killed` under `pi->lock` there is one action,
because `kill()` sets it without that lock. `FileClose` and `PipeClose` are
separate, since `fileclose()` frees the slot before it closes the pipe's end.
`exit` closes one descriptor after the other (`ExitFile`). `pipealloc` takes its two
files in two steps (`FileAlloc`), which it has in hand (`closeq`) until they are
descriptors or closed again: by its own error path when there is no second file or no
page (`PipeAllocFails`), by that of `sys_pipe` when there are no two descriptors or
`copyout` fails (`PipeUndone`). There is memory for one pipe at a time, so two calls of
`pipe` compete for it. A slot of the table may be taken again while the `pipeclose` of
the file that it held is still to come. A `pipewrite` that has the lock ends (`WriteDone`),
returns -1 (`WriteGivesUp`), or goes on to sleep, put a byte or fail in `copyin`; a
`piperead` waits, gives up, or starts copying.

**Inode, Fs.** `disk` is what the buffer cache shows: `dinode`s, indirect blocks,
the bitmap, and what directories and files contain. What a process does between
`ilock` and `iunlock` is one action, except where it waits for a second lock
(`link`, `unlink`, `create`) or enters `itable.lock` twice (`iput`, which tests,
frees and drops in steps of its own, `putting`). An `iput` or `iunlock` to come is
an entry of `todo`, and the process goes on when `todo` is empty. `cur` and `ip` are
the pointers of a call, `cwd` and `fd` those that outlive it. `namex` gets one path
element per step and holds one lock at a time. A path is the sequence of its
elements. Where `ilock`, `dirlookup`, `iget` or `unlink` panics the kernel stops, so
these are guards; `NoPanic` says that all but that of `iget` (a full table) hold whenever
the lock is free. `unlink` also panics when it cannot overwrite the entry it found;
`Unlink2` has this as a guard too, which `NoPanic` does not cover.
Everything runs inside one `begin_op`/`end_op`, hence is atomic as to crashes by `Log`.

**Vm.** Pages are alike: `free` counts those of the free list, an address space has
its root, the pages of its page table (by level and index, so that `walk` allocates
the ones the code would), its mapped addresses (`leaf`) and those with `PTE_U`
(`user`). The operators `Kalloc` ... `ProcFreepagetable` are the functions of these
names; each returns memory, the address space, success, and whether it met a
`panic`. One turn of the loops of `uvmalloc` and `uvmcopy` is one action, so that two
processes compete for the last pages. `Copy` is the loop of `copyout` and `copyin`,
`Copyinstr` that of `copyinstr`; addresses wrap at `2^W`.

**Console.** The handler runs on one CPU beside the processes on others; an action is
what one of them does between two accesses to the UART, or under a lock without
one. `uartputc_sync` waits in `SyncReady`; it takes no lock, so the echo may meet
`uartstart`. A place of a ring is blanked once its byte is gone.

**ShGrammar, ShParse, Sh.** `ShParse` follows `sh.c` function by function: each takes
the line and a place, and returns a tree and a place; `nulterminate` is applied at the
end. `ShGrammar` gives the meaning of a line without parsing: it cuts at the outermost
separators. In `Sh` a process is the list of system calls it has yet to make; `runcmd`
unfolds into such a list (it never returns), and one action is one system call of one
process. Pipes hold one byte, so that writers block. A `fork` of the shell may fail at any time.

**Umalloc.** Addresses are in units of a `Header`; the list is the `ptr` fields, as in
the code, with `base` at address 0. The program may call `sbrk` itself, which leaves
gaps, and `sbrk` fails at `Top`. `malloc` is asked for bytes. The bytes that `morecore`
asks `sbrk` for are a `uint` that becomes an `int` (`SbrkArg`): if it is zero or negative,
`sbrk` succeeds without memory, and `morecore` puts a block into the list that is not
there (`CoreWild`). The ghost variable `wild` records this, or a sum that wraps in
`malloc`, and the model follows the heap no further.

**MemSys.** One step is one clock edge: `Clock` conjoins the edges of all the
Verilog modules, each reading the registers before the edge. The program chooses
the next access, the slave chooses which handshake signals it gives and what the
device answers; all else is determined. One set of the two-way cache is modelled
(sets share nothing but the controller). `arch` and `answer` are history
variables: memory as the program's stores define it, and the device's reply to
the load in DT.

In every module a definition marked `\* mutant` is an altered form of the
definition that follows it, and is not used by the specification; replacing the
one by the other must make the named property fail (`mutants` in
`PROJECT.json`).

## 3. The TLC runs

| run | instance | checks |
|---|---|---|
| `log_crash` | 2 blocks, 2 values, 2 processes, 2 blocks per call, 4 log entries | `TypeOK`, `ImplementsAtomicLog`, `QuiescentIsDurable`, `PinMatchesLog`, `ReservationHolds`, `SleeperWakes` |
| `bufcache` | 2 processes, 3 blocks, 2 buffers, 8 descriptors | `ImplementsBlockStore`, `RefcntExact`, `NoPanic`, `DescriptorsAccounted` |
| `bufcache_live` | the same with 4 descriptors | `NobodySleepsForever` |
| `proc` | init and 2 more slots on 2 CPUs, one process may be killed | `SchedDoesNotPanic`, `KernelStackIsOwned`, `NoLostWakeup`, `HasLiveParent` |
| `pipe` | 2 processes, 3 file slots, 2 descriptors each, pipe of 2 bytes, counters modulo 4 | `ImplementsFifo`, `FileRefsExact`, `NoUseAfterFree`, `SleepsForAReason` |
| `fs` | a maker and a remover, 3 i-numbers, 4 blocks, 1 direct and 1 indirect block per file | `RefsExact`, `LinksCoverNames`, `BlocksAccounted`, `NoPanic` |
| `vm` | 2 processes, 20 pages of 2 bytes, page tables of 4 entries; heap of 9 units, `uint`s of 6 bits | `PagesAccounted`, `ImageWhole`, `NoPanic`, `HeapExact` |
| `console` | 2 readers, 2 writers, rings of 2 bytes, indices modulo 4 | `ImplementsLineEditor`, `ImplementsFifo`, `SleepsForAReason`, `NoOverrun`, `OutputMoves` |
| `sh` | 66,430 lines parsed, 104 run; 8 processes, 5 descriptors each | `ParsesTheLine`, `CommandsInOrder`, `Wired`, `PromptComesBack` |
| `memsys` | 3 lines of 2 words in one set, one line stored to | `Coherent`, `LoadCorrect`, `DeviceOrder` |
| `memsys_live` | the same, loads and device accesses | `StallEnds` |
| `store_lost` | `MemSysStores` | a [finding](#5-findings): TLC is expected to find a violation |

Four further instances are kept to be run by hand (`tlc -config X.cfg M`):

| cfg | module | checks |
|---|---|---|
| `MCProcLive.cfg` | `MCProc` | `WaitReturns` holds: on one CPU with a fair scheduler `wait` returns when a child has exited |
| `MCLogFull.cfg` | `MCLog` | `NoPanic` is violated, see the findings |
| `MCStoreReachesDeviceOnce.cfg` | `MemSysStores` | `StoreReachesDeviceOnce` is violated, see the findings |
| `MCProcKill.cfg` | `MCProc` | `KillWakes` is violated, see the findings |

What they show:

* **ImplementsAtomicLog**: recovery from a crash at any point, also in the middle
  of an earlier recovery, gives exactly what the last commit made permanent, and
  a commit contains no part of a call that has not reached `end_op`.
* **QuiescentIsDurable**: when the last call has left `end_op` nothing visible
  can be lost. **PinMatchesLog**: a block is pinned once while it waits in the
  log, and not otherwise. **ReservationHolds**: what is logged and what admitted
  calls may still log fits `log.lh`. **SleeperWakes**: `begin_op` wakes up.
* **ImplementsBlockStore**: `bread` gives its caller the block alone and as it was
  last left, whatever was recycled, read, written or completed out of order.
  **RefcntExact**, **DescriptorsAccounted**: references and descriptors are
  neither leaked nor given twice. **NoPanic**: the panics of `brelse`, `bwrite`,
  `free_desc` and `virtio_disk_intr` are unreachable. **NobodySleepsForever**:
  for a buffer lock, descriptors, or a request.
* **SchedDoesNotPanic**: the conditions `sched()` tests hold on every path.
  **KernelStackIsOwned**: no process runs on two CPUs, and `wait` does not free a
  slot while its exiting process still stands on its stack. **NoLostWakeup**: no
  parent sleeps beside a zombie child. **HasLiveParent**: no exit leaves a child
  without a parent that can wait, even if `fork` is in progress.
* **ImplementsFifo**: bytes leave a pipe once, in order, across the wrap of both
  counters. **FileRefsExact**: `f->ref` counts descriptors and files in a
  process's hand, in `pipealloc` or to close.
  **NoUseAfterFree**: no read or write touches a freed pipe, no end is closed
  under a user, and no end stays open that nobody can close. **SleepsForAReason**: whoever sleeps at a pipe has to. The
  property excepts the one case in which it does not hold: a writer killed within
  its write returns at `pipe.c:84` past the `wakeup` at `pipe.c:99`, and a reader
  may sleep on beside the bytes it wrote.
* **RefsExact**: `ip->ref` counts the pointers held on an inode, on all error paths of
  the path calls. **LinksCoverNames**: `nlink` is never below the number of names, so
  that `iput` frees nothing a directory still lists. It may be above: a file made or
  linked in a directory that another process is removing (the directory was found
  before its last link went) keeps its link when the directory is freed.
  **BlocksAccounted**: bitmap and inodes agree, also when the disk has become full
  half-way through a write.
  **NoPanic** (with **IputSafe**): the panics of `ilock`, `dirlookup`, `unlink` and `bfree` are not
  reached, and `iput` finds the lock of an inode it frees open, as the comment at
  `fs.c:344` claims.
* **PagesAccounted**: free pages and those of every owner sum to memory in every step of
  `fork`, `exec`, `sbrk`, `exit` and `wait`. **ImageWhole**: a failed `exec` or `sbrk`
  leaves the image as it was; and the copy functions succeed on exactly the bytes
  that the user could access. **NoPanic**: `remap`, `not mapped`, `leaf` and the
  others. **HeapExact**: the units of a heap are partitioned among free and used
  blocks, which are as large as asked for, and the free list is one ordered circle
  without adjoining blocks; this until a request wraps in a `uint` or an `int`
  ([section 5](#5-findings)).
* **ImplementsLineEditor**, **ImplementsFifo**: the two rings. **OutputMoves**: a byte in
  the transmit buffer always has somebody who will send it. **NoOverrun**: the echo and
  `uartstart` may both find the UART idle; it gets two bytes at most, which its FIFO
  takes. (`printf` of the kernel, a third sender, is not modelled.)
* **ParsesTheLine**: the recursive descent computes the meaning. **CommandsInOrder**: `;`
  and the prompt wait for all of the foreground, unless a `fork` has failed: `fork1`
  then ends the shell's child and leaves the left side of a pipe running.
  **Wired**: a program has the three descriptors its line gives it and no stray pipe
  end. **PromptComesBack**: no circle of `wait` and pipe.
* **Coherent**: each word is where a load would find it, as the program last wrote
  it, in every clock cycle. **LoadCorrect**: MEM2 gets the right word in every
  cycle of a stall. **DeviceOrder**: no load overtakes an earlier store to the
  device. **StallEnds**: cache, uncached path, controller and slave never wait
  for each other in a circle.

### Bounds

* Two processes suffice for the races of the log, cache and pipe, each of which
  is between the holder of a lock and one other; the counts (reservations,
  references) see the values 0, 1 and 2. `proc` needs three slots for a parent
  that exits beside its child and hands it to init, and two CPUs to interleave.
* Three blocks and two buffers make `bget` recycle, fail, and recycle a buffer
  that the other process has just left. `MaxPinned` keeps the log's pins at one,
  so that recycling remains possible. Eight descriptors allow two requests in
  flight and hence completion out of order; four allow one and make the other
  process wait for descriptors.
* Ring indices and pipe counters are kept modulo `IdxMod` and `UintMod`, small
  multiples of the ring size, so that they wrap many times in a run.
* The log has room for two calls of two blocks each, with two blocks in all: both
  calls may run at once, writes are absorbed, and a call that begins when a block
  is already logged has to wait for the commit.
* Three lines compete for the two ways of a set, so that each kind of victim
  occurs; two words per line make bursts with a first and a last word.
  `StoreLine`, `StoreVal` and `DevStore` limit what is stored; data never
  influences control.
* `fs`: with i-numbers 1 to 3 the tree is the root and two more, enough for a
  directory, a file in it and a second name; the maker's and remover's calls (`MCCall`)
  create, link, truncate and remove the same names. Four blocks run out when the
  directories and the file (with its indirect block) exist together. `NINODE` equals
  the number of i-numbers, since `iget` panics when the table is full, which no
  caller excludes. `MAXLINK` ends the growth of `nlink` described above.
* `vm`: 20 pages hold one process of five pages with its page table, and not two;
  programs of up to two segments, a segment of no bytes, one ending below the other;
  `sbrk` by parts of pages and below zero. The copy functions are asked at both ends of
  the image, across its guard page, at the trapframe and where the address wraps, for
  up to three bytes, that is two pages. `MCVm` checks the heap in the same run: one of
  the two works while the other is in its initial state. Nine units allow four blocks.
  Requests are of nothing, of one to three units, of more than the heap has, of so many
  bytes that the argument of `sbrk` is zero or negative, and of so many that their
  number of units wraps.
* `console`: three scenes (editing with one reader, two readers, two writers beside an
  echo) keep the product small; rings of two bytes fill and wrap.
* `sh`: five characters contain every pair of neighbouring separators, nesting and
  `>>`; the lines that are run have up to three programs, groups, background and
  redirections at once. `MAXARGS` is 3; 8 processes are enough for each of them.
* `Symmetry` is used only in runs without temporal properties that it could
  make unsound: invariants and the safety part of a refinement, over processes,
  files, blocks or bytes that no definition tells apart.

### Deadlock

TLC checks for deadlock except in three runs. (In `fs` this shows that no two processes
wait for each other's inode locks, in `sh` that no processes wait for each other.) The kernel of `bufcache` and
`bufcache_live` may stop in the panic of `bget` (all buffers in use: `NBUF`
equals `LOGSIZE`, and nothing in the code keeps pins and users together below
it). In `pipe` a process may wait for ever, legitimately, for a byte that only
it could write.

### Fairness

* `Log`: recovery, commit, `begin_op` and `end_op` go on (weak fairness): they are
  straight code of a scheduled thread, and a call ends. Nothing is assumed of
  crashes or of when calls begin.
* `BufCache`: the interrupt handler, the device, and each kernel thread go on, and
  a client comes to its `brelse` (weak fairness).
* `Proc`: a runnable process is scheduled again and again (strong fairness: the
  scheduler's loop passes all slots, but a slot's lock may be taken when it
  passes), threads in the kernel go on and are given the locks they compete for
  (the spin lock is a test-and-set loop, so this is an assumption about contention
  rather than a guarantee), and the timer interrupts user code.
* `Sh`: some process that can make a call makes one (weak fairness of `Next` as a whole,
  less than the scheduler gives). A program ends when its input does.
* `Console`, `Fs`, `Vm`: none; their properties are about safety.
* `MemSys`: the clock ticks, multiplications and divisions end, and the slave gives
  each handshake it owes. Nothing is assumed of the program.

## 4. The proofs

Seven components have theorems that TLAPS checks for every value of the constants:

| module | theorem | statement |
|---|---|---|
| `LogProofs` | `LogInvariant` | `Spec => []LogInv` |
| | `TypeCorrect` | `Spec => []TypeOK` |
| | `PinsBalance` | `Spec => []PinMatchesLog` |
| | `Durability` | `Spec => []QuiescentIsDurable` |
| | `ReservationsHold` | `Spec => []ReservationHolds` |
| | `LogImplementsAtomicLog` | `Spec => ImplementsAtomicLog` |
| `BufCacheProofs` | `CacheInvariant` | `Spec => []CacheInv` |
| | `CountsAreExact` | `Spec => []RefcntExact` |
| | `NothingElsePanics` | `Spec => []NoPanic` |
| | `ChainsAreApart` | `Spec => []DescriptorsAccounted` |
| | `CacheImplementsBlockStore` | `Spec => ImplementsBlockStore` |
| `ProcProofs` | `ProcInvariant` | `Spec => []ProcInv` |
| | `SchedNeverPanics` | `Spec => []SchedDoesNotPanic` |
| | `StacksAreOwned` | `Spec => []KernelStackIsOwned` |
| | `WakeupsAreNotLost` | `Spec => []NoLostWakeup` |
| | `ParentsAreLive` | `Spec => []HasLiveParent` |
| `PipeProofs` | `PipeInvariant` | `Spec => []PipeInv` |
| | `FileCountsAreExact` | `Spec => []FileRefsExact` |
| | `PageIsNotUsedAfterFree` | `Spec => []NoUseAfterFree` |
| | `SleepersHaveAReason` | `Spec => []SleepsForAReason` |
| | `PipeImplementsFifo` | `Spec => ImplementsFifo` |
| `ConsoleProofs` | `ConsoleInvariant` | `Spec => []ConsoleInv` |
| | `SleepersHaveAReason` | `Spec => []SleepsForAReason` |
| | `UartIsNotOverrun` | `Spec => []NoOverrun` |
| | `BufferedOutputMoves` | `Spec => []OutputMoves` |
| | `UartImplementsFifo` | `Spec => ImplementsFifo` |
| | `ConsoleImplementsLineEditor` | `Spec => ImplementsLineEditor` |
| `MemSysProofs` | `MemInvariant` | `Spec => []MemInv` |
| | `Coherence` | `Spec => []Coherent` |
| | `LoadsAreCorrect` | `Spec => []LoadCorrect` |
| | `DeviceInOrder` | `Spec => []DeviceOrder` |
| `FsProofs` | `RefsAreExact` | `Spec => []RefsExact` |
| | `BlocksAreAccounted` | `Spec => []BlocksAccounted` |
| | `IputIsSafe` | `Spec => []IputSafe` |
| `FsNameProofs` | `LinksCover` | `Spec => []LinksCoverNames`, if `NoDotdot` |
| | `NeverPanics` | `Spec => []NoPanic`, if `NoDotdot` |

Each proof has the same shape. None of the properties is inductive, so the module
first defines a stronger invariant as a conjunction of named parts; a lemma per part
shows that each action of `Next` keeps it, with one step per action; one theorem
puts the parts together, the others follow from it. A refinement is then proved step
by step: each action, in a state with the invariant, is a step of the abstract
specification or changes nothing it sees. The assumptions are the named `ASSUME`s of
the modules, which TLC evaluates in the runs.

**Log** (`LogAssumption`: the initial contents is a value, `Torn` and `NoBuf` are
not, `MAXOPBLOCKS` is positive, the other sizes are naturals and `Proc` is finite).
A pin says nothing about the data, and after a crash everything depends on which of
the copies (cache, log, home) is good at that moment. `LogInv` says this stage by
stage:

* outside a commit the header on disk is empty, and a cached block that is not
  logged equals its home block (`StageInv`, `CacheInv`);
* in `write_log` the log blocks up to `tail` equal the cache (`WriteLogInv`);
* in `install_trans` the header on disk equals `log.lh`, home blocks up to `tail`
  equal the log, the others are still pinned and cached (`InstallInv`);
* in recovery nothing runs, and home blocks up to `tail` equal the log
  (`BootInv`, `DownInv`, `RecoverInv`);
* headers contain no block twice (`HeadersInv`), and `outstanding` counts the calls
  in progress (`CountInv`).

The refinement maps `WriteHead` to the abstract commit, `Crash` to the abstract
crash, calls to calls, and all else to stuttering: the disk writes of install and
recovery change no block of `Durable`, because what they overwrite is covered by the
log.

`ReservationHolds` adds up what the calls in progress may still log. It is inductive with
`CallsInv`: what a call has logged is in `log.lh` and within its budget. A `log_write` of
a block that is not in `log.lh` yet is also new to its call, so both sides of the sum
move together; absorption only lowers it; an `end_op` takes a call out of the sum with at
most its budget; and a commit starts only when no call is left.

**BufCache** (`DiskAssumption`, `CacheAssumption`: `NUM` is positive and divides the
range of the ring indices, as 8 divides 2^16; `Proc` is finite; `None` is none of the
numbers, blocks or processes). That a count is right does not
follow from the counts: `brelse` may decrement only because the process is still
counted, `free_chain` frees three descriptors only because nobody has rewritten their
links. `CacheInv` follows a request:

* what a process has in each phase, and who has a buffer's lock (`PhaseInv`,
  `LockInv`); one buffer per block (`BlockInv`); what is valid (`ValidInv`);
* the three descriptors of a request name its buffer, block and direction, are apart
  from those of other requests, and all others are free (`RequestInv`, `LinkInv`);
* the entries of both rings are exactly those between the two sides' indices, each
  once (`RingInv`); a request whose `b->disk` is set is in one of three places, the
  available ring, the device, the used ring, and in no other case in any
  (`StageInv`);
* when a buffer equals its block on the disk: if valid, unpinned and not being
  written, and from the moment the device is done (`DataInv`).

In the refinement `Content` is the valid buffer of a block if there is one, else the
disk. Acquiring and releasing the lock and changing the data are the abstract steps;
recycling, reading, writing and completing change no content, by `DataInv`.

**Proc** (`ProcAssumption`: `initproc` is a process and is not killed; `None` is
neither process nor CPU. Nothing in `kill()` protects init, and if it is killed its
`exit` panics, so the model leaves this out). `ProcInv` says who may hold which
lock and what an `exit` still has to do:

* a CPU holds at most the lock of the process it executes, has it when it is in the
  scheduler, and who is executed is `RUNNING` until then (`SwitchInv`); who is in
  which places has `wait_lock` (`WaitLockInv`); places and states agree
  (`PlaceInv`); a slot taken by `fork` is nobody else's (`ForkInv`);
* init does not exit (`InitprocInv`), and who has passed `reparent()` has no
  children (`NoKidsInv`), from which `HasLiveParent` is inductive;
* only init may sleep beside a zombie, and only while the `exit` that has handed the
  zombie over has init still to wake; what the scan of `wait` has passed is no zombie;
  an `exit` that is past its parent has woken it (`WakeupInv`). Each of the three is
  needed to keep the others.

**Pipe** (`PipeAssumption`: processes and descriptors are finite sets, `PIPESIZE` is
positive, smaller than the range of the counters and divides it, as 512 divides
2^32). `PipeInv` adds to the counts which file, or which half-finished `fileclose`,
stands for an open end (`EndInv`: one of them, never two), that descriptors are of files
that are such an end, while those in hand may not be one yet (`KindInv`), what a process
has in each phase (`PhaseInv`: in `pipealloc` two different files, if two), and what the holder of `pi->lock` knows of the sleepers
(`SleepInv`): a reader about to sleep sees an empty pipe, so no writer sleeps then;
while a writer is at work every other sleeping writer has good reason. Put and take
are the steps of the queue.

**Console** (`ConsoleAssumption`: the sizes of both rings are positive, smaller than
the range of the indices and divide it; reads ask for at least one byte). `ConsoleInv`
has the locks by place (`LockInv`), the two bytes that can be on their way to the UART
(`ThrInv`: each sender has found it idle, so the second finds at most one byte), and
the order of the three input indices modulo `UintMod` (`InputInv`).

**MemSys** (`MemSysAssumption`: a line has at least one word, the tokens are none of
the values they stand beside; with `StoreLine = Line` the program loads and stores
any word). A step is the edge of every register at once, so the lemmas are first
about what an edge does to each side (`ReadMoves`, `WriteMoves`, `MissEdge`,
`SlaveEdge`), then one per part of `MemInv`:

* a pass of the controller is about what still stands in DT: the miss it reads for
  and the victim it writes are those of now, because a miss stalls the pipeline and
  keeps tags, LRU bit and data as they are (`PassInv`);
* which requests lead to which stage, and that the write machine rests at both ends
  of a pass (`StageInv`); an uncached load waits in DT, and its answer stands from
  the device's reply until MEM1 takes it (`UncacheInv`);
* the words up to the offset have been read (`ReadInv`) or have reached memory
  (`WriteInv`), and at the end of the pass the whole line has.

`Coherent` follows at the refill: the new line is the one in memory, nothing has
written to it meanwhile (only the victim's line changes, and that is another one),
and the victim is in memory. `LoadCorrect` is inductive given `Coherent` and
`UncacheInv`; `DeviceOrder` follows from `MemInv` alone. The slave of the model gives
any signal it may at any time, but takes data only after its address.

**Fs** (`InodeAssumption`, `FsAssumption`: the sizes are naturals, the direct, indirect
and directory blocks have room, the root's inode, block and slot exist, `Proc` is
finite, and paths are sequences of strings). `RefInv` says which of `cur` and `ip` a call
has at each place (`Place`), which calls get there (`Made`), and `RefsExact` itself. Each
action is a step of one process, so the lemmas compare the references that it has
before and after (`Weight`) with what happens to the table.

`BlocksAccounted` is about the disk, but an inode is written through its copy in
`itable` (`Own`), so `DiskInv` also has to say when the copy is good, and who may write:

* the disk is well formed and `BlocksAccounted` holds of it (`DiskOK`). This is a
  predicate on disks, because one action may write several times and fail in between:
  the operators of `Inode` keep it one by one (`BallocIs`, `DirectIs`, `IndirectIs`,
  `WriteiIs`, ...), whether the call succeeds or not;
* an inode has one entry in the table, and a valid copy is the dinode (`Coherent`);
* who has which lock: at each place, before each `iunlock` to come, and in an `iput` that
  frees (`Locks`);
* what a call relies on between two of its actions (`Stage`): the directory it has locked
  is still one, the name it has found is still there, the inode it allocated has its type
  and nobody is freeing it. The last is not obvious: an `iput` that has freed an inode
  still has its reference, and `create` may get the same i-number and the same slot; what
  saves it is that a process cannot be between the test and the freeing when the
  inode is free on disk.

`Step` says what a step of one process may do to what the others rely on: no lock, no
copy and no inode that another has locked. `DiskStep` derives `DiskInv` for all
processes from `Step` and from what the step does to its own process; each action then
has a lemma. `IputIsSafe` follows from the counts: a lock is a reference, and so is the
`iput` at the head of a list, thus `ref == 1` leaves no room for a lock. (The name of a
directory entry is a string or one of the three names in the code, `EntryNames`: the
provers do not know that a literal is in `STRING`.)

`FsNameProofs` is about the tree. Its theorems have one hypothesis on the constant `Call`,
`NoDotdot`: no path has an element `..`. `fs.c` never changes the `..` of a directory that
has been removed, so a process that still has it as its current directory can follow it to
an inode that was freed or that is another file by now, and `ilock` panics on a free one.
The calls of the run `fs` have no `..` either. `NameInv` adds to `DiskInv`:

* `Tree`: a directory has a name only when its own `.` and `..` are in place, it has only
  one, and that is in the directory its `..` names;
* `Covers`: `nlink` of an inode is at least the number of its names, of the `..` entries of
  directories that have a name, and of the calls that have counted a link whose name is not
  written yet or is already erased (`Between`). Names are counted as pairs of directory and
  entry (`Linked`), so that an action adds or takes one pair, or all of a directory. A free
  inode has neither names nor such calls;
* `Knows`: what a call can count on for each of its pointers. `cur` in `namex` is a
  directory; an inode found by name has its type as long as the reference lasts, since only
  the last reference frees it; the directory that `create` or `link` has locked may
  have been removed by then, but is still a directory, and a name put there counts like
  any other; an `iput` that has seen `nlink == 0` and `ref == 1` is the only one who has
  the inode, and no name leads to it.

An action either leaves the names alone (`SameTree`), writes one (`AddLinks`), erases one
(`DropLinks`), or frees an inode, which has none (`Unnamed`); `KnowsOthers` carries `Knows`
of the other processes across each of these. `unlink` of a directory is the hardest case:
it finds the inode, then waits for its lock, tests, erases the name and takes the link
of `..`, and lowers the inode's own count in a third action, while others may have the
directory as their current one and come with a name to put there.

The proofs about pipe and console each begin with the arithmetic of rings they need:
distances of indices modulo their range, places modulo the size of the ring, and what
putting in and taking out does to the sequence of entries. The one about the cache has the
part that is about indices.

Only model-checked:

* all liveness (`SleeperWakes`, `NobodySleepsForever`, `WaitReturns`, `StallEnds`,
  `PromptComesBack`), which lies outside what the prover does;
* the properties of `Sh` and `Umalloc` and the copy loops of `Vm`, which are computed
  by recursion; `PagesAccounted` and `ImageWhole` depend on such loops as well.

Neither checked nor proved: what `LinksCoverNames` and, beyond `IputSafe`, `NoPanic` of `Fs`
say of calls whose paths have `..`.

## 5. Findings

* `MCLogFull.cfg` (`log.c:220`). `mkfs` sets `sb.nlog` to `LOGSIZE`, header
  included, and `log_write` panics at `LOGSIZE - 1` logged blocks, while `begin_op`
  admits calls up to `LOGSIZE`. Calls within `MAXOPBLOCKS` can thus reach the
  panic "too big a transaction". `log_crash` therefore judges the reservation by
  the size of `log.lh`.
* `store_lost` (`axi_ctrl.v:324`). When a write-back and the buffered uncached
  store are latched in one cycle, only the write-back is done, but the store's
  buffer is freed too.
* `MCStoreReachesDeviceOnce.cfg` (`uncache.v:90`). A store that another unit's stall holds in DT
  until the buffer has drained is sent again.
* `MCProcKill.cfg` (`proc.c:594`). A `kill()` that falls between the killed check in
  `wait()` and `sleep()` does not wake its victim, contrary to the comment.

Observed while modelling, and no disagreement with what the repository says:

* After a directory below another has been removed, a path through its `..` (by a
  process whose current directory it is) can reach the panic `ilock: no type`
  (`fs.c:314`) once the parent is freed as well. `fs` has no such path.
* `a > f > g` writes to `f` (the first redirection is the innermost, and opens last);
  `a & b` is a syntax error, `a &; b` is not.
* If `fork` fails in init, init exits, and the kernel panics. If the `exec` of `sh` fails
  in its child, init starts another, for ever. `Sh` leaves both out (`init.c:29-36`).
* `malloc` of 2^31 - 15 bytes or more (a `Header` has 8) calls `sbrk` with a negative
  number, or with zero, whose success it takes for the memory; from 2^32 - 7 bytes on,
  the request is of one unit. In both cases the caller gets a block smaller than it asked
  for, or one that is not there (`umalloc.c:54`, `umalloc.c:69`).
* `kill(0)` finds an unused slot, whose `pid` is 0, and returns 0; `allocproc` does not
  clear the mark, so that the next process in that slot starts killed. `Proc` has this.
* `nlink` is a `short` (`fs.h:36`, `file.h:27`), which `link` increments without a
  test (`sysfile.c:145`). The 32768th link of an inode makes it negative, and an `unlink`
  then panics (`sysfile.c:216`). That many names fit on the disk, in two directories. In
  `Fs` `nlink` is a natural number, and `MAXLINK` a bound of the run.

`memsys` holds beside the two store findings because its properties do not count
stores: what reaches the device is in order, and no load overtakes it.

## 6. What is not modelled

* The front of the pipeline (fetch, decode, forwarding, branches) and the CSRs with
  exceptions and the timer: see the plan.
* `ramdisk.c` is not linked into the kernel. System call entry only decodes
  arguments. Boot is straight-line code, whose effect is in each `Init`.
* Multiplier, divider and decoder are data paths without state of interest here
  (the stall of a multiplication is in `MemSys`). The SoC's board peripherals and
  Xilinx IP are wiring or generated; the AXI slave is modelled from outside.
* In `MemSys`: byte lanes, sign extension, address translation, the instruction
  cache's contents, sets other than one. The slave takes write data after the
  address, as the crossbar does.
* In `Fs`: the bytes of files (`readi`, offsets inside a block), `stat`, `fstat`, the
  superblock; a `copyin` that fails in `writei` (`fs.c:522`), which leaves bitmap and
  addresses as a success does; the truncation in an `open` with `O_CREATE` and `O_TRUNC`
  together (`sysfile.c:363`), which is there only without `O_CREATE`. In `Vm`: what pages hold, the kernel page table, the TLB. In `Console`:
  `printf`, `panic`, `procdump`, the initialisation of the UART. In `Sh`: the length of
  the line buffer, the depth of the parser's stack, `cd`'s effect, programs other than
  `cat`.
* `mkfs` is a sequential host program; `grep`, `ls` and the like are small filters;
  `usertests` and `grind` are tests of the kernel.

## 7. Plan

1. The front of the pipeline with forwarding, branches, exceptions and the timer:
   `Pipeline`, refining an instruction-at-a-time machine.
2. `Fs` on `AtomicLog`: crashes between the calls of a path operation that spans
   several transactions (large writes).
3. Paths with `..` in `Fs`, of directories that have been removed; a proof of
   `PagesAccounted` of `Vm` for any amount of memory, with its recursion written as
   functions.
