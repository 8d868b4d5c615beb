# HongBai OS in TLA+

A verification development of the HongBai OS kernel (`Hongbai-os/`, 32-bit x86,
one processor, C and assembly). TLA+ modules describe the kernel's parts as the
C code implements them, TLC checks them on small instances, and TLAPS proves
the central facts about the scheduler, address spaces, the locks, pids, the
ioqueue, the keyboard and IDE drivers, the kernel heap, the start of the kernel with
its disks, the files and the lists for every instance. All
paths below are relative to `src/Hongbai-os/`.

## 1. Inventory

The kernel runs on one processor. Two things interleave: threads, which lose
the processor to the clock interrupt whenever the interrupt flag IF is on, and
interrupt handlers, which run with IF off. A failed `ASSERT` ends in
`panic_spin` with interrupts off.

| part | source | state | operations | talks to |
|---|---|---|---|---|
| threads, scheduler | `thread/thread.c`, `switch.S` | `thread_ready_list`, `thread_all_list`, per PCB `status`, `ticks`, `general_tag` | `schedule`, `thread_block/unblock/yield`, `thread_start`, `init_thread`, `idle` | clock, locks |
| clock | `device/timer.c` | `ticks` | `intr_timer_handler`, `mtime_sleep` | scheduler |
| semaphores, locks | `thread/sync.c` | `value`, `waiters`, `holder`, `holder_repeat_nr` | `sema_down/up`, `lock_acquire/release` | scheduler |
| console | `device/console.c` | one lock | `console_acquire/release/put_*` | locks |
| pids | `thread/thread.c:47` | static `next_pid`, `pid_lock` | `allocate_pid` | locks |
| ioqueue | `device/ioqueue.c` | ring, `head`, `tail`, `producer`, `consumer`, lock | `ioq_getchar/putchar` | locks, keyboard interrupt |
| keyboard | `device/keyboard.c` | five modifier flags, `kbd_buf` | `intr_keyboard_handler` | ioqueue |
| IDE driver | `device/ide.c` | per channel lock, `expecting_intr`, `disk_done`, registers; `partition_list` | `ide_read/write`, `intr_hd_handler`, `ide_init`, `partition_scan` | locks, clock, drive |
| memory | `kernel/memory.c` | two frame pools, address pools, page tables, arenas, free lists, pool locks | `malloc_page`, `get_kernel_pages`, `get_a_page`, `sys_malloc/free` | locks, bitmap |
| bitmap, list | `lib/kernel/` | - | scan, set; push, pop, append, remove | - |
| processes | `userprog/process.c` | `pgdir`, user address bitmap | `process_execute`, `start_process`, `process_activate` | memory, scheduler |
| file system | `fs/` | bitmaps, inode table, `open_inodes`, `file_table`, fd tables | mount, format, `sys_open`, `file_create`, `sync_dir_entry`, `inode_open/close` | IDE driver, memory |
| interrupts | `kernel/interrupt.c`, `kernel.S` | IDT, IF | `intr_enable/disable/set_status`, entry and exit | everything |
| system calls, TSS | `userprog/syscall-init.c`, `tss.c` | table, `esp0` | dispatch | memory, console |
| boot, print, strings, emulator | `root/`, `lib/`, `bochs/` | - | - | - |

What is hard in this code: preemption in the windows between two related
writes; wake-ups (binary semaphores with barging, LIFO unblocking, an idle
thread that halts); interrupts that arrive late or twice; one list node
(`general_tag`) for all queues; callers without the lock; memory at its limit;
multi-step writes to disk. `PROJECT.json` lists each hazard with its line and
the properties that cover it. What each part has to guarantee:

* scheduler: no thread is lost or enlisted twice, flags survive switches,
  critical regions are not preempted, every ready thread runs;
* locks: a reentrant mutex, no lost wake-up, everybody served;
* ioqueue: a bounded FIFO queue, nobody asleep without a reason;
* keyboard: what is typed is what was meant;
* IDE: atomic reads and writes although channels and registers are shared, no
  completion lost or mistaken;
* processes: whoever runs does so in its own address space;
* pids: no pid is given out again;
* memory: frames, pages and blocks have one owner, nothing is lost;
* start of the kernel: every partition is found, a format destroys nothing, what
  is mounted is what the format wrote, whenever the power failed before;
* file system: directory, inode table and bitmaps agree, also after a crash.

## 2. Modules

| module | what | relation to the code |
|---|---|---|
| `Thread` | the primitives of `thread.c` and the interrupt flag as operators on the shared state, plus the idle thread and the clock interrupt | one operator per function; a function that runs with interrupts off is one step |
| `Scheduler` | `Thread` under a most general client that blocks, wakes, creates threads and processes, sleeps, and switches interrupts off and on | `thread_start` and `process_execute` have a step per list operation |
| `Sync` | `sema_*` and `lock_*` over `Thread` | a step for each access to shared state that a preemption can separate |
| `Locking` | clients of several locks, nested | `console_acquire/release`, and every other use of a lock |
| `Mutex` | what a reentrant lock promises | abstract |
| `Ioqueue` | `ioqueue.c` over `Sync`, with the keyboard handler as a producer | |
| `Fifo` | what the ring buffer promises | abstract |
| `Keyboard` | `intr_keyboard_handler` byte by byte; the person at the keyboard is the environment | |
| `Ide` | `ide_read`, `ide_write`, `intr_hd_handler` over `Sync`, with the drive as the environment | |
| `Disk` | what reading and writing sectors promises | abstract |
| `Bitmap` | `bitmap_scan` and the first-fit search it should be | recursive function, no state |
| `Heap` | the kernel half of `memory.c` | scan and setting of bits are separate steps |
| `Files` | `sys_open`, `file_create`, `sync_dir_entry`, `inode_*`, `mount_partition` on the default partition | one step per write to the disk; a power failure between any two |
| `Process` | `Scheduler` with `process_execute`'s page directories, `process_activate`, `cr3` and `tss.esp0` | each step of `Scheduler` is kept, those that call `schedule()` also activate |
| `Pids` | `Locking` with callers of `allocate_pid` | load, store, release and the late read of `next_pid` are steps |
| `Partitions` | `ide_init`'s loop over the channels and `partition_scan` | the recursion is a stack of frames; a step per entry of a table |
| `Boot` | `Partitions`, then `filesys_init`, `partition_format`, `mount_partition`; power failures and restarts | one step per write to the disk |
| `List` | `list.c` pointer by pointer, and what it means that the pointers represent a sequence | operators, no state; one per function |
| `SyncLemmas` | what the operators of `Thread` and `Sync` do to the lists, the threads and the semaphores; the theorems about `List` | |
| `SchedulerProofs`, `LockingProofs`, `IoqueueProofs`, `DriverProofs`, `HeapProofs`, `FilesProofs`, `BootProofs` | the theorems about `Scheduler` and `Process`, `Locking` and `Pids`, `Ioqueue`, `Ide` and `Keyboard`, `Heap` and `Bitmap`, `Files`, `Boot` with `Partitions` | |
| `MC...` | constants for TLC | |

Composition: `Scheduler` and `Sync` extend `Thread`, `Process` extends `Scheduler`,
`Pids` extends `Locking`, `Boot` extends `Partitions`; `Locking`,
`Ioqueue` and `Ide` extend `Sync`, so that they run under the real scheduler,
the clock and the idle thread. `Heap` takes the lock to be the one of `Mutex`,
which `Locking` is shown to implement, and lets threads interleave freely. `Files` and `Boot` take an `ide_write` to be
atomic, as `Disk` describes it; `Files` starts from what `Boot` leaves when the
format was not cut short, and shares `Bitmap` with `Heap`. `SyncLemmas` justifies
that all modules keep lists as sequences.

How state and actions correspond to the code. `cur` is `running_thread()`;
`status`, `slice` are fields of the PCB; `ready` is `thread_ready_list`; `intr`
is IF and `saved[t]` the IF that thread `t` will have when `switch_to` returns
to it (`old_status` on its stack, or the `iret` of the clock handler, or
`intr_enable` in `kernel_thread`). `pc` tells where between two atomic steps a
thread's code is. A step is what no preemption can split: a stretch with
interrupts off, or one access to shared data. `old` in `Sync` is
`old_status` of `sema_down`. In `Ide`, `stage` follows the statements of the
two functions, `Took` says when a call has taken effect. In `Heap`, `call[t]`
holds the local variables of the call thread `t` is in. In `Files`, `call` holds
those of main's call, the variables `d_...` are the disk and survive
`mount_partition`, the others are memory; a directory reached by `.` or `..` is
the root once more, which counts in `i_open_cnts`. In `Process`, a switch is a step
in which the scheduler calls `schedule()`: `cr3` and `esp0` follow the thread that
gets the processor, in the same step because interrupts are off. In `Pids`, `step`
is where a thread is in `allocate_pid` and `reg` the register of `next_pid++`;
`given` and `before` are history. In `Partitions`, `frames` is the stack of
`partition_scan`, `buffers` counts what it has not freed. In `Boot`, `disk`
survives a power failure, everything else is as after a reset; a sector holds a
table, a super block, a piece of a bitmap, of the inode table, the root
directory, or nothing; `SecCnt` is the conversion of a count to the `uint8_t`
parameter of `ide_read` and `ide_write`; `phase` is "panic" behind the `ASSERT` of
`partition_scan`, "fspanic" behind `ASSERT(sec_cnt > 0)`, "adrift" behind
`open_root_dir(NULL)`; `cut` and `finished` are history.

## 3. Runs

| run | instance | what it shows |
|---|---|---|
| `scheduler` (`MCProcess`) | main, idle, 2 threads, one of them a sleeper and the other a process; main has priority 1, the others 0; clock modulo 2 | no `ASSERT` fails, run queue sound, no thread lost (except in `mtime_sleep`), flags restored, all-list complete, critical regions not preempted, the address space follows the thread and is settled before it can be scheduled; every thread on the ready list runs |
| `scheduler_sleep` | `Scheduler` alone, 3 threads | **violated**: `mtime_sleep` never returns |
| `locking` (`MCPids`) | 3 threads and idle, 2 locks, nesting depth 2; two of the threads call `allocate_pid`, two use both locks nested, main does both | mutual exclusion, fields agree, no lost wake-up, one list per `general_tag`, no pid returned a second time, refinement of `Mutex`, everybody served |
| `ioqueue` | 3 slots, 2 characters; in turn: a reader and the keyboard handler, the same with a writer, with two readers, and two readers and a writer without it | no panic, refinement of `Fifo`; with one reader and the handler and no other users: the reader sleeps only when there is nothing and is served |
| `ioqueue_stuck` | a reader, a writer | **violated**: both asleep for ever |
| `keyboard_typing` | one shift, control, alt and caps lock key, a letter, a digit and an arrow key; 3 bytes on the wire | modifier flags follow the keys, the character typed is the one meant at the key press |
| `ide` | main (also with interrupts off, as in `init_all`), idle, a thread; 2 disks of 2 sectors, overlapping requests | refinement of `Disk`, no stale interrupt counted, no completion lost, no panic; the channel is given back unless a caller met a busy drive |
| `heap` | 2 threads, 4 pages and 4 frames, bytes of 2 bits, two block sizes with 2 blocks and 1 block per arena, requests of 1 to 6 pages, of which `malloc_page` takes 1 to 3 and `sys_malloc` lets 1 to 5 through | frames, pages and blocks have one owner and none is lost, only a request that is too large panics, the lock is kept after a large request |
| `heap_race` | the same with requests of one page, `get_kernel_pages` after start-up | **violated**: two pages on one frame |
| `boot` | disks of 59 sectors, on one channel or two: two primary partitions, alone or before a second disk; four; an extended partition with four logical ones of which `LogicMax` = 3 fit; one listed before the primaries; a partition whose block bitmap counts as 0 sectors, as the first or the second; no primary partition; two power failures at any moment | every partition of the tables is found with its place, the format stays in its partition and leaves complete file systems alone, free blocks are inside the partition (or one past it), a kernel that is up has mounted what the format wrote, every start ends, and on `Bootable` disks with the kernel up |
| `files` | 2 names, 4 inodes, 8 blocks, 2 slots of `file_table`, 1 descriptor, inode numbers cut off at 3 | the directory on disk is whole at every moment, bitmaps in memory and on disk agree between calls, rollback is complete, inodes, slots and descriptors have one owner, the root stays open |
| `files_lost` | the same, inode numbers not cut off | **violated**: a name is created twice |

Bounds, and why they are enough. Three threads and idle are the least with
which a thread can be overtaken by a second while a third holds what it wants,
and with which a list has a middle. Priorities are the lengths of slices: 0
lets the clock preempt at every step, 1 makes charged slices differ from
refilled ones. `TickMod` only has to exceed `SleepTicks`, the code uses
differences. Ring buffers of 3 and 4 slots hold 2 and 3 characters and wrap.
`MaxDepth` 2 distinguishes the outer from an inner acquisition; two locks give
nesting; `Rounds` bounds how often a thread comes back. A sector that two
requests share, one request of two sectors and one on the other disk are the
ways calls can disturb each other. A process among threads gives every pair of a
switch: thread to thread, thread to process, process to thread; the address space
depends on the thread that comes and on nothing of the one that goes, so one
process is enough for TLC, and the proof covers the others. Two callers of
`allocate_pid` and a user of `pid_lock` that is neither overlap in all ways. With four pages and two bytes
the scan meets holes that are too short, holes across a byte boundary and the
end of the map. `PageLimit` is 3840 in the program and `PoolPages` what `mem_pool_init`
finds, 3840 too with 32 MB: both are 4, and requests go one beyond what `sys_malloc`
lets through. `MaxKept` bounds the large requests of a thread, which make the
lock's counter grow for ever. `MaxWire` is the number of bytes the keyboard
controller keeps.

In `Files` three files use up inodes and almost all blocks, and a creation cut
short uses blocks for nothing, so that both bitmaps get full at every step
where one is scanned; two slots and one descriptor make each of the tables
full first. `InodeByte` is 256 in the program: at 3, the third file is the one
whose number `inode_sync` cuts off. `MaxOpens` bounds the openings of the root
that `sys_open` never closes.

In `Boot` a byte has 2 bits and a sector 2 bytes, so that a partition of 10 sectors
has 2 blocks and a bitmap that ends with a byte, one of 14 sectors 5 blocks, which end in
the middle of a byte, and a bitmap of two sectors. A `uint8_t` has 3 values: the inode table of 4 sectors is cut
to 1, as 608 are to 96 in the program, and the bitmap of 3 sectors of a
partition of 19 is cut to 0. A second power failure comes while a start repairs
what the first left. The chain of tables is one longer than `logic_parts`.

The runs of `Heap` and `Boot` do not check for deadlock: the kernel
panics when memory is used up, after a large request the other threads wait for
ever, and a start that is done is done.

### Fairness

* `WF` on the idle thread and `SF` on the clock: the 8253 goes on ticking and is
  handled as often as interrupts are on.
* `SF` on the steps of a thread while it is the running one (`cur = t`): each
  time it is switched to, the processor executes at least its next instruction
  before the next tick, and a thread that is switched to again and again gets
  ahead. It does not say that a thread is switched to: that is what is checked.
* `Pids`, with `Locking` in it: a thread that holds a lock goes on to release it, and starts its
  acquisitions. No fairness on nesting deeper, nor on starting `allocate_pid`.
* `Ioqueue`: only where one reader and the keyboard handler are the users: the reader runs on and
  reads again. With more users the two can be stuck (`ioqueue_stuck`).
* `Boot`: `WF` on the steps of a start. The power need not fail, and fails twice at
  most.
* `Ide`: the drive answers (`WF`) and its requests are delivered (`SF`);
  interrupts do not stay off for ever outside a call, as main enables them after
  `init_all`.
* `Scheduler`: regions with interrupts off end (`SF` on `IntrOn`), and functions
  of the kernel that were started run on.

`EveryoneServed` holds for threads that come back a bounded number of times. A
thread that always comes back can overtake a woken waiter for ever (the lock
is taken by whoever tests `value` first), if the clock strikes at the same
points again and again; for this reason `Ide` promises that the channel is
released, not that every caller gets it.

## 4. What the model found

Disagreements between the code and what it says, each with a run:

1. `thread/thread.c:203-211`: `thread_yield` puts the thread on no list; so
   `mtime_sleep`, and with it `busy_wait` of the IDE driver on a busy drive,
   never return (`scheduler_sleep`).
2. `device/ioqueue.c:60-63, 80-84`: the condition is not tested again once the
   lock is there, and the lock is kept while asleep (`ioqueue_stuck`). In this
   tree no thread reads `kbd_buf` at all, and only the keyboard handler, which never
   sleeps, writes to it; one reader beside it would not be affected either
   (`ioqueue`: `ReaderServed`), a second one or a writer would.
3. `kernel/memory.c:173-181`: `get_kernel_pages` scans and sets bitmaps without
   the pool's lock (`heap_race`).
4. `fs/dir.c:138-150`: `sync_dir_entry` takes a new index block for every entry;
   the file created before is lost. The trace of `files_lost` is what `main` does
   in two starts: `/file1`, `/hongbai`, restart, `/file1` again.

Behaviour the models contain and that is easy to miss:

* `kernel/memory.c:388-395` returns without `lock_release`: the first large
  request makes `kernel_pool.lock` the caller's for ever (`LockKeptByLarge`).
* `bitmap_scan` never returns -1, an `ASSERT` fails first (`lib/kernel/bitmap.c:18`
  and `:35`): the error paths of its callers are dead, a full pool is a panic.
* `device/keyboard.c:161`: one flag stands for both shift (control, alt) keys, and letting go of
  one clears it while the other is held; `ModifiersFollow` is checked with one key of a kind.
  `keyboard.c:236`: a caps lock key that repeats while it is held is switched on and
  off; the keyboards of the model do not repeat it. `keyboard.c:99`: the row of `v` holds the capital of `a`, which `keymap` has.
* `fs/inode.c:50`: inode 256 is written over the root's (`TreeOnDisk` holds until
  then). `fs/file.c:157-171`: with the power cut between the parent's inode and
  the bitmap, the directory names an inode that is still free. The branches of
  `file_create` and `sync_dir_entry` for a full bitmap are dead, as above.
* `thread/thread.c:53`: `allocate_pid` reads the counter after the release, so that
  two calls that overlap may return the same pid, although line 49 says the
  counter makes it unique; `PidIsNew` states what is left: a call never returns a
  pid that had been returned before it began.
* `device/ide.c:146`: `time_limit -= 10 >= 0` subtracts 1.
* `fs/fs.c:167`: the 608 sectors of the inode table are handed to `ide_write` as a
  `uint8_t` (`device/ide.c:210`); 96 are written. Inodes beyond them are what the disk
  held before, against the comment of line 160. `MountedAsFormatted` claims the 96 only.
* `fs/fs.c:127`: the super block is written first and is all that the next start looks
  at, so a format cut short is never done again; `MountedAsFormatted` excepts such
  partitions. `fs.c:145`: with `<=` one block behind the partition is free.
  `fs.c:194`: `part_idx` is not set back, so the file disk of the second channel is
  never formatted.
* `device/ide.c:344`: a disk with four primary partitions stops the kernel, though
  `prim_parts` has four elements (`ide.h:29`). `ide.c:324`: the base of the first
  disk's extended partition is used for the second disk's, whose logical partitions
  are then looked for elsewhere (`Misled` in `Partitions`).
* `device/ide.c:354`: with the last element of `logic_parts` the buffer of that table
  is kept.
* `fs/fs.c:150`: a block bitmap whose number of sectors is a multiple of 256 (a
  partition of 512 MB) is 0 sectors in a `uint8_t`, and fails `ASSERT(sec_cnt > 0)` in the middle of a format, or
  when it is mounted; one of more than 256 is written and read in part. `fs.c:252`: without a
  primary partition on the first file disk there is no sdb1, `cur_part` stays NULL, and
  `open_root_dir` goes through it. `StartEnds` names these starts. `fs.c:60`: the inode bitmap gets the length of the block
  bitmap; they agree up to 4096 blocks.
* `kernel/memory.c:149`: `sys_malloc` takes a size below that of the pool, `malloc_page`
  asserts less than 3840 pages; a request between the two, or one for which there is no hole, does not end in the
  NULL that the callers test for (`OnlyTooLargePanics`).

## 5. Proofs

The theorems hold for any set of threads and locks, any priorities and any
bounds, from the assumptions named in the modules: `ThreadAssumption` (main and
idle are two threads, priorities are naturals), `SchedulerAssumption` (clients
block with a blocked status; the idle thread does not sleep; 0 < SleepTicks <
TickMod), `SyncAssumption` (the threads other than main are ready in some
order, once each), `LockingAssumption`, `ProcessAssumption` (main and idle are no
processes), `PidsAssumption` (`pid_lock` is a lock), `IoqueueAssumption` (the
buffer has at least two slots, there are characters), `IdeAssumption` (the channel
has one lock, idle does not use the disks, a request names at least one sector and none
behind the end of its disk, `None` is nothing else), `HeapAssumption`
(both bitmaps are of whole bytes, as `mem_pool_init` makes them, a desc has at least
one block per arena, `PageLimit` is positive, the pool has a page and less than a byte of
them beyond its bitmap, `None` is nothing else), `FilesAssumption` (the same of the bitmaps of a
partition; slots and descriptors are numbers), `KeyboardAssumption` (a key has a code of
seven bits, with the prefix 0xe0 or without it), `PartitionsAssumption` (a disk has
sector 0; there are at most four primary partitions, because the numbers of the logical
ones start at five; `logic_parts` has an element), `BootAssumption` (the file disks are
numbered from 0; a byte, a sector, an inode, a disk of inodes are not empty; a `uint8_t` has
two values at least) and `ListAssumption`
(the two ends of a list are no nodes).

`SyncLemmas`, first part: what Append, push to the front and pop do to the elements of a
list without duplicates; `schedule()`, `thread_block` and `thread_unblock` seen as
one switch, one wake-up or a quiet step.

Second part: the waiting lists. A thread is on the ready list, on the list of one
semaphore, running, or nowhere; each step of `sema_down` and `sema_up` keeps
that, and that a thread sleeping on a free semaphore has a woken thread on its way to
test it.

`SchedulerProofs`. The properties are not inductive: that no `ASSERT` fails
depends on the run queue, which depends on threads under construction and on
the idle thread being blocked when the list is empty. The invariant is
`IInv = TypeOK, ~panicked, RunQueue, IdleInv, ChildInv, FlagInv, NoThreadLost,
AllInv`. `ScheduleStep` describes `schedule()` without its branches;
`SwitchPreserves`, `WakePreserves` and `QuietPreserves` do the three kinds of
step, and each action is an instance of one of them. From `IInv` follow
`TypeCorrect`, `NeverPanics`, `RunQueueIsSound`, `ReadyThreadsAreListed`,
`FlagSurvivesSwitches`, `AllListIsComplete` and, for steps,
`RegionsAreCritical`. `ProcessRefinesScheduler`: every step of `ProcessNext` is a step of
`Scheduler` or leaves its variables alone, so that all these theorems hold
of `Process`. The invariant of `Process` is that of `Scheduler` with the types and
`SpaceFollows`. It needs
`Scheduler`'s because `create_page_dir` writes to a PCB: `ChildIsNobodyElse` takes
from `ChildInv` that this one is READY and on no list, hence not the running
thread's. `SpaceSettledBeforeListing` is the same fact about steps.

`LockingProofs`. `IInv` is `TypeOK`, the facts about lists of `SyncLemmas` and, for each lock,
`LockSound`: one owner,
`value` 0 exactly when there is one, and what `holder` and the counter are in
each window of `lock_acquire` and `lock_release`. None of `NoPanic`, `OneListPerTag` and
`NoLostWakeup` is inductive alone: that `sema_up` finds a blocked thread needs that
its tag is on no other list, and that nobody sleeps on a free lock needs to know
where the thread that was woken stands. It holds wherever the clock strikes.
From it follow `LockTypeCorrect`, `LocksExclude`, `LockFieldsConsistent`, `LocksNeverPanic`,
`TagsOnOneList`, `WakeupsNotLost` and,
with `owner` and `depth` as the refinement mapping, `LockRefinesMutex`.
`PidsRefineLocking` as above for `Locking`: `allocate_pid` acquires and releases
as `Locking` allows. For `PidsAreNew`, `CallInv` says: from the load to the release a thread owns
`pid_lock` (`LockedInv`, with `MutualExclusion` from `LockSound`), so `reg[t]` is still
`next_pid` at its store (`RegInv`); every pid that was returned is at most `next_pid`
(`GivenInv`); after the store of `t` everything in `before[t]` is below it (`NewInv`),
and `next_pid` never falls.

`IoqueueProofs`. The invariant adds to the lists and the queue's lock who may be in
`producer` and `consumer`: the thread that has the lock, asleep or on its way there
or back. `IoqueueNeverPanics` is for any users of the buffer,
`SoleReaderSleepsWithReason` for one reader and the keyboard handler, as `SleepsWithReason`
states it: with any other users it is false. `IoqueueRefinesFifo`: `Ring` relates
`head`, `tail` and the slots to the sequence of characters by addition, without the
remainders of the code, and `Appended` and `TailOf` do the two operations.

`DriverProofs`, first part. The invariant says that one call has the channel (`Places`: the stages from
the selection of the disk to the release are inside `channel->lock`) and what the channel
is at each of them (`Device`). Between two commands it is at rest (`Rest`), except that the
PIC may hold a request the last sectors of a read have left. `Doing` follows it: such a
request is taken before `expecting_intr` is set, or, if interrupts are off, `cmd_out` takes it back, so that
the next one is the answer to this command; `Answer` says that it is still to come or that
`disk_done` has counted it, never both. Hence `IdeNeverPanics` (DRQ is set when `busy_wait`
returns, `disk_done` stays binary), `CompletionIsNotLost`, and `IdeRefinesDisk`: the drive
has the command of the call that moves the data, whatever the others ask for, so the
transfer is the step at which the call takes effect.

Second part, `Keyboard`. The five variables of the handler lag behind the keys by the bytes that are
still on the wire, so neither property is inductive. `KeyboardInv` says that they can be followed:
there is a sequence of sets of flags (`Follows`), the first what the variables are, each the next one
by what the handler makes of one byte (`After`), the last what the keys say (`HeldNow`); and each
byte that completes a visible key would type, with the flags it finds, what the press was meant
to type (`Fine`). `HandlerTurns` shows that `After` is what the handler does; an event of
a key appends one or two bytes and as many sets (`WireExtends`). Two hypotheses are about what
the person does or the keyboard is, and the code is wrong without them (section 4): `[]OneOfEach`,
no two keys of a kind are held at the same time, and `CapsOnce`, caps lock does not repeat. `TypesWhatWasMeant`
also has `NoMisprint`, no key v.

`HeapProofs`. `BitmapScanIsFirstFit`: for every bitmap of whole bytes and every size
the scan, which skips full bytes, then counts bits one by one, returns the first
hole that is large enough. Induction is by the least counterexample (`Least`, from
`WFMin`). `LockIsKeptByLarge`: `LockKeptByLarge` holds for any threads, pools and
requests. `HInv` adds to it which operation each step of a call belongs to (`StepInv`):
only a small request gets to `pop` and only `sys_free` to its last step, so what is given back
there was taken at the beginning.
The other four theorems about its memory assume `PageCallers = {}`: `get_kernel_pages`, which takes no
lock, is called by main alone and before `intr_enable`. Without that
hypothesis they are false, as `heap_race` shows. Then at most one thread is in a call
(`AloneInCall`), and `IInv` adds to `HInv`, for each resource, who has it: `Requests` says what
a call holds between two steps (a hole that is still free between the scan and
the setting of its bits), `Pages` that every page taken is a caller's, an arena's or a
call's and that a call has mapped the first `i` of its `n`, `BlockTypes` and `BlockCounts` that
a block is free or out and that `cnt` is the number of the free ones. `OnlyTooLargeRequestsPanic`: of the `ASSERT`s only that of `malloc_page` on
the number of pages and those of `bitmap_scan` on a bitmap without room can fail, whatever `PageLimit` is.
There is one lemma per action
(`TooManySound`, `VaddrSetSound`, `MapSound`, ..., `FreeSmallSound`); the last one needs that when `cnt` reaches
`block_per_arena` no block is out (`LastOne`).

`FilesProofs`. What `TreeOnDisk` says of the disk depends on the call in memory: a block it
has taken but not yet written must not be in the directory on disk. `IInv` says so
(`Written`, `Off`): from its allocation to its write such a block holds no entry and is neither the index
block nor the entry's on disk, because `bitmap_scan` returns a clear bit
(`ScanIsClear`) and the blocks of that directory are set in the bitmap (`Tree`). So when
`inode_sync` puts the new directory on disk, both its blocks have been written. Blocks are
never given back, so an entry whose inode number has more than 8 bits stays there, and the
hypothesis `SmallNumbers` of `TreeOnDisk`, once false, is false for good; while it is true, `i_no` is what
`inode_sync` writes to, and not the root (`InodeSound`). `Bitmaps` says that memory is ahead of
the disk by one inode at most, that of the call; `Handles` that this one has a slot
but no descriptor and is not open, and that numbers that are free have no open inode. There is one lemma per
action; `PanicSound` is shared by the allocations that fail.

`BootProofs`. `ScanMatchesTables` speaks of the end of a scan, `MountedAsFormatted` of the end of a
start, so neither is inductive. `BootInv` is their strengthening: `ScanInv` for the scan,
`FormatInv` for what the disks hold, and the types. The hypothesis is in `Init`: the
tables are `Partitioned` (section 6) and no partition has a super block yet.

* `ScanInv`. While a disk is scanned (`Scanning`), the frames below the innermost one have taken the
  links of their tables (`Past`), the tables they read are those of the chain in its order
  (`Descends`), and how many logical partitions have been found is determined by the
  innermost frame: before its partition (`Before`), behind it, or past its link, when all of them
  have been. The last element of `logic_parts` ends the descent. For a disk behind another one with an
  extended partition (`Misled`) there is one wrong step to a sector without a table and back
  (`Strays`). `ext_lba_base` is 0 or the base of the first extended partition that has
  been seen; the list has the partitions of the disks before this one and those of this one so far; one buffer is
  held for each frame and one for each disk so far whose `logic_parts` is full. `Chain` is recursive, but `WellChained` says
  all that the proof uses of it: which tables are its elements, one after the other.
* `FormatInv`. A partition with a super block has been formatted, was cut short or is being formatted
  (`SupersAre`); one that was formatted is complete (`FormattedAre`); of the one that is being formatted the
  first `write` writes are on the disk (`Formatting`); the partitions that `filesys_init` has passed have a
  super block (`Searched`), on the first channel, as `part_idx` stays at its end for the second. A write changes
  nothing else because the five regions of a partition are inside it and do not
  overlap (`LayoutIs`, `RegionsAre`, from the arithmetic of `super_block`), what `ide_write` makes of a count is no
  more than the count (`SecCntIs`; `Region`, what is written, lies in `Area`, what is laid out), partitions
  do not overlap, and what is written is no table, so that the tables, and with them every definition above, say
  the same as before (`TablesSay`). `ClearBits` says which bits of a block bitmap are 0, over the remainders
  of `block_bitmap`, and `BlocksInside` follows. A start that an `ASSERT` of `ide_write` or `ide_read` stops
  leaves the disks alone (`RefusedKeeps`); the partition it was at counts as cut short (`CutKeeps`).

`List` (the last part of `SyncLemmas`). `Represents(l, s)` says that `next` and `prev` lead through the nodes of
`s` and back. Each operation of `list.c` takes a list that represents `s` to one that
represents the sequence the other modules compute: `Append`, a node in front, the
sequence without the node, `Tail`.

Only model-checked: liveness (`ReadyRuns`, `EveryoneServed`, `ReaderServed`,
`ChannelReleased`, `StartEnds`), because TLAPS proves nothing about fairness and ENABLED.

Only proved: the types of `Scheduler` and `Locking` (`TypeCorrect`, `LockTypeCorrect`),
`bitmap_scan` on bitmaps of any length, and everything about `List`, which has no behaviour of its own. No run
checks types: the properties of the other modules would fail on a value that is
out of place.

## 6. What is left out

* Threads: the stack of a thread, its magic number, `elapsed_ticks`, `start_process`
  (a stack frame that is built once), the contents of a page directory, the user
  pool and `get_a_page` (no process asks for memory in this tree), the width of
  `pid_t`. A list is walked in one step, although `elem_find` in `thread_start` runs with
  interrupts on; a thread moved to another list meanwhile can lead the walk astray.
* Disks: `Ide` begins with the number of sectors that `ide_read` and `ide_write` see, 1 to 255 of a
  `uint8_t`, so their loops have one turn; the conversion at the call, which loses what is above, and the
  `ASSERT` on 0 are in `Boot` (`SecCnt`). `ASSERT(lba <= max_lba)` is taken to hold: the
  sectors a start reads and writes lie in the first 80 MB of a disk. What the kernel does behind `open_root_dir(NULL)` is not followed. The answer of the drive comes before `busy_wait`
  gives up; `identify_disk` is a read whose result is printed. In `Boot`, the disks are
  those a partitioning program leaves (`Partitioned` in `Init`): one link per table, one logical partition
  per table of the extended partition, its entry before that of the link, no overlap, partitions large enough
  for the file system's own sectors and a byte of block bitmap, and no magic number by
  chance. Where a second disk's extended partition is looked for in vain, there is no table; what
  a scan makes of arbitrary contents is left out.
* Memory: frames have no contents, so what the `memset` of one of two pages on
  one frame destroys is not seen; page tables of the kernel exist from the
  start, as the loader makes them.
* Files: no names of several characters, no sizes, no paths (`path_paser`), one
  caller, an entry per block and enough heap; an inode that lies on two sectors is
  written at once. `Files` starts from a partition whose format was not cut short.
* Not modelled: the loader, IDT and PIC set-up, printing, string functions,
  system-call dispatch, the vendored emulator. They are executed once, or compute
  without shared state.

## 7. Plan

Done: threads and scheduler, processes, locks, pids, ioqueue, keyboard, IDE
calls, the scan of the partitions, formatting and mounting, kernel heap, file
creation, lists, and proofs of every safety property the runs check. Next, in this order:

1. `inode_open` and `inode_close` of several threads, without a lock and with
   `cur->pgdir` cleared on the way; two callers of `file_create`; `path_paser` and
   `path_depth_cnt` against a reference.
2. The user pool and `get_a_page`.
