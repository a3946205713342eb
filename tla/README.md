# A TLA+ verification project for the Nachos kernel of this repository

The repository holds a Nachos 3.4 kernel in C++ (`src/Nachos Lab/codes`) that
has been extended, lab by lab, with thread ids, priorities, round robin, locks,
conditions, a barrier, a read-write lock, demand paging with a TLB, a larger
file system with concurrent access, and the system calls of user programs.
This directory models its kernel in TLA+. TLC checks the models on small
instances, and TLAPS proves the central theorems for every instance.

Paths below are relative to `src/Nachos Lab/codes`.

## 1. Inventory

Nachos simulates one processor. A thread keeps it until it sleeps, yields, or
enables interrupts and a pending one fires. Interrupts fire in `OneTick`, that
is on the way back to enabled interrupts, and in `Idle`. Concurrency therefore
means: a context switch at each such place, in an order no test controls.

| Component | State | Operations | Talks to | What is hard | What makes it correct |
|---|---|---|---|---|---|
| Scheduler (`threads/scheduler.cc`, `list.cc`, `thread.cc`) | `readyList`, `currentThread`, `status`, priorities | `ReadyToRun`, `FindNextToRun`, `Run`, `Yield`, `Sleep` | called by every primitive | `ReadyToRun` yields *inside* its caller when the new thread is more urgent | each thread is on one list; a ready thread runs |
| Interrupts, timer (`machine/interrupt.cc`, `timer.cc`) | pending list, level, `inHandler`, `yieldOnReturn` | `SetLevel`, `OneTick`, `Idle`, `CheckIfDue`, `Schedule` | calls device handlers, which call `V` | handlers that end up switching | a handler runs to its end |
| Semaphore (`threads/synch.cc`) | `value`, `queue` | `P`, `V` | scheduler | a woken thread has to test again; increment after wakeup | atomic, no lost wakeup |
| Lock, Condition (`threads/synch.cc`) | `Owner`, `waitQueue` | `Acquire`, `Release`, `Wait`, `Signal`, `Broadcast` | semaphore, scheduler | `Wait` releases before it sleeps; barging | exclusion, atomic wait |
| Barrier (`threads/synch.cc`) | `num_left` | `ArriveAndWait` | lock, condition | reuse: rounds overlap; no loop round the wait | nobody early, nobody left behind |
| ReadWriteLock (`threads/synch.cc`) | `ReaderCnt` | acquire, release for readers and writers | lock, semaphore | first reader sleeps with a lock held | exclusion, exact count, never wedged |
| Threads and processes (`thread.cc`, `scheduler.cc`, `userprog/exception.cc`) | `used_TID`, `end_state`, `Thread_Pointer`, `threadToBeDestroyed` | constructor, `Fork`, `Finish`, `~Thread`; `Exec`, `Exit`, `Join`, `Yield` | scheduler, `threadLock` | the destructor locks inside `Run`; ids are reused; one slot for carcasses | destroyed once and always; `Join` answers, and truly |
| Disk and SynchDisk (`machine/disk.cc`, `filesys/synchdisk.cc`) | `active`; lock, semaphore, `readerCnt`, `mutex`, `visitorCnt` | `ReadSector`, `WriteSector`, `RequestDone`, `Plus/MinusReader`, `Plus/MinusWriter` | disk interrupt, open files | one global reader lock held while asleep | one request at a time, exclusion, every call returns |
| Open files (`filesys/openfile.cc`) | header copy, `seekPosition` | `Read`, `Write`, `ReadAt`, `WriteAt`, close | SynchDisk, headers, free map | stale header copies; growth under the file's lock only | no lost growth |
| File headers, free map (`filesys/filehdr.cc`, `userprog/bitmap.cc`) | direct and indirect blocks; bits | `Allocate`, `Deallocate`, `ExpandFileSize`, `ByteToSector` | file system | boundaries between index levels; free space | blocks disjoint, none leaked |
| File system, directories (`filesys/filesys.cc`, `directory.cc`) | root directory, free map on disk | `Create`, `Open`, `Remove`, `RemoveDir` | headers, SynchDisk | read-modify-write of shared blocks over sleeps | tree and map agree |
| Open-file table (`filesys/filesys.cc`) | `OpenedFiles` | `AddNewFile`, `RemoveFile`, `GetFile`, `CloseAll`, `CopyFile` | system calls, thread ids | `Fork` copies after the child is ready; ids reused | an entry is used only by its owner |
| Paging, TLB (`machine/translate.cc`, `machine.cc`, `userprog/addrspace.cc`, `exception.cc`) | TLB, page tables, frame bitmap, VM file | `Translate`, TLB miss, page fault, `ReplacePage`, `SaveState` | file system, scheduler | dirty bits in two places; frame shortage | a program reads what it wrote |
| Console, SynchConsole (`machine/console.cc`) | `putBusy`, `incoming`; lock, two semaphores | `PutChar`, `GetChar`, synchronous versions | interrupts | one lock for both directions | no character lost |
| Buffers, SynchList (`threads/threadtest.cc`, `synchlist.cc`) | `list`, `count` | `WriteBuffer`, `ReadBuffer`, `Append`, `Remove` | semaphores, conditions | run with interrupts on; one signal per item | nothing lost, nothing twice, the tests end |
| Network (`machine/network.cc`) | `inHdr`, `packetAvail`, `sendBusy` | `Send`, `Receive`, polling | interrupts | lost packets, one packet of buffer | what arrives, arrives once and in order |
| Elevators (`machine/elevator.cc`, `elevatortest.cc`) | doors, motion, events | `MoveTo`, `OpenDoors`, ..., `HandleInterrupt` | interrupts, riders and controllers | one interrupt serves several elevators | a moving elevator arrives |
| MIPS simulator (`machine/mipssim.cc`) | registers, a load in progress | `OneInstruction`, `DelayedLoad`, `Mult` | paging, interrupts | faults between a load or a branch and its slot | faults leave no trace; arithmetic |
| Pipes, statistics, host interface, coff tools | | | | | not modelled, see section 8 |

The hazards that follow from this, each at its line and with the properties
that cover it, are in `PROJECT.json`.

## 2. Modules

| Module | Models | EXTENDS |
|---|---|---|
| `Scheduler` | ready list, `Run`, `Yield`, `Sleep`, as fragments of actions; the scheduling policy | |
| `Semaphore` | `P`, `V` | `Scheduler` |
| `SemaphoreContract` | abstract: what `synch.h` promises of `P` and `V` | |
| `Kernel` | threads that call `P`, `V`, `Yield`; timer; devices whose handlers call `V` | `Semaphore`; refines `SemaphoreContract` |
| `Monitor` | `Lock`, `Condition`, as fragments | `Semaphore` |
| `MonitorContract` | abstract: what `synch.h` promises of a lock and its conditions | |
| `MonitorUse` | threads that use a lock and its conditions in every legal order | `Monitor`; refines `MonitorContract` |
| `Barrier`, `ReadWriteLock`, `Buffers` | the composed primitives; three lists shared by producers and consumers | `Monitor` |
| `SynchTests` | the test programs of `threadtest.cc` that use them, one per behaviour | the three |
| `ThreadLife` | creation, `Exec`, `Exit`, `Join`, `Finish`, destruction | `Monitor` |
| `SynchDisk` | `OpenFile::Read`/`Write`, SynchDisk, disk | `Monitor` |
| `FileHeader` | `Allocate`, `ExpandFileSize`, `Deallocate`, `ByteToSector` on the bitmap | |
| `FileSystem` | `Create`, `Open`, `Remove`, `RemoveDir`, growth, close, restart | |
| `OpenFileTable` | the table of open files under the system calls, with `Fork` and `Exit` | |
| `Paging` | TLB, page tables, frames, faults, what `Exec`, `Fork`, `Exit` do to memory | |
| `Cpu` | the instructions, delay slots, exceptions | |
| `Interrupt` | clock, pending list, timer, as fragments | |
| `Console`, `Network`, `Disk`, `Elevator` | a device each, with its driver | `Interrupt` |
| `Devices` | the machine with one of the devices: `OneTick`, `CheckIfDue`, `Idle`, `Halt` | the four |
| `MC*` | instances for TLC | the module they name |
| `SemaphoreProofs` | lemmas about the ready list, `P` and `V` | `Semaphore` |
| `KernelProofs`, `MonitorProofs`, `SynchDiskProofs`, `SynchTestsProofs`, `ThreadLifeProofs` | theorems about `Kernel`, `MonitorUse`, `SynchDisk`, `SynchTests` and `ThreadLife` | their module and `SemaphoreProofs` |
| `PagingProofs`, `OpenFileTableProofs` | theorems about `Paging` and `OpenFileTable` | their module |

**Atomicity.** The routines of `synch.cc`, `thread.cc` and `scheduler.cc` run
with interrupts off. An action is therefore a stretch of code from one place
where the processor may change hands to the next: a call of `Sleep`, a call of
`ReadyToRun` that may yield, and, where interrupts are on, any place at all.
`pc[t]` is the place where `t` goes on when it has the processor. `pc` stands
for the whole kernel stack of a thread, except in `ThreadLife`, where the
destructor may be entered on top of anything and `saved[t]` holds the places
below it.

**Policies.** `Policy` is a set of records: `roundRobbin` is the flag `-rr`,
`timer` says that a timer runs (`-rr` or `-rs`), `priority` gives every thread
its `Thread::priority`. `Init` chooses a policy and no step changes it, so one
run covers several policies. `NoPreemption` says that `ReadyToRun` never yields:
round robin, or equal priorities. Some properties hold only then, or only
without a timer; they say so, and section 6 says why the hypothesis is needed.

**The waiting states.** `idle` is the loop in `Thread::Sleep`: the processor has
no ready thread and stays with one that is BLOCKED. `Kernel` lets a device
interrupt fire there. In `MonitorUse` and `SynchTests` there is no device, so
that `idle` is the end: `Interrupt::Idle` halts the machine.

**Interrupts.** In `Kernel` and `SynchDisk` simulated time is abstracted: a device
may interrupt whenever interrupts are on, or in `Idle`, which includes every order
the ticks could produce. An unfinished handler, suspended by the `Yield` in
`ReadyToRun`, is remembered in `handler[t]`, on the stack of the thread it
interrupted. `Devices` has the clock itself: times are relative to now, the list
is sorted as `SortedInsert` sorts it, and handlers run one after the other between
two steps of threads.

**The file system.** `FileHeader` has the layout of blocks, one call a step.
`FileSystem` has the order of disk accesses: a step of a call goes from one access
to the next, a header is the set of its file's sectors, and `call[t]` holds the
local variables (the copies of directory, map and header) that become stale. Calls
overlap as they like: nothing in the code keeps them apart but the lock of a file
that is written. The history variable `overtaken` becomes true when two calls have
to do with one thing at once and one of them changes it (`Overlap`: both write, both
are to write one directory, a file is removed or grows while another call or handle
has it, `RemoveDir` takes an open file). What holds up to then is in
`MapMatchesFiles` and `HandlesLive`; `BlocksMarked` is what goes wrong after it
(section 5), and section 6 has the rest.
`SynchDisk` has the locks under each transfer and counts its sectors.

**Memory and processor.** `Paging` has a value per page and says which accesses
miss. A thread that Exec has made has no address space at first: it reads the name
of its executable through the TLB and the table the machine was left with
(`GetFileName`), and sleeps in `Open` and in the constructor of `AddrSpace` before
`ExecFunc` gives it one; `Switch` flushes the TLB only for a thread that has a space.
The history variable `foreign` has the pages whose entry in the TLB was loaded that
way, and `spoiled` the pages of each program that were replaced unsaved or written
through such an entry. `Cpu` lets a fault or an interrupt come at any instruction and
compares the machine `m` with `ref`, which runs the same program without any. Words
have 8 bits in the instance, fields and tables keep their proportions.

**Open files.** In `OpenFileTable` a `GetFile` may reach any entry and takes over
those it passes, and a child may do anything, or exit, before its parent has copied
the table for it. Four history variables say what was whose: what `Open` returned
and what `CopyFile` copied, both until closed or taken over (`returned`,
`inherited`), who was robbed in the middle of a transfer (`robbed`) and which
children exited too early (`late`).

**Data.** What no property tells apart is left out: names are model values or
sequences of them, contents of sectors are kept for index blocks only, messages
are numbers. History variables (marked so) record what a property needs to
remember: what `Exec` told whom, what was typed, sent, written or returned.
`SynchDisk` leaves out `numberLock`, whose critical sections neither sleep nor
take a lock.

**Hypotheses.** Some calls are restricted to what the repository's comments, or
the only way to use a routine correctly, ask of callers. Each is a named operator:

- `Roomy` (`FileHeader`): the disk has room for the index blocks of a growth.
- `Proper` (`Cpu`): the instruction after a load does not use the loaded register,
  as MIPS asks of compilers.
- In `Console` a key is not EOF (-1); in `Elevator` a controller does not send an
  elevator to the floor it is at, and the bank outlives its interrupts.

## 3. Runs

Deadlock checking is off where the machine may really stop, with every thread
asleep and no interrupt pending, or with its bounded work done; `filehdr` leaves it
on. Runs with liveness use no symmetry; `filehdr`, `fs`, `paging` and `table` are
symmetric in their threads, files or spaces. `fs` searches no further than
`overtaken` (the constraint `UntilOvertaken`), where its properties say nothing any
more but that `visitorCnt` is not behind the handles.

| Run | Instance | Checks |
|---|---|---|
| `kernel` | 4 threads, a mutex and a device semaphore; round robin, equal priorities, three levels of priority | `TypeOK`; `ListsKept`, `WakeupsKept`, `HandlersComplete`; the refinement `AtomicSteps` of the contract; `UnitsAreTaken`, the liveness part of the contract; `ReadyThreadRuns` |
| `monitor` | 4 threads, 1 lock, 2 conditions; round robin and all 16 assignments of two priorities | `MutualExclusion`, `WaitIsAtomic`, and the refinement `AtomicMonitor` of the contract, under preemption too |
| `synchtests` | 4 threads; barrier of 3 rounds, readers and writers, 2 producers and 2 consumers of 3 items on a buffer of 2; round robin, and two urgent threads | `NobodyPassesEarly`, `ReadWriteExclusion`, `ItemsAccounted`; without preemption `SomeoneGetsIn`, `TestsEnd` |
| `life` | 3 threads, 3 ids, 2 exit statuses; no timer, and round robin | `UniqueTIDs`, `JoinReturnsStatus`; without a timer `NoDoubleDelete`, `NoUseAfterDelete`, `JoinReturnsWithoutTimer` |
| `synchdisk` | 3 threads, 2 files, one call per thread; round robin | `OneRequestAtATime`, `FileExclusion`, `EveryCallReturns` |
| `filehdr` | 2 files, 1 direct block, 2 entries per index block, 11 sectors | `SectorsAccounted`, `BlocksStay` |
| `fs` | 2 threads, a file, a directory, a file in it, 7 sectors | `MapMatchesFiles`, `HandlesLive` |
| `paging` | 2 programs of 2 pages, 2 frames, a TLB of 2; three policies | `FramesAccounted`, `Isolation`, `ReadsLastWrite` |
| `table` | 3 threads, 2 files, 2 entries beside the console's | `DescriptorsHold`, `NothingOrphaned` |
| `cpu` | programs of 3 instructions, every defined opcode and function code and some reserved ones, 1 fault or interrupt anywhere | `FaultsTransparent`, `ArithmeticRight` |
| `devices` | console with 2 threads and 3 keys; 3 packets; a disk of 2 tracks of 3 sectors; 2 elevators and 3 floors, free and under the self test; with and without the timer | `KeysInOrder`, `OneOutput`, `PacketsInOrder`, `InterruptsKept`, `SectorUnderHead`, `RequestsEnd` |
| `blocksmarked` | 2 threads, 2 files; nothing but opens, growths and closes overlap (the constraint `OnlyGrowthOverlaps`) | violated: `BlocksMarked` |

The violated run states what a message of the code says, and section 5 tells what TLC
finds.

**Bounds.** `MaxValue = 2` in `Kernel`: a device semaphore can hold more units
than one, which is what a lost wakeup needs, and V is not called above it. Four
threads let two threads sleep on a semaphore while a third has been woken and a
fourth takes its unit. Three rounds of the barrier let a fast thread be a full
round ahead, more than once. Three items and a buffer of two let producers meet a
full and consumers an empty buffer, and a slot be used again. `MaxOps = 1` with
three threads and two files lets a first reader wait behind a writer with
`readerLock` held, while a reader of the other file arrives and leaves; the request
of the instance makes a write read its sector first, so that it sleeps twice with
its locks held, and another request lies past the end of the file. Three threads
and three ids let an id be freed and given out again while the first child's parent
has not joined it. Eleven sectors hold a file that uses all three levels beside one
that uses two, and refuse the second one more; `Request` crosses each boundary
between levels, one and several at a time. Seven sectors hold the three files of
`fs` and one more block, so that growth is refused and freed sectors are used
again; `MaxVisits = 2` bounds the visitors, whom some paths never count out: each
thread may have one, or one may be left over while the other thread has one. With two frames one program may have both of its pages in memory,
and two programs that have a frame each must replace their own page. Three threads on
two entries let a third thread rob a parent or its child, and be forked by a child that
waits for its copies itself. Three instructions are a load or a branch, its
slot, and one that sees the result.

## 4. Fairness

- `Kernel`: strong fairness of `Yield` where a timer runs. The timer interrupts
  again and again, and `RRHandler` and `TimerInterruptHandler` ask for a yield
  whenever the machine is not idle; a thread that has enabled interrupts again
  and again is made to yield. The loop of `Sleep`, a woken `P` and a suspended
  `V` go on (weak fairness): they run with interrupts off and nothing stops
  them. No fairness for `CallP`, `CallV` or for devices.
- `SynchTests`: the processor does not stop while somebody can go on (weak
  fairness of `Next`), and a thread that infinitely often has the processor and can
  make its next step makes it (strong): the timer waits at least a tick.
- `ThreadLife`: weak fairness of `Next`.
- `SynchDisk`: a time slice is long enough for a thread to make a step or for the
  disk to finish (strong fairness of `Progress`), and a thread that does not make
  one is interrupted by the timer (weak fairness of `Yield`). The disk interrupts
  a bounded number of ticks after a request (`Disk::ComputeLatency`).
- `Devices`: the clock goes on (weak fairness), because enabling interrupts and
  user instructions tick and `Idle` advances to the next interrupt; a thread that
  can go on infinitely often does (strong), as `Kernel` shows of ready threads. The
  keyboard and the callers of devices need not do anything.
- `FileHeader`, `FileSystem`, `Paging`, `OpenFileTable` and `Cpu` are checked for
  safety only: their calls end by themselves or by what `SynchDisk` shows.

## 5. A disagreement between the code and what it says

- `blocksmarked`: `WriteAt` reads, changes and writes the free map under the lock of
  its own file (`filesys/openfile.cc:206`). Two files that grow at once take the same
  sector; they are then removed one after the other, and the second removal fails the
  assertion that the blocks of a file "ought to be marked!" (`filesys/filehdr.cc:222`).
  `Create` and `Remove` are alone in this run: the remark of `Create` that there be no
  concurrent access (`filesys/filesys.cc:198`) does not forbid it.

## 6. What the hypotheses leave out

Properties that are stated without preemption, without a timer, or under a
hypothesis of section 2 are so because the code does not keep them otherwise, and
so are the exceptions that the history variables of `FileSystem`, `Paging` and
`OpenFileTable` stand for. Removing the hypothesis or the exception and running TLC
shows it:

- With priorities a `V` readies the waiter before it increments, and `ReadyToRun`
  yields to it at once; it sees the value 0 and sleeps again, and the unit comes too
  late (`NoLostWakeup`). The barrier, the read-write lock and the buffers inherit
  this and can hang. Safety is not affected: `AtomicSteps`, `MutualExclusion`,
  `WaitIsAtomic`, `AtomicMonitor`, `NobodyPassesEarly`, `ReadWriteExclusion` and
  `ItemsAccounted` hold under every policy.
- With priorities the same `Yield`, in a `V` of an interrupt handler, suspends the
  handler, and the next thread fails the assertion of `Interrupt::SetLevel`.
- A thread that runs for the first time starts in `ThreadRoot`, not inside `Run`,
  and so does not destroy its predecessor; if it finishes too, `threadToBeDestroyed`
  is overwritten and the first thread is never destroyed (`NoCarcassLost`).
- Thread ids are reused: a late `Join` can answer with another thread's status.
- Under a timer a joiner may be made to run `~Thread`, which takes `threadLock`,
  inside its own critical section of that lock; the next threads out of `SWITCH` then
  start the destructor of the same thread too, and all of them sleep there for good;
  and `ExecHandler` may ask a child for its id that is already deleted.
- `ExpandFileSize` compares the free sectors with the old number of sectors in the
  two-level cases; without room `Find` returns -1, which is stored as a sector.
- `overtaken`. Besides two growing files (section 5): `Remove` refuses a file "still
  being used by %d visitors!" (`filesys/filesys.cc:424`), but an `Open` that has read
  the header counts itself in after the test, and its file is freed. A close writes
  back the header as it was when the file was opened, and a block by which the file
  has grown since through another handle is lost (`filesys/openfile.cc:52`).
  `RemoveDir` frees an open file. A directory that is not found, or found empty by a
  removal, stays open: `Remove` refuses every empty directory, and a sector freed by
  `RemoveDir` keeps its `visitorCnt`.
- `returned`, `inherited`, `robbed`. `GetFile` assigns `TID` where it means to compare
  (`filesys/filesys.cc:779`). A child that reads through an inherited id, as
  `test/testFork.c:12` does, takes its parent's entry over, with every valid entry
  before it; a child to which nothing has been copied yet may get any other thread's
  copy. The entry is lost to its owner, who may be in the middle of a transfer.
- `late`. A child may exit before `ForkHandler` copies its parent's files for it
  (`userprog/exception.cc:366`): the copies carry the id of a thread that is gone. A
  table without room for the copies fails the assertion of `ForkHandler`.
- `spoiled`. The dirty bit is set in the TLB and never reaches the page table, by which
  `ReplacePage` decides (`userprog/exception.cc:104`): a written page is replaced as
  clean, and the write is lost.
- `foreign`. The TLB is not cleaned up for a thread without a space, so the program of
  an `Exec` may start with a translation to a frame of its parent, which waits for it
  in `Join`, say (`userprog/exception.cc:246`).
- `ReadBuffer` returns `&list[count-1]`, a pointer into the buffer, and `ConsumeItem`
  reads through it when the lock has been released (`threads/threadtest.cc:507`, `690`):
  by then a producer may have filled the slot again and the other consumer taken that
  item, and both consume it. `ItemsAccounted` is about the slots and their items at the
  time they are handed out, which is right.
- A write through an entry that a thread without a space has loaded changes another
  program's page, and is not in its own. `ReplacePage` returns -1 for a program that
  has no page in memory; a thread without a space that misses on a page that is not in
  memory uses the space it does not have. Neither is modelled further.
- `OR` computes `rs | rs`, and `SRL` and `SRLV` shift the sign in: `Cpu` models the
  code, and `ArithmeticRight` speaks of multiplication and overflow only.
- `Network::Send` never sets `sendBusy`: one sender at a time is up to the driver.

## 7. What is proved

All proofs are for every value of the constants: any finite set of threads, any
set of semaphores, locks, conditions, files, address spaces and policies. What is
assumed of the constants is in the `ASSUME`s of the modules, which TLC evaluates
for each instance: that sizes are positive numbers, that a lock is a semaphore,
and that objects the code declares separately are different ones
(`readerLock # diskLock` in `SynchDisk`, `Empty # Full` in `Buffers`, `WriterLock
\notin {Empty, Full}` in `SynchTests`). `ThreadLife` assumes that the threads of user programs have one
priority (the code gives them no other), `Paging` that `None` is no address space,
`OpenFileTable` that `NoTID` is no thread and that no file has the name of `Deleted`.

`SemaphoreProofs` has the lemmas: what `InsertAt` and the sorted insertion do to
the range and the injectivity of the ready list (`InsertAtProperties`,
`QueuedProperties`), `Append` and `Tail` of an injective sequence, and that `P`,
`V`, `Sleep`, `Run` and `Yield` preserve types. `EffectP` and `EffectV` say what a
`P` and a `V` do to the value and to their caller; `OneUnit(v, H)`, with `UnitTaken`
and `UnitGiven`, is the argument behind every exclusion below: a unit is in the
value `v` or with the one holder in `H`. `Dispatch`, with `SleepBlocks`,
`ReadyUnblocks` and `YieldDispatches`, says who is BLOCKED after each call of the
scheduler.

`KernelProofs`:

- `TypeCorrect`: `Spec => []TypeOK`. No semaphore goes below 0, because `P` tests
  in a loop.
- `WakeupsAreNotLost`, `ThreadsAreOnOneList`, `SetLevelAssertion`: `WakeupsKept`,
  `ListsKept` and `HandlersComplete`. `NoLostWakeup` is not inductive by
  itself: a step of `V` or `P` keeps the count of units and woken threads in
  balance only if a thread on a queue is asleep there and nowhere else, and only
  if no increment is still to come from a `V` that has already woken its thread. The invariant is
  `KernelInv == TypeOK /\ OnOneList /\ NoLostWakeup /\ NoneInV`, where `NoneInV`
  says that nobody is between the wakeup and the increment of a `V`. It holds
  under `NoPreemption`, and `PolicyStays` carries that hypothesis along a
  behaviour. The counting argument is one lemma per kind of step (`TakeStep`,
  `SleepStep`, `VStep`, `YieldStep`, `LeaveIdleStep`): a `V` adds a unit and a
  woken thread, a `P` takes one unit and at most one woken thread, a `P` that
  sleeps does so at value 0.
- `SemaphoresAreAtomic` (`AtomicSteps`): every step of the kernel is a step of
  `SemaphoreContract` or leaves its variables alone, under every policy. By the
  mapping a thread wants the semaphore in whose `P` its `pc` is (`Wants`); the queues
  and the woken threads are hidden. `PContract` covers both outcomes of a turn of the
  loop in `P`: a unit is taken, or the thread begins to want one or goes on wanting.
  `VContract` and `IncrementContract` cover the two ways through `V`: when the wakeup
  hands the processor over, the unit appears in the step that increments and not in
  the one that wakes. Only `TypeOK` is needed for it.

`MonitorProofs`, under every policy, preempting ones included:

- `MonitorTypeCorrect`, `LockExcludes` (`MutualExclusion`) and
  `WaitReleasesAtomically` (`WaitIsAtomic`). The invariant is
  `LockInv == TypeOK /\ LockUnit /\ OwnerHolds /\ ReleasedIsCurrent`: the unit of
  the lock's semaphore is either in its value or with exactly one thread
  (inside, or in a `V` that has not incremented yet); the owner is the thread
  inside; and a thread that has released the lock in `Wait` and is not yet on the
  queue is the current one, with the unit back in the value. The last part is what atomicity of
  `Wait` means on one processor, and the first part covers the case in which `V`
  gives the processor away: then the unit is still with the thread in `V`.
- `MonitorIsAtomic` (`AtomicMonitor`): `MonitorUse` implements `MonitorContract`. By
  the mapping the holder is `Owner`, and a thread waits from its Release in `Wait` on,
  although it is on no queue yet, until it is taken off the wait queue; while somebody
  is in the loop of `Broadcast` nobody waits, although the queue is not empty yet. So
  the call is the atomic step for `Release`, `Wait` and `Broadcast`, and what follows
  it stutters. That the lock is free when `Acquire` takes the unit, that nobody waits
  when the loop of `Broadcast` ends and that a wakeup is of one waiter only follow from
  `ContractInv`, which is `LockInv` with `QueuesKept`: a thread on a queue is on one
  only, once, BLOCKED at the place where it went to sleep.

`SynchTestsProofs`, under every policy too:

- `NobodyPassesBarrierEarly` (`NobodyPassesEarly`). The property is far from
  inductive. `BarrierInv` says that there is a round `r` such that everybody is in
  it or next to it (`RoundIs(r)`): who is outside has passed `r` rounds and come to
  `r`, who is counted or about to be has come to `r + 1`, and who has been woken but
  is not out yet is one behind. `CountsLeft` ties `num_left` to the number of threads
  that wait, and says that while the last one broadcasts all others are behind
  the condition. That rests on `QueuesInv`: one thread has `Mutex`, sleepers are
  BLOCKED and on one queue, and between the Release and the Sleep of `Wait` a
  thread keeps the processor (`SleepIsNext`). The two steps that matter are
  `LastIsLast` (when `num_left` is 1 every other thread is asleep on the condition,
  by counting) and `EndBroadcastKeeps` (the round moves on when the queue is empty).
- `WriterIsAlone` (`ReadWriteExclusion`). `ReadWriteInv`: `ReaderUnit`, the unit of
  `ReaderLock`; `CountRight`, `ReaderCnt` is the number of readers, but for the one
  that is about to take or give back `WriterLock`; `WriterUnit`, the unit of
  `WriterLock` is in its value, with one writer, or shared by the readers. A `V`
  that hands the processor over (`rReleasing`, `uLastV`, `uReleasing`, `wRelease`)
  has its unit still with the caller.
- `ItemsAreAccounted` (`ItemsAccounted`). `BufferInv` has two parts. `Filled` says that
  an access never finds the list empty or full. For `Buffer` this is the balance of
  its two semaphores: the value of `Empty`, the producers between its `P` and their
  access, the consumers between their access and the `V`, and the items stored add up
  to `BUF_LEN` (`Slots`), and likewise `Full` (`Items`); `GateMoves` says how one step
  moves these counts. For `BufferCnd` and `SynchList` the test and the access are one
  step. The second part is what the accesses did: what is stored and what was taken
  partition what has been produced, one item for each access of a consumer
  (`Accounted`), and a `SynchList` has the items of one producer in their order
  (`InOrder`). The proof does not use `BufMutex`: an access calls nothing that turns
  interrupts on, and simulated time, with it the timer, advances nowhere else, so on
  the one processor nothing comes between its parts.

`ThreadLifeProofs`, for any number of threads and ids:

- `IdsAreUnique` (`UniqueTIDs`) and `JoinTellsTheStatus` (`JoinReturnsStatus`), with
  and without a timer; `DestructorsRunOnce` (`NoDoubleDelete`) and
  `DeletedThreadsAreNotUsed` (`NoUseAfterDelete`), which are about machines without
  one. All four follow from `LifeInv` (`LifeInvariant`), whose parts need each other:
  `Lists` (who is BLOCKED, READY or new), `Forks` (one thread forks a child, and until
  then nobody schedules it), `Destruction`, `Ids` (an allocated thread is the one its
  id points to), `Exits` (what `end_state` says of a thread until its id is reused)
  and `Timerless` (without a timer the processor never changes hands inside `Exec`
  nor while `threadLock` is held).
- The hard part is the destructor, which may sleep on `threadLock` and be entered again
  by whoever comes out of `SWITCH` next. `UniqueTIDs` survives with a timer because of
  what `Destruction` says: as soon as one destructor sleeps, `threadLock` is not
  released again. Its holder is not running, and every thread that comes out of
  `SWITCH`, the holder too, starts the destructor of the same thread and goes to sleep
  in it, so that only threads that have not been in `Run` yet go on (`Fresh`). Hence no
  id is given back twice; the price is that the machine comes to a stop (section 6).
  So `DeleteAcquireStep` need not consider a destructor that is woken, and no
  destructor is ever below another one: `saved[t]` has at most one place, one of
  `Active`.

`SynchDiskProofs`:

- `DiskServesOneRequest` (`OneRequestAtATime`) and `WritersAreAlone`
  (`FileExclusion`). `DiskInv` has the units of `readerLock`, `diskLock` and of each
  file's mutex (`ReaderUnit`, `DiskUnit`, `FileUnit`), the exact count of the readers
  (`CountRight`) and `DoneOnce`: a request under way, or its interrupt, belongs to a
  thread that waits for it, and there is one of the two at most.

`PagingProofs`:

- `FramesAreAccounted`, `ProgramsAreIsolated`, `ReadsReturnLastWrite`
  (`FramesAccounted`, `Isolation`, `ReadsLastWrite`). `PagingInv` has the types, the
  page tables as records of who owns which frame (`Records`, `FramesUsed`), that an
  entry of the TLB agrees with the page table of the running program unless a thread
  without a space has loaded it (`TLBTrue`), and where the last written value of each
  page is that is not spoiled: in its frame or, when the page is not in memory, in the
  VM file (`LastWritten`). None of the three is inductive without the others: a write
  goes through the TLB, so it stays in the program's own frames only because the TLB is
  true to the table. Frames may be replaced any number of times: a page that had not
  been written since it was loaded is read back as it was.

`OpenFileTableProofs`:

- `OpenDescriptorsHold` (`DescriptorsHold`) and `NoFileIsOrphaned`
  (`NothingOrphaned`), both from `TableInv`. Beside what the two say it has: an object
  being opened is in no entry and in one hand (`OpenersHold`), a parent that has not
  copied the table yet has a child that lives or was late (`ChildrenWait`), and what an
  invalid entry holds (`EntriesLive`). `GetFileFinds` says what is left of the table
  when `GetFile` has passed over it: the files and the ids stay, every TID stays or
  becomes the caller's, and the file found is in an entry of the caller's afterwards.
  `ClosedOnly` says that a close deletes the objects of its entries and no other, since
  no two entries share one. `ObjectsSpare` and `NewObjectIsFree` say that the model has
  as many objects as are ever open at once; `CopyingExists` that `CopyFile` pairs every
  file of the parent with an entry and an object of its own, from `NthIn`, `NthDiffer`
  and `NthAll` on the k-th smallest element of a finite set, which follow by counting.

Only model-checked: liveness and everything that rests on fairness
(`UnitsAreTaken`, `ReadyThreadRuns`, `SomeoneGetsIn`, `TestsEnd`,
`JoinReturnsWithoutTimer`, `EveryCallReturns`, `RequestsEnd`), which TLAPS does not
reason about; the properties of the devices that count with `SelectSeq`, which need
induction over data; and the properties of the remaining modules. Those of `FileHeader` rest on counting clear
bits and on `CHOOSE`, those of `Cpu` on bitwise operators, which the provers do not
have.

## 8. What is not modelled

Pipes: `WritePipe` and `ReadPipe` open, write or read, and close the file of
`PipeSector`, and keep no state of their own. The display of the elevators
(`MarkDirection`), which nothing reads. Crashes between two writes of the file
system: there is no recovery to check, and `Restart` happens between calls. What
`Exec`, `Fork` and `Exit` do is divided among `ThreadLife`, `Paging` and
`OpenFileTable`; the three are not composed. The host interface (`sysdep.cc`),
statistics and debugging, the tools in `bin/` and the tests that only print or call
one primitive: pure I/O, or not part of the kernel. `SWITCH` and the stack fencepost
are assembly and memory detail: the models take a switch as one step. The builds
`THREADS`, `USERPROG` and `FILESYS`/`VM` differ in which of these parts they
contain; options that no Makefile turns on (`CONCURRENT_TEST`,
`INVERTED_PAGETABLE`) are left out.
