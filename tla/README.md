# RYMOS in TLA+

RYMOS is a small x86-64 operating system in Rust: a UEFI bootloader, one kernel
file (`kernel/src/main.rs`), a user runtime (`runtime/rymos-user`), the shell
`rysh` and sample programs. This directory models the parts of the kernel
and the runtime whose correctness depends on order, interruption and partial failure,
checks them with TLC on small instances, and proves most of the safety properties with
TLAPS for every size. All line numbers below are of `src/kernel/src/main.rs` unless another file is named.

## 1. Inventory

| Component | State | Operations | Interacts through | What makes it correct |
|---|---|---|---|---|
| Process table and scheduler | `PROCESS_TABLE`, `NEXT_PID`, `CURRENT_PROCESS_INDEX`, CR3, `PENDING_STACK_RECLAIMS` | `process_spawn*`, `prepare_process`, `spawn_prepared`, `run_program`, `wait_for_*_blocking`, `process_wait`, `switch_to`, `exit_and_yield`, `process_trampoline`, `maybe_preempt` | one CPU; the tick interrupts any code that has not disabled interrupts | one Running slot; only complete contexts run; every exit wakes its waiters; a status is collected once and not dropped before; stacks and address spaces outlive their users |
| Physical page allocator | `PHYS_ALLOCATOR` (ranges, `free_stack`, counts) | `alloc_page`, `free_page`; guarded wrappers `alloc_zeroed_page`, `free_phys_page` | called by everything that maps memory | a page has one owner; none is lost; the counters agree |
| User memory windows | `heap_next`, `mmap_next`, `mappings`, page tables | `abi_mem_alloc_pages`, `abi_mem_map_pages`, `abi_mem_unmap_pages`, `map_user_pages`, `unmap_user_pages`, `process_reclaim_mappings`, `reclaim_process_window_tables`, `create_/destroy_process_address_space` | page allocator; trampoline at exit | failed calls leave nothing mapped; exit gives everything back; guard pages stay unmapped |
| Persistent file system (PFS) | header with the entry table and extents, data sectors | write, mkdir, delete, rename, read_at, write_at, grow | ATA sectors; open descriptors cache entry index and length | files never share a sector; sizes covered by extents, after a crash too; unique names; contents as a program expects; no lost update |
| Descriptors and pipes | global `APP_FDS`, `APP_PIPES`; `std_fds` per process | open, read, write, seek, close, pipe, dup2, std_fd, inheritance at spawn, `app_close_all_fds` | shared by all processes | the two tables agree; a standard descriptor is usable; pipe data complete and in order; every call closes what it opened |
| Environment | `env` per process over the constant `ENV` | set, remove (tombstone), get, list, inheritance | copied at spawn | lookup agrees with the sequence of calls |
| Paths | `cwd` per process, the names of the entry table | resolve, chdir, mkdir, create, unlink, rename, list, stat, `read_dir`, `create_dir_all` | ABI calls of processes that interleave | a path resolves to what it means; no file without its directory; a walk is complete |
| RamFs, BootFs | fixed tables | lookup, store | console and ABI | |
| Program loader | image window of an address space | `load_program_elf_isolated` | `prepare_process` | writes only through the child's address space |
| Runtime, rysh, programs | saved stdio, cwd and overrides of a call; bump allocator | `Command::output`, `Command::status`, rysh's spawn builtins | the ABI: the caller's own context is changed, inherited at spawn and put back | context and descriptors restored on every way out; the child gets what was asked for; captures are complete |
| Bootloader, ATA, IDT/PIC/PIT, console drawing, host scripts | hardware | | | |

What is hard to test here: the tick can land between any two instructions that run
with interrupts enabled, and most of the kernel does; the tests are boot scripts
with a few programs, so an interleaving that needs a tick in a window of a few
instructions, an allocation failing half way through a call, a table exactly full,
or a power loss between two sectors is practically never exercised. The list, with
lines and the properties meant for each, is `hazards` in `PROJECT.json`.

## 2. Modules

| Module | Models | Kind |
|---|---|---|
| `Scheduler` | process table, scheduler, wait, exit, tick, the console's `run` and `wait` | component |
| `ProcLife` | the life of a pid as a parent may rely on it | abstract specification, implemented by `Scheduler` when no tick moves the CPU |
| `SchedulerProofs` | the CPU, contexts, stacks and address spaces of `Scheduler`, every size, ticks anywhere; wakeups without a tick | proofs |
| `SchedulerLife` | switching, reclaiming, exiting and the refinement of `ProcLife`, without a tick | proofs |
| `PageMemory` | page allocator, address spaces, heap and mmap windows | component |
| `PageMemoryProofs` | windows with ticks anywhere, ownership of pages and complete mappings without | proofs |
| `MCPageMemory` | model values and symmetry for `PageMemory` | TLC |
| `Pfs` | persistent file system: entry table, extents, descriptors on its files, console commands, interrupted writes | component |
| `FileStore` | a tree of directories and byte sequences, changed one call at a time | abstract specification, implemented by `Pfs` as long as an entry has one user and no write fails |
| `PfsProofs` | extents and growth by induction, the table and the tree, interrupted writes | proofs |
| `MCPfs` | paths, symmetry and sector boundaries for `Pfs` | TLC |
| `Env` | the override table of a process | operators |
| `EnvProofs` | the table acts as a function update and its listing agrees with lookups, for every size | proofs |
| `Fds` | descriptor and pipe tables, the ABI calls on them | operators |
| `Command` | `Command::output`, `Command::status`, rysh's spawn builtins and the programs they nest, over `Env` and `Fds` | composition |
| `CommandProofs` | the chain of calls: context, environment and descriptors, for every depth and every set of requests | proofs |
| `CommandCapture` | the bytes of every call through pipes and files, on top of `CommandProofs` | proofs |
| `MCCommand` | requests for `Command` | TLC |
| `Paths` | path resolution, cwd, the tree calls of two processes, `read_dir`, `create_dir_all` | component |
| `PathsProofs` | names and resolution by induction, the tree, the walks | proofs |
| `MCPaths` | paths for `Paths` | TLC |

### Scheduler

A context is a slot of the table or the reserved idle slot `PROCESS_COUNT`, in
which the kernel console runs. Only `current` takes steps. `pc[c]` says where a
context stands; `target`, `slot`, `next`, `cell`, `taken`, `runSlot` are the locals that
live across a point at which interrupts are enabled (the pid waited for, the slot being
prepared or collected, the slot picked by `pick_next_ready`, the place in
`PENDING_STACK_RECLAIMS` and the pid read there, `run_program`'s `process_index`). A section under `without_interrupts` is one action; code that
runs with interrupts enabled is cut wherever a tick could be noticed. `Tick` is
`timer_tick_isr`/`maybe_preempt` and is possible in every state in which the code
would not return early.

Memory is abstracted to ownership: `spaces` and `stacks` are the pids whose PML4 or
kernel stack is allocated, `pml4[i]` and `rsp[i]` the pid whose PML4 or stack slot
i's fields point to, `cr3` the pid whose PML4 is active (0 is the kernel's). Popping
registers off an unmapped stack faults (`halted`); running on a freed PML4 may or
may not, as the page may or may not have been reused.

`PENDING_STACK_RECLAIMS` is kept cell by cell. Queueing a stack is a scan, one cell a step,
and a store; draining is a read, the store of None and the reclaim, per cell. A context
resumed inside the timer interrupt drains with interrupts off, one that yielded with them
on, and a new process, which enters its trampoline, not at all. `stacks` loses a pid in one
step, as the reclaim unmaps the page its owner would stand on.

Programs and the person at the console are free to make any call at any time.
Names, arguments, exit codes and the ELF image are left out; each failure of
`prepare_process` is a nondeterministic choice. `exit_and_yield`'s store of
`Exited` and `wake_waiters_for` are one step, because `maybe_preempt` never moves
the CPU away from a slot that is not Running.

| Definition | Code |
|---|---|
| `ProcessSpawn`, `Claim` | `process_spawn_with_argv` (1922) |
| `PrepareSpace` .. `Publish` | `prepare_process` (5339) |
| `WaitTest` .. `WaitBlock` | `wait_for_pid_blocking` (5514), `process_wait_by_pid` (2238), `block_current_on` (5462) |
| `PickNextReady`, `Switch` | `run_scheduler_step` (5478), `switch_to` (3227) |
| `Resumed`, `Take`, `Reclaim`, `Yielded`; `ExitQueue`, `ExitStore` | `reclaim_pending_stacks` (3279), `reclaim_process_stack` (2922); `queue_stack_reclaim` (3267) |
| `Trampoline`, `UserExit`, `Exit*` | `process_trampoline` (3405), `exit_and_yield` (3367) |
| `RunProgram`, `RunNotFound`, `RunDone` | `run_program` (6121) |
| `Tick` | `maybe_preempt` (7207) |

`Preemptive = FALSE` is not a way to boot the kernel. It selects the behaviours in
which no tick moves the CPU, and separates what the cooperative code guarantees
from what the tick takes away.

### PageMemory

A task is a slot of the process table; every new pid has windows of its own, so a
window starts empty. The allocator's ranges are used up one after the other and are
modelled as one run of pages. `free`/`freeCount` keep the array form of
`free_stack`, cells above the count included, because the race is about them.
`alloc_zeroed_page` and `free_phys_page` are single steps; the `free_page` inlined
in `unmap_user_pages` is three (load of the count, store of the page, update of the
count, on the loaded value or on memory: both are code the compiler may emit). An address
space is `SpacePages` pages, allocated one by one and freed in reverse; it may fail before
any of them and, for want of a kernel stack, after the last. `dropped` is auxiliary: the
pages `free_page` refused because its stack was full.

`map_page` walks the tables by `ensure_next_table`. The PDPTs above both windows exist
before a process does. The page directory above the heap windows is shared by four
neighbouring pids (2107), here by all tasks, and never freed: `Walk` reads its entry and
allocates, `Link` writes it, and a tick may fall in between. When the entry was written
meanwhile, what the earlier directory mapped is out of reach, and a walk that came by it
goes astray. Below it a heap window has page tables of its own, an mmap window a directory
and page tables of its own; each window needs one such page, allocated with its first
mapping. An entry that is present already is refused (2615). Kernel stacks are in
`Scheduler`.

| Definition | Code |
|---|---|
| `AllocPage`, `FreePage`, `FreeLoad`, `FreeStore`, `FreeCount` | `alloc_page` (600), `free_page` (620) |
| `SpawnStart`, `Space*` | `create_process_address_space` (2770), `destroy_process_address_space` (2870), `prepare_process` (5339) |
| `MemMap`, `MapAlloc`, `RollBack`, `Untracked` | `abi_mem_alloc_pages` (5576), `abi_mem_map_pages` (5616), `map_user_pages` (2667), `process_untrack_mapping` (2056) |
| `Walk`, `Link`, `MapPage`, `MapRefused` | `map_page` (2594), `ensure_next_table` (2625) |
| `MemUnmap`, `UnmapPage`, `UnmapDone` | `abi_mem_unmap_pages` (5664), `unmap_user_pages` (2684) |
| `Exit`, `ReclaimMapping`, `ReclaimTable` | `process_reclaim_mappings` (2075), `reclaim_process_window_tables` (2098) |

Any task may step between two steps of another when `Preemptive`; the tick does
alternate between two Ready processes at arbitrary points, so with two tasks this
adds no behaviour.

### Pfs

`hdr` is the entry table on the disk, `data` the sectors, `fds` the open descriptors
with the entry index, length and offset they cache, `op` the write in progress. A call
that only edits the header is one step: read the header, change a copy, write it back.
A write is three, because it writes the disk three times: `EnsureCapacity` (extents,
`pfs_ensure_file_capacity`), `WriteData` (gap and data, `pfs_write_at`), `UpdateSize`
(`pfs_update_size`, the descriptor only when it passed its cached length). Opening
with `create` or `truncate` writes the header before it looks for a free descriptor, so
a call that fails for lack of one has still changed the disk (`OpenAt`).

Names are sequences of components, so that a parent is `Front` and "below" is a proper
prefix. Allocation is by sector; `pfs_find_free_run` hands out runs, which comes to the
same extents since the search goes on where the run ended. `Patched` writes byte by
byte at the position `pfs_entry_lba_for_sector` computes.

Faults: any sector of a header write may fail or be the last before power goes. The
table is then new up to some entry and old behind it, and an entry that spans a sector
boundary is torn (`Torn`: by the layout at 92-105 kind, size and count come first, then
the extents, the name last; the length of the name is new and its bytes are in part old,
so a torn rename may give any name). After a failed sector the kernel goes on with its
descriptors; after a power loss they are gone (`CloseAll`). `Cut` says where boundaries fall; the
real entry size of 152 bytes puts them at every place from none to inside the name.

| Definition | Code |
|---|---|
| `OpenExisting`, `OpenCreate`, `OpenTruncate`, `OpenAt` | `abi_open_pfs` (4624) |
| `Read`, `Write`, `Seek`, `Close` | `abi_read` (4711), `abi_write_fd` (4780), `abi_seek` (4840), `abi_close` (4869) |
| `Mkdir`, `Unlink`, `Rename` | `abi_mkdir` (5028), `abi_unlink` (5723), `abi_rename` (5746) and the console's commands |
| `Format`, `ConsoleWrite`, `CloseAll` | `PersistentFs::format` (1350), `PersistentFs::write` (1429), `app_close_all_fds` (6025) |
| `Grown`, `NextFree`, `Taken`, `Fits` | `pfs_grow_extents` (1751), `pfs_find_free_run` (1846) |
| `Stored`, `HeaderFault` | `write_header` (1602) |

The console formats and writes only while no descriptor is open (`NoneOpen`): it has the CPU
only when no process is Ready, and before one runs again `run_program` closes every
descriptor (6151), so a descriptor open at a console command is never used after it.

`Shared = FALSE` selects the behaviours in which nobody opens, truncates, removes or
writes an entry that a descriptor has open. The kernel does not enforce this; it
separates what one user of a file gets from what stale descriptors do to it.

Timestamps and mode bits are left out. One disagreement about them was seen on the way:
`docs/program-abi.md` has the modified time refreshed by every write, while an overwrite
inside the cached length never reaches `pfs_touch_modified`.

### Env, Fds and Command

Line numbers here are of `runtime/rymos-user/src/lib.rs` unless marked K (kernel) or
S (`programs/rysh/src/main.rs`).

The ABI has no spawn attributes. `Command::output` therefore changes its caller's own
cwd, environment and standard descriptors, spawns, waits, and has to put everything
back. `Command` models that as a chain: `procs[1]` was started by the console's `run`,
`procs[d + 1]` by the call `procs[d]` is in, and only the last one computes. As nobody
else is runnable, a call into the kernel is one step. `procs[d].call` holds the locals
of the call: what was saved, the overrides to undo, the descriptors opened, what has
been read. The six callers differ only in which streams they give the child and which
they read back, so each is a record (`run_command_output`, ..., `spawn_io_err`) over one
set of steps; the builtins go back to the console instead of to what they saved, read
once, and print before they close.

`Env` and `Fds` are the kernel's tables as operators: a slot scan is "the first that",
a call gives the new tables. A value of `Absent` is a tombstone. A pipe keeps the bytes
written since it was last drained and how many of them are read, as the code does.
Files are sequences of bytes here; `Pfs` is about where they are stored.

Bytes are named after the operation that wrote them, so the histories `log` (what the
child and its descendants wrote or took), `sink` (the call a stream belongs to) and `at`
(the caller's context at the call) can say what a capture must contain. `fresh` marks a
process that has not changed its own context. A file can be the target of several streams: of both
outputs of one request, or of a call made inside another one that writes there. What is
then in it depends on two offsets that know nothing of each other, so `CaptureComplete`
speaks of the file only where it is one stream's alone (`Alone`).

| Definition | Code |
|---|---|
| `Begin` | the head of `run_command_output`/`run_command_status` (983, 1152) |
| `ApplyOverride`, `OverrideFails`, `Undo`, `restore_env` | `apply_env_overrides` (1356), `restore_env` (1386) |
| `OpenPipe`, `OpenFile`, `OpenFails`, `Redirected` | 1007-1064, 1176-1271; builtins S 374-646 |
| `Spawn`, `SpawnFails`, `WaitFails` | `spawn_prepared` (K 5405); 1076-1116, 1280-1314 |
| `Collect`, `restore_stdio`, `reset_stdio`, `dup2_all` | 1117, 1424; S 648 |
| `ReadChunk`, `EchoCaptured`, `CloseAll`, `ReturnEcho` | `read_all_available` (1396), S 635, `close_many` (1430), `relay` |
| `abi_pipe`, `abi_read`, `abi_write_fd`, `abi_close`, `abi_dup2` | K 5857, 4711, 4780, 4869, 5919 |
| `env_set_overlay`, `env_lookup`, `env_list` | K 5193, 5136, 5156 |

### Paths

A path is a prefix flag (`pfs:`), a leading-slash flag and components; a name is a
sequence of components; lengths are kept because limits are. `normalize_pfs_path` is
a recursive function over the components; `Meaning` is its reference definition, without a stack. Two
processes make ABI calls in any order; `read_dir` resolves and counts again at each
`next`, and `create_dir_all` is a stat and a mkdir per component, so other calls fall in
between. A rename looks for the new parent while the entry still has its old name, as the
code does. `Copied` is what of a name the 64-byte buffer of `ReadDir::next` takes
(`NameBuffer`). `clean` is a history: whether a walk's own directory, or the tree during a
`create_dir_all`, stayed as it was. A step that fails without changing anything is left
out, except inside `create_dir_all`.

| Definition | Code |
|---|---|
| `pfs_resolve_path`, `normalize_pfs_path`, `pfs_push_component`, `pfs_pop_component` | 3810, 3823, 3851, 3873 |
| `Chdir`, `Make`, `Unlink`, `Rename` | `abi_chdir` (5803), `abi_mkdir` (5028) and `abi_open_pfs` (4641), `abi_unlink` (5723), `abi_rename` (5746) |
| `ListedDir`, `abi_list`, `pfs_list_match`, `stat_path` | 4944, 3729, 5964 |
| `ReadDir*`, `CreateDirAll` .. `Returned` | runtime 729, 631 |

## 3. Runs

| Run | Configuration | Checks | Result |
|---|---|---|---|
| `preempt` | `SchedPreempt.cfg`: 3 slots, 3 pids, tick | `TypeOK`, `RunningIsCurrent`, `ReadyHasContext`, `LiveStackMapped`, `Cr3Follows`, `AddressSpaceOwned`, and with fairness `SlotZeroRuns`, `OnlyConsoleRevives` | holds |
| `coop` | `SchedCoop.cfg`: 3 slots, 4 pids, no tick | `NoLostWakeup`, `NoDanglingSwitch`, `ReclaimsExitedOnly`, `ExitLeavesStatus`, `LifecycleSpec` | holds |
| `lostWakeup` | `SchedLostWakeup.cfg`: tick | `NoLostWakeup` | violated |
| `starvation` | `SchedStarvation.cfg`: fairness | `ReadyRuns` | violated |
| `pages` | `PageMemory.cfg`: 2 tasks, 5 pages, free stack of 2 | `TypeOK`, `NoPageTwice`, `NoLeak`, `MappedIsTracked`, `TrackedIsMapped`, `GuardsUnmapped`, `DeadHoldsNothing` | holds |
| `pageRace` | `PageRace.cfg`: the same with ticks | `NoPageTwice` | violated |
| `pfs` | `Pfs.cfg`: 2 entries, 4 data sectors, 2 extents, stale descriptors, 1 fault | `TypeOK`, `FilesDisjoint`, `InDataArea`, `SizeCovered`, `NamesUnique`, `NoOrphanFile` | holds |
| `pfsFiles` | `PfsFiles.cfg`: sectors of 2 bytes, one user per entry, no fault | `FileStoreSpec` | holds |
| `pfsAppend` | `PfsAppend.cfg`: two descriptors, no fault | `AppendAtEof` | violated |
| `command` | `Command.cfg`: 3 processes deep, 4 operations, 2 override slots, pipes of 2 bytes | `TypeOK`, `RestoredOnReturn`, `NoFdLeak`, `CaptureComplete`, `StdUsable`, `ChildSeesRequest`, `EnvConsistent` | holds |
| `paths` | `Paths.cfg`: 2 processes, 3 entries, names of at most 4 bytes | `TypeOK`, `ResolvesRight`, `FileHasParent`, `WalkComplete`, `MkdirsComplete` | holds |
| `cwdOverflow` | `PathsCwd.cfg`: a cwd buffer shorter than a name | `NeverPanics` | violated |

Bounds. Three slots are the least at which a third process can disturb a waiter and
the process it waits for, at which a slot is reused while two others are alive and
at which a process can starve behind two others; with four pids on three slots
every run reaches slot reuse. `PidBound` bounds `NEXT_PID`; reaching it only stops
spawning. Five pages for two address spaces of two pages make every allocation fail
in some state, and a free stack of two is full in some state; a window of four
pages holds a guarded mapping and a neighbour. Three data sectors and two extents are
the least at which two files fragment each other and fill the disk; with four a file
reaches `FileMax` before the disk is full, and after a fault a third extent is refused
although there is space. Sectors of two bytes with files of three have partial
sectors and a sector boundary. In `pfs` every byte is alike, since its properties are
about the table; in `pfsFiles` a written byte, left over in a freed sector, differs from
the zero a gap must read as. One name may be a directory that holds the other. One
fault already reaches every torn entry; with two, `FilesDisjoint` is about nothing more,
and the proofs cover the rest for any number. In `command` three processes are a capture
inside a capture with a program at the bottom, and twelve descriptors are exactly two
captures: a third fails for lack of a pipe in some state, as do overrides, with two
slots for three keys. Four operations let the innermost program write twice, or move,
after both calls began; pipes of two bytes overflow, and a buffer of one byte makes
`read_all_available` loop while a builtin, which reads once, loses the rest, as with the
real 8192 against 128 to 512. Rysh is the top process only (see below). In `paths` one
name is so long that it does not fit below another, nor into the buffer of a walk; three entries are a directory, one
in it and one beside it, and a table that is full. Deadlock is not checked for
`Scheduler`: a fault halts the machine, and a console with no pid left may idle.

Fairness. `FairSpec` asks that the PIT keeps raising IRQ0 (`Tick`) and that the CPU
keeps executing kernel code it is in the middle of (`KernelStep`, `RunDone`).
Nothing is asked of programs or of the person at the console: a program may compute
for ever. `ProgressSpec`, used for `starvation`, also asks that a context that gets
the CPU again and again gets through its current kernel step: 10 ms are far longer
than any of them. The starvation found is therefore not an artefact of weak
fairness.

### What the violated runs show

* `lostWakeup` (5514): a tick between the scan and `block_current_on` lets the child
  exit first; the parent blocks on a zombie and nothing wakes it.
* `starvation` (3323): the scan starts at slot 0; two compute-bound processes in low
  slots keep every higher slot from running.
* `pageRace` (2685): `unmap_user_pages` frees pages with interrupts enabled; a tick between the
  store and the count makes the count cover a cell without a page.
* `pfsAppend` (4820): an append-mode descriptor takes its cached length for the end of
  the file; what another descriptor appended is overwritten, although
  `docs/program-abi.md:134` says "Append-mode descriptors write at EOF on every call".
* `cwdOverflow` (5846): `abi_chdir` copies a name of up to `PFS_NAME_MAX` = 96 bytes
  behind `pfs:` into `APP_CWD_MAX` = 64 bytes; a directory name over 60 bytes is a slice
  panic in the kernel.

TLC also refutes the following; they are recorded here without a run of their own. In
`Scheduler` with `Preemptive = TRUE`, three slots and four pids being enough:

* `ExitLeavesStatus` (2247): `waited` is tested and set in two steps. With a tick in between
  another waiter collects the status and the slot gets a new owner, whom the late store
  strikes: its exit leaves nothing to collect, although 1995 says that "An unwaited zombie
  must never be reused". By the same tick two waiters can take one status.
* that the loader's CR3 is the child's (5358): a switch away and back during the ELF load
  restores the loader's own, although 5351 says it "has to point at its private PML4 for the
  duration of the load". `Cr3Follows` says how far this goes: it is the loader's own or the
  child's, never another's.
* that a dead context is never run (5479): the console picks a slot, a tick runs that process
  to its end, and the switch then resumes a dead context, against 3363-3365. By
  `OnlyConsoleRevives` this is the only way; `RunningIsCurrent` and the proofs take the
  context into account.
* `NoDanglingSwitch` (3423): the PML4 is freed before `pml4_phys` is cleared; a process switched
  away from in between comes back on a freed page table, which 3424-3428 set out to rule out.
* `ReclaimsExitedOnly` (3442): the stack is queued while its owner can still be preempted, and
  is unmapped under a process that is Ready; when it is picked the machine halts.

In `Scheduler` without any tick: that every mapped stack is queued, being reclaimed, or still
to be queued (3267). Only a context that returns from `switch_to` drains the queue. When every
exit hands the CPU to a process that has not run before, nobody drains it; with a slot
collected and reused meanwhile, one exit more than there are cells leaks a stack. 3263-3266
call this the "should-never-happen case".

In `PageMemory` with `Preemptive = TRUE` (two tasks, seven pages, a free stack of one, address
spaces and windows of one page, one mapping): `TrackedIsMapped` (2635). Two processes make their
first heap mapping; both find the directory's entry empty, and the second write takes the
first one's pages out of its page tables although `mem_alloc_pages` returned them.

In `Paths`, and likewise in `Pfs`: that directories too have a parent (3680). An empty directory
`a` can be renamed to `a/b`, because the parent is looked up before the name changes;
`docs/program-abi.md:216` says "Parent directories for the destination must already exist".
Hence `FileHasParent` and `NoOrphanFile` are about files.

The tick is the only trigger of `lostWakeup` and of the five of `Scheduler` above. Run `coop` is
about the rest: that the same properties do not also fail on paths without a tick.
`ExitLeavesStatus`, for one, could: `run_program`'s late store (6177) does not need one.

Also in `Scheduler`, with or without ticks: waiting a second time for a pid whose zombie
is still in its slot blocks for ever (5519: `find_process_index_by_pid` accepts any slot
that is not Empty), although the comment there ("never existed, or already reaped") and
`docs/program-abi.md:182` promise an error. A `run` whose preparation fails leaves a
Failed slot nobody waits for (6161). A process that waits for itself blocks for ever
(5522). `NEXT_PID` wraps after 2^32 spawns (1932) and may meet a live pid.

`Pfs` also shows, without a run of their own:

* After a header write that stopped inside an entry's extents the entry may end in an
  empty extent with start 0 or part of a sector number. The next growth searches from
  there (1761), and `pfs_find_free_run` neither keeps out of the header nor, because of
  `skip_index`, out of the file's own sectors. Hence `InDataArea` is stated for disks
  without such a fault, and `HeaderLost` is reachable. No later check finds such an entry.
* Nothing repairs the table, and a second interrupted header write can undo what
  `FilesDisjoint` says: a truncation torn behind the count leaves the old extents in
  place, another file is given their sectors, and a growth torn after the count takes
  them in again (13 steps, found with `MaxFaults = 2`).
* Growth never looks before the file's last extent: with a hole there and nothing behind,
  a write fails with "disk full", which the comment at 94-97 and the repository's README
  ("fragmentation from other files doesn't cause spurious 'disk full'") rule out.

`Command` and `Paths` show, without a run of their own:

* With `Shells = {1, 2}`, rysh itself inside a capture, `CaptureComplete` and
  `RestoredOnReturn` fail: rysh's builtins end with `dup2(n, n)`, which means the console
  (S 406, 648), so what rysh prints afterwards is lost to its caller. This is the bug the
  runtime's `restore_stdio` was written for (1414-1423, K 5942-5953), still in rysh.
* `restore_cwd` ignores a failing chdir (1347): a child that removes its grandparent's
  directory leaves the caller in the request's cwd. The properties say so explicitly.
* Data beyond a pipe's 8192 bytes is lost, stdin included (`fd_write` once, 1046), and
  `rt::write` prints a refused buffer on the console (374). A builtin shows one read.
* An empty pipe reads as end of file even when its writer is alive (4741). Captures are
  right only because the runtime waits before it reads.
* `app_close_all_fds` at the next `run` (6151) also closes the descriptors of processes
  started by rysh's `daemon`; the comment there says "revisit once Stage 4 adds real
  backgrounded daemons". For the same processes the scans for free slots (4604, 5870)
  are not atomic. Background processes are not in `Command`.
* `create_dir_all` drops a leading slash when there is no `pfs:` (632-640), so `/a` is
  made below the cwd. `read_dir` of `..` at the root of RYMFS lists BootFS (4973), and cuts
  names at 64 bytes (runtime 738); `WalkComplete` takes both for what the call means. An
  interfered-with `create_dir_all` may succeed and leave no directory (652); `MkdirsComplete`
  claims one only where nobody interfered.
* `docs/program-abi.md` calls the override limit 8 where `APP_ENV_COUNT` is 64, and
  pipes "process-local" where the table is global.

Seen on the way, outside the models: `program_path` (6185) cannot hold the longest program
names `abi_spawn` accepts; rysh's variable store overwrites its first variable when full
(S 49); `offset + buffer_len` in `abi_write_fd` (4822) is not checked for overflow; a failed
`create_process_stack` leaves a page-table page behind (5368).

## 4. Proofs

TLAPS checks everything in this section for every value of the constants that satisfies
the `ASSUME` of the component's module: sizes are naturals, positive where the code needs
it; `Preemptive` and `Shared` are Booleans; a path is a sequence (in `Pfs` not empty); the names
in BootFS are different; a request of `Command` is any of the records the builder methods and
the builtins can make (any input, any list of overrides, any files). An
"inductive invariant" below is a conjunction of named parts; each proof has one lemma per
action and shows under it the parts the action can disturb.

### What is proved

| Property | Theorem | For |
|---|---|---|
| `Scheduler!TypeOK`, `RunningIsCurrent` | `TypeCorrect`, `CpuExclusive` (`SchedulerProofs`) | ticks anywhere |
| `ReadyHasContext`, `LiveStackMapped`, `AddressSpaceOwned`, `Cr3Follows`, `OnlyConsoleRevives` | `ReadyIsRunnable`, `StacksHeld`, `SpacesOwned`, `Cr3Holds`, `RevivedByConsole` (`SchedulerProofs`) | ticks anywhere |
| `NoLostWakeup` | `CooperativeWakeups` (`SchedulerProofs`) | `Preemptive = FALSE` |
| `NoDanglingSwitch`, `ReclaimsExitedOnly`, `ExitLeavesStatus`, and that the machine never halts | `SwitchesClean`, `ReclaimsDead`, `ExitsLeaveStatus`, `NeverHalts` (`SchedulerLife`) | `Preemptive = FALSE` |
| `LifecycleSpec`: `Scheduler` implements `ProcLife` | `TableImplementsProcLife` (`SchedulerLife`) | `Preemptive = FALSE` |
| `MappedIsTracked`, `GuardsUnmapped`, `DeadHoldsNothing` | `TrackedHolds`, `GuardsHold`, `DeadHolds` (`PageMemoryProofs`) | ticks anywhere |
| `PageMemory!TypeOK`, `NoPageTwice`, `NoLeak`, `TrackedIsMapped` | `TypesHold`, `OneOwner`, `NothingLost`, `AllMapped` (`PageMemoryProofs`) | `Preemptive = FALSE` |
| `Pfs!TypeOK`, `SizeCovered` | `Types`, `SizeIsCovered` (`PfsProofs`) | stale descriptors, any number of faults |
| `InDataArea`, `NamesUnique`, `NoOrphanFile` | `DataArea`, `Unique`, `Homes` (`PfsProofs`) | until the first fault |
| `FilesDisjoint` | `Disjoint` (`PfsProofs`) | up to one fault |
| `Paths!TypeOK`, `FileHasParent`, `WalkComplete` | `TypeCorrect`, `FilesHaveParents`, `WalksComplete` (`PathsProofs`) | any number of processes |
| the text of a cwd leads back to it (`CwdLeadsBack`, a conjunct of `ResolvesRight`) | `CwdText` (`PathsProofs`) | any number of processes |
| the override table is a function update and keeps one slot per key | `SetIsUpdate`, `SetKeepsUnique`, `SetKeepsType` (`EnvProofs`) | |
| listing the environment gives what looking it up does | `ListingAgrees` (`EnvProofs`) | unique keys |
| `Command!TypeOK`, `NoFdLeak`, `StdUsable`, `ChildSeesRequest`, `EnvConsistent` | `CommandTypes`, `NothingLeaks`, `StreamsUsable`, `ChildContext`, `EnvironmentsConsistent` (`CommandProofs`) | any nesting, rysh at any depth |
| `RestoredOnReturn` | `ContextRestored` (`CommandProofs`) | rysh at the top only (`Shells \subseteq {1}`) |
| `CaptureComplete` | `CapturesComplete` (`CommandCapture`) | rysh at the top only (`Shells \subseteq {1}`) |

`Preemptive = FALSE` is where TLC refutes the property with ticks (section 3): the theorem
says what the cooperative code achieves, the violation what the tick takes away.

### Along which argument

*One CPU* (`IInv`). `RunningIsCurrent` is not inductive: a Running slot stops being
current at a switch, so one must know that whoever switches has left Running before
(`YieldOK`, `CurrentOK`), that only a process inside a wait has a target (`TargetOK`), that
the console never stands in code of a process (`IdleOK`), and that a slot being prepared
belongs to exactly one preparer, cannot be claimed by another and cannot run without
faulting (`SlotOK`, `OwnOK`). `CellOK` keeps the loops over the reclaim queue inside it.

*Stacks and address spaces, ticks anywhere* (`MInv`: `IInv` with `PidsOK`, `PhaseOK`,
`PrepOK`, `SwitchOK`, `MemOK`, `WaitOK`, `AddressSpaceOwned` and `Cr3Follows`, which need
each other). The difficulty is the stale pick: a context that chose a slot, was preempted and
goes on with its choice. Only the console can hold one, because a process that yields is
no longer Running and the tick leaves it alone. When the console gets the CPU back, nobody
was Ready; so what it picked is Blocked, or dead and looping in `exit_and_yield`, or has
no stack any more and halts the machine. (`OnlyConsoleRevives` is this argument as a property.) A dead context that runs again does so only while
nobody is Ready, hence never beside a process whose memory it could free. A stack is
`Doomed` from the store into the queue until it is unmapped, in a cell or in the hands of a
context that was preempted between its read and its reclaim; only stacks of processes past
their `queue_stack_reclaim` are.

*Wakeups, no tick* (`CInv`). Every context but the current one stands at a yield or has
never run (`Suspended`), so nothing happens between the scan that found no zombie and the
block (`MissOK`); pids in the table have been handed out (`PidOK`) and nobody waits for
one that has not, nor for one still being prepared (`BlockOK`, `LoadOK`).

*The life of a pid, no tick* (`LInv`: `CInv` and `MInv` with `CalmOK`, `ChoiceOK`, `DeadOK`,
`SlotsOK`, `ParentOK`, `RunOK`, `AnyOK`, `CollectOK`, `StuckOK`).
`ExitLeavesStatus` is the surprising one. `run_program` stores `waited` to the slot it
remembers after its wait has ended (6177), and by then the slot may have another owner.
`StuckOK` says why that owner's status is not lost: the console runs only when nobody is
Ready, so all who live are then Blocked on each other, or on a pid that never exits
(`Stuck`), a set nobody can leave; the stranger never exits. `LifecycleSpec` follows step by
step: under `LInv` every action is a `ProcLife` step or a stutter.

*Windows, ticks anywhere* (`WInv`: the shape of the state and, per task, `EmptyOK`,
`HandOK`, `CallOK`, `BumpOK`, `ApartOK`, `ProgressOK`, `TrackedOK`, `GuardOK`). No part
mentions another task or asks that an entry be there, so neither the race in the allocator
nor the loss of a directory (`FewerInv`) can touch it: mappings lie apart
below the bump pointer, a page that is mapped is tracked, or in the hands of the call that
is mapping or unmapping it.

*Owners of pages, no tick inside a call* (`PInv`: `PageTypes`, `Accounting`, `AloneOK`,
`StackOK`, `Owned`, `SizeOK`, `LoadOK`). At most one task is inside a call (`AloneOK`); the
pages below the count of the free stack, those in page tables, windows and address spaces,
and the one in a task's hands are pairwise different and together with the dropped ones
all that was ever handed out (`Owned`).

*Complete mappings, no tick inside a call* (`FInv`: `PInv` with `FullOK`, `ClearOK`).
`TrackedIsMapped` says nothing while a call is under way; `FullOK` says what is missing then:
the part of the newest mapping not reached yet, or the mapping a failed call is about to
untrack. An unmap must not take away what stays tracked: `ClearOK`, the two lie apart.

*Extents*. `SectorsOf` and `Grown` are recursive functions. `Induct` derives induction for a
set of naturals from `Least`, the least-number principle; with the set of all n for which
a statement holds, it needs no operator parameter. So are shown: what the sectors of a list of
extents are (`SecRange`), that extents one behind the other have no sector twice
(`SecInjective`), that more and longer extents have more sectors (`LenMono`), that growth
keeps the old extents, adds exactly as many sectors as asked for, all of them free, and
stays behind the last one (`GrownKeeps`, `GrownOnDisk`, `GrownTidy`).

*The table* (`PfsInv`: `VarsOK`, `OpOK`, `DiskOK`, `TidyOK`, `TreeOK`). Every call's table
satisfies `TableOK` (each entry is cleared, or keeps its extents and adds free sectors, the
size covered by the old ones; at most one entry grows) and `NameEdit`. `SizeCovered` then
survives every torn entry, since a torn extent has the old or the new length and the old
lengths cover the new size. This rests on `OpOK`: between `EnsureCapacity` and
`UpdateSize` the entry is still the file that was enlarged, because no other call comes
between. `FilesDisjoint` with a fault needs `Tidy`: behind the count there are only zeros,
so a torn entry has no sector the new one has not (`TornEdit`). After a fault an entry need
not be tidy, which is why a second one breaks it. `NoOrphanFile` needs unique names, or
`pfs_find_entry` might stop at another entry than the directory (`ParentFacts`).

*Names and paths*. `NameLen`, `normalize_pfs_path` and `abi_list` are recursive functions
too. One pair of lemmas (`RunsExist`, and `Induct` for the values) shows that such a
recursion has a solution, for a step given as a function; from it: a name without its last
component is no longer (`FrontLen`), so `..` keeps the bound that pushing checks; whatever
resolves is a name that fits (`ResolveGood`); a list has each matching entry once
(`ListingContents`), because two names in one directory that end alike are the same name.

*The tree* (`PathsInv`). Uniqueness of names and `ParentsIn` (about files) are inductive once a cwd and the
path `create_dir_all` builds are known to be such that they resolve to proper names. An
unlink keeps `ParentsIn` since a parent is a strict prefix of its child
(`FrontIsPrefix`), which `pfs_dir_empty` looks for; so does a rename, whose directory is empty
and whose file's new parent is a directory that is not the file itself. That a cwd still exists is not needed,
and not true.

*Walks* (`WalksRight`, on top of `PathsInv`). As long as a walk is undisturbed, the directory
its path means is the one it began with, and what it has seen is the first `index` elements
of the list `abi_list` would give now.

*The environment*. `SetIsUpdate` needs unique keys, or an older duplicate could answer the
lookup; with them the slot a scan finds first is the only one (`HolderIsFirst`).

*Calls inside calls* (`Inv` of `CommandProofs`: the types and `Good`). The context a call
must give back has been changed by itself, inherited by a child, and perhaps changed by the
child's own calls, so each property is about all levels of the chain at once. `Good` says of every
process of the chain that its environment, cwd and streams are the caller's with what the
request asked for so far (`ProcGood`: `EnvPart`, `CwdPart`, `StdPart`), and of every link
that the child has inherited what its caller redirected (`LinkGood`: `Inherits`,
`EntriesGood`). `EnvPart` keeps the overrides and the remembered values in step: undoing the
rounds in reverse from wherever the loop stopped leads back to the variables at the
call, by induction over the rounds and `SetIsUpdate`; the slots needed are there, because
a key that was set has one and keeps it. `GoodTab` relates the two tables, and every descriptor
belongs to exactly one level: those open at the call of level d (`Below`) grow with
d, and what is open now is that and what the last call has opened. So a call that closes what
it opened gives the table of its caller back, and a saved stream, being below, is still
open when it is restored. The first process has the console, as nothing is open below it;
that is why a builtin's reset to the console is a restoration at the top, and only there:
the hypothesis on `Shells` is what the violation in section 3 requires.

*What a call captures* (`CapInv` of `CommandCapture`: `Inv` with `Cap`). `CallCap` accounts
for every byte of a call under way. While the child runs, an output pipe holds the first
`APP_PIPE_BUFFER_SIZE` bytes of the history and nobody has read from it; while the call reads,
what it has and what is left in the pipe are together those bytes, whatever the chunks; what
was taken from a stdin pipe and what is left are together what was put in (`PipeOK`). A
file created by this call and written through no other handle holds the history, and the
offset of its descriptor is at the end (`FileChan`); a deeper call that creates the same file
again becomes its owner, and a later one cannot be shallower. `SinkAt` says that a standard
descriptor of a process is the child's end of an entry of the very call whose history gets
the bytes, through any number of levels that pass it on. A write then changes the pipe or
file of one entry (`Passing`), and by the disjointness in `Inv` no other entry of any level
has it (`OthersStay`). That a short or empty read means the pipe is empty, so that
`read_all_available` stops neither early nor late, is `ReadDone`. `SinkAt` survives a return
only if the caller has its streams back, which is where `Shells \subseteq {1}` is needed.

The parts of the inductive invariants that TLC can evaluate were first checked by it at the
sizes of the runs; `MInv` also with two slots and five pids, `LInv` with two and three slots
and five pids, the parts of `PfsInv` also with two faults.

### Only model-checked

* Liveness (`SlotZeroRuns`) and what `FairSpec` implies: `ENABLED` is out of the prover's
  reach.
* `FileStoreSpec`: the contents of the files; the refinement mapping picks entries by
  `CHOOSE` and follows bytes through the sectors.
* `ResolvesRight` beyond `CwdLeadsBack`, and `MkdirsComplete`: both compare with `Meaning`,
  which counts components in stretches of a path instead of keeping a stack; the proof
  would need the theory of matching brackets.

## 5. Not modelled, and plan

Not modelled, with the reason:

* drawing, fonts, PCI and ATA port I/O, fault printing, command parsing: output or
  hardware only;
* the ELF loader's segment arithmetic, over a byte image: the scheduler keeps only
  whether a load succeeds;
* `BootFs` (read-only) and `RamFs` (a table only the console uses, one command at a time);
* the bootloader: straight-line firmware calls without a retry;
* the bump allocator of the runtime (never frees, one thread), number formatting;
* two processes inside one header update of `Pfs`, or inside one call on the descriptor
  tables: both are lost-update races like the one `pageRace` shows, and both need a second
  copy of the table per process, which leaves no room for the bounds the other properties
  need;
* host scripts; `vendor/moros` (third-party, not built in).

Worth proving next: the steps of `FileStoreSpec` that only touch the header.
