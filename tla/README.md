# ExoCore kernel: a TLA+ model

This directory models the ExoCore kernel (`src/kernel`, with the userland under
`src/run`, the MicroPython process tree under `src/mpymod/process` and the
garbage collector of the MicroPython runtime the kernel embeds) in TLA+, checks
the models with TLC on small instances, and proves what matters most with TLAPS
for every size of the tables.  Every definition is translated from the source;
`PROJECT.json` maps each one to its lines.

## 1. The system

ExoCore is a single-core x86-64 kernel.  There is no preemption and no
scheduler: a process is a flat program whose entry point the kernel *calls*, on
a stack that the process owns, from `proc_start_flat`.  A spawn therefore
returns when the child returns, and a system call (`int 0x80`) is an ordinary
call from the innermost program.  What is hard here is not parallelism but long
sequences of legal calls: handles that outlive what they name, tables that fill
up, failures half-way through a sequence of allocations, callers that are killed
while their callee runs.

### Parts

| part | source | state | what makes it correct |
|---|---|---|---|
| kernel heap | `kernel/mem.c` | bump pointers, committed end, swap buffer, free list, guards, statistics | blocks tile the memory handed out; free neighbours are merged; statistics balance; a second free is stopped; refusal only when full |
| memory contexts | `kernel/memctx.c` | 32 contexts, 128 block records shared by them | accounts match blocks; quota holds; destroying frees all of a context and nothing else; old ids stay dead |
| process table | `kernel/proc.c` | 16 entries, current pid, nested calls | the current pid is the running code's; memory of a suspended call is kept; orphans are adopted; no context leaks |
| process descriptors | `kernel/proc.c`, `kernel/syscall.c` | 16 descriptors per process over 32 open files | a descriptor names the file it was opened for; no open file is leaked |
| userland | `kernel/launchd.c`, `kernel/main.c`, `run/userland/launchd.c` | files in the VFS, pid 1, the configured daemons | pid 1 runs over complete files or not at all; every daemon is started and collected |
| virtual file system | `kernel/vfs.c` | 64 nodes, 32 open files, working directory | the nodes form a tree; sizes fit buffers; buffers are not leaked |
| FAT32 volume | `kernel/fs.c` | FAT, root directory, open files with cached first cluster and size | clusters have one owner; chains end; the root directory is never taken over |
| ELF loaders | `kernel/elf.c`, `kernel/main.c` | program headers, image | every copy lies in the file and in the image; the image is what the headers ask for |
| console | `kernel/console.c` | ring of lines, window, screen | the window shows the lines it should, and the screen the window |
| Python process tree | `mpymod/process/init.py` | process objects, registry, root | one tree; limits narrow downwards; termination is final |
| garbage collector | `micropython/py/gc.c` | mark bits, mark stack, allocation table and its two hints | exactly the unreachable is freed; no free block is overlooked, no used one out of reach |

### Interactions

`proc.c` creates one memory context per process and allocates file buffer, image
and stack in it; `memctx.c` allocates from `mem.c`; `vfs.c` keeps file contents
in blocks of `mem.c`; `proc.c` reads programs through `vfs.c` and passes them to
`elf.c`; `launchd.c` fills the VFS from the FAT32 volume or from embedded files
and starts pid 1; `syscall.c` forwards to all of them on behalf of
`current_pid`.

In the models these interactions appear as composition where the two sides
change each other's state (`Heap` uses `Mem`; `Launchd` extends `Proc` and drives
its actions; `ProcFiles` joins the descriptors of processes with the open-file
table; `MemCtx` shares its heap with other users) and as a nondeterministic
answer where one side only learns whether the other succeeded (a heap that may
refuse, a program that may not load).

## 2. Modules

| module | models | state and actions |
|---|---|---|
| `Mem` | `mem.c` as operators on a record | `MemAlloc` (free list, then growth, then swap), `MemFree` with merging and compaction |
| `Heap` | `mem.c` in use | `mem`, the ghost `live`; `Alloc`, `AllocOrPanic`, `Free`, `FreeAgain` |
| `Allocator` | what a heap promises | blocks that never overlap, move or shrink |
| `MemCtx` | `memctx.c` | `contexts`, `blocks`, `next_ctx_id`, the heap and its other users; one action per function |
| `Regions` | what contexts promise | sets of allocations released together; closed ids stay closed |
| `Proc` | `proc.c`, from the creation of pid 1 on | `procs`, `current_pid`, `ctxs`, `frames`; `Boot`, `Spawn`, `SpawnFails`, `Exit`, `Kill`, `Wait`, `Return` |
| `Lifecycle` | what a process table promises | fork, exit with adoption, collection by the parent |
| `Launchd` | `launchd_boot`, what `kernel_main` does after it, and launchd's own loop, over `Proc` | `vfs`, `stage`, `line`, `daemon`; copying each file, failing at each, `BootProcess`, `RunModules`, `StartDaemon`, `SkipDaemon`, `CollectDaemon`, and the calls of all other programs |
| `ProcFiles` | descriptors of `proc.c` over the open files of `vfs.c` | `fds`, `open_files`, `by_call`, history `aliased`; `proc_open`, `proc_close`, `proc_dup`, `proc_dup2`, exit, `SYS_VFS_OPEN`, `SYS_VFS_CLOSE` |
| `Handles` | what descriptors promise | a name keeps its file until its owner lets go |
| `Vfs` | `vfs.c` | `nodes`, `open_files`, `cwd_node`, buffer capacity on the heap; one action per function |
| `Fat` | `fs.c`, descriptor interface | `fat`, `dir`, `open_files`, history `shared`; one action per function |
| `Elf` | `elf.c` with words that wrap | headers, range, image; inspect a header, allocate, copy a segment |
| `InitElf` | the in-place loader of `init.elf` in `kernel_main` | copy the file, load a segment, clear the rest |
| `Console` | `console.c` | `ring`, `logs_visible`, `display_hold`, `screen`; one action per function |
| `Scrollback` | what the console promises | the last lines, the length of the one being written, and a window that follows or stays |
| `ProcessTree` | `mpymod/process/init.py` | `procs`, `registry`, `root`, `calls`, `now`, history `late`; one action per method |
| `GcMark` | one collection of `gc.c` | `marked`, `stack`, `overflow`, rescans, sweep |
| `GcTable` | the allocation table of `gc.c` | `kind`, `lastFree`, `lastUsed`; alloc, free, realloc, collect, lock |
| `MemCtxProofs`, `ProcProofs`, `ProcFilesProofs`, `ConsoleProofs`, `ElfProofs`, `GcProofs`, `GcTableProofs`, `LaunchdProofs` | theorems (section 4) | |

The `MC…` modules give constants their values and say what part of a state space
is explored.

Choices worth knowing when reading them:

- **Calls nest.**  `Proc` keeps the calls of `proc_start_flat` in progress as a
  sequence of frames, each with the `previous` that the C function holds in a
  local variable.  `Return` is everything after the call instruction.  Exiting
  ends a process in the table, not its frame.
- **Programs make any call.**  Only launchd's own code is modelled step by step.
  Daemons, what they start, a launchd that an image brings along and the boot
  modules make any system call of `Proc` in any order.
- **Failures are alternatives.**  A heap that refuses is a disjunct
  (`vfs_write`, `Boot`) or an action (`SpawnFails`, `CopyFails`); calls that
  change nothing are stuttering steps and are not written out.
- **Units.**  `Mem` counts 8-byte words and places swap directly below the heap,
  so that only the code's own region test keeps the two apart.  `Vfs` counts in
  units of the smallest buffer.  Contents of files are left out and lengths
  kept, except in the loaders, where byte *k* of the file is the number *k*.
- **Words.**  `Elf` computes modulo a constant `Word`; the instance has words of
  three bits, the theorem holds for every `Word`.
- **History variables** state what a guarantee depends on.  `Fat.shared` records
  the files written or truncated while another descriptor had them open;
  `ProcFiles.aliased` that a descriptor was duplicated or an open file closed
  past its owner; `ProcessTree.late` that a terminated process was used to spawn.
- **Names.**  `Vfs` looks names up in full and stores them truncated, as the code
  does; in the instance `"long"` stands for a name of more than 31 characters.
- **Mutants.**  A definition preceded by `\* Mutant:` is a faulty version of the
  one that follows it.  It is not part of any specification; replacing the real
  definition by it makes TLC report the property it is listed with.

## 3. Runs

All runs are exhaustive for their bounds and constraints.  Run them as
`tlc -config Heap.cfg MCHeap`, and so on; `gc_table` and `init_elf` need no `MC`
module.  Times are with two workers.

| run | config | distinct states | time | bounds |
|---|---|---|---|---|
| `heap` | `Heap.cfg` | 40,053 | 15 s | header 1 word, page 2, swap 4, heap 4 growing to 8; requests of 8, 12 and 24 bytes; one refusal |
| `memctx` | `MemCtx.cfg` | 58,463 | 32 s | 2 contexts, 3 block records, 4 addresses, sizes 0 to 2, quota none or 2, ids up to 4 |
| `userland` | `Launchd.cfg` | 10,959 | 15 s | 4 entries and contexts, pids up to 10, of which launchd keeps 3 to itself; 3 configuration lines, the second not loadable |
| `proc_files` | `ProcFiles.cfg` | 23,901 | 19 s | 2 processes, 3 open files; see `MCProcFiles` |
| `vfs` | `Vfs.cfg` | 32,836 | 72 s | 4 nodes, 2 descriptors, 7 paths, writes of 1 and 2 units, seeks by -1 and 1, offsets up to 3 |
| `fat` | `Fat.cfg` | 129,209 | 96 s | root and 3 data clusters of 2 bytes, 2 files, 2 descriptors, positions up to 5 |
| `process_tree` | `ProcessTree.cfg` | 119,241 | 106 s | 3 processes, clock up to 2, two nested runs |
| `console` | `Console.cfg` | 148,437 | 40 s | ring of 4 lines of 3 columns, window of 2 rows, 5 lines lost |
| `elf` | `Elf.cfg` | 83,864 | 23 s | words of 3 bits, file of 2 bytes, 2 headers |
| `gc_mark` | `GcMark.cfg` | 331,908 | 48 s | every heap of `MCGcMark`: 5 objects, mark stack of 1 |
| `gc_table` | `GcTable.cfg` | 2,066 | 9 s | 6 blocks in 3 bytes of the table, requests up to 4 blocks |
| `init_elf` | `InitElf.cfg` | - | 2 s | memory of 5 bytes, file of 3: reports a violation |

What they show:

- `heap`: allocated and free blocks tile the memory handed out, no two free
  neighbours of one region remain, no block crosses regions and growth commits
  no page too many (`LayoutSound`); the figures of `mem_get_info` balance and the
  guard is active exactly on live blocks, so that a second free panics until the
  words are reused (`RecordsAgree`); a refusal means nothing could have served
  the request (`RefusedOnlyWhenFull`); the whole is an `Allocator`
  (`ImplementsAllocator`).  Growth by two pages, an exact fit, a split, a
  remainder too small to split, and swap use all occur.
- `memctx`: no block leaks or is freed for another holder (`NothingLeaks`);
  counters equal what the table holds and the peak respects the quota
  (`AccountsSound`); a stale id never reaches a later context
  (`ImplementsRegions`).  Both tables fill up and slots are reused.
- `userland`: `current_pid` is the running code's process or nobody
  (`CurrentIsInnermost`); `proc_wait` never frees the image or stack of a call
  in progress (`FramesKeepMemory`); every process has a live parent
  (`ParentsAlive`); contexts and entries match after any failed spawn
  (`ContextsMatch`); no live process is left without a call (`NoneForgotten`); an
  exited process stays so until its parent collects it (`ExitIsFinal`); the table
  implements `Lifecycle` (`ImplementsLifecycle`).  Process 1 is started only when
  all three files are whole (`OnlyWholeRuns`), nothing its daemons do takes the
  processor or the daemon it waits for away from it (`LaunchdInControl`), and every
  daemon that loads is started and collected although what daemons leave behind
  fills the table (`DaemonsServed`).
- `proc_files`: the process table leaks no open file, whatever is duplicated and
  whoever exits (`SlotsAccounted`), and until somebody duplicates a descriptor, or
  closes through `SYS_VFS_CLOSE` an open file it was not given by `SYS_VFS_OPEN`,
  descriptors are `Handles` (`ImplementsHandles`).  An open file counts no users, so
  that after `proc_dup` and a `proc_close` the other number may come to name
  another file; this is what the condition excludes.
- `vfs`: nodes hang in existing directories, the working directory exists, and two
  siblings share a stored name only by truncation (`TreeSound`); a node becomes
  unreachable only when a directory is moved into itself or into one already lost
  that way, which `vfs_rename` does not refuse (`OnlyLoopsDetach`); sizes fit
  buffers and buffers are neither leaked nor freed twice, with unlinked files still
  open, slots reused, and writes that fail to grow (`FilesSound`).
- `fat`: while no file is changed behind another descriptor, clusters have one
  owner, copies are fresh and sizes are backed, on a full volume too
  (`VolumeSound`).  With stale copies in play, chains may cross and a file may lose
  clusters, but chains end and the root directory is kept (`DamageContained`).
- `process_tree`: parent and children tables agree and the live processes are one
  tree unless a terminated process was used to spawn (`TreeSound`); limits only
  narrow from parent to child (`PermissionsInherited`); deadlines follow limits that
  change during a run (`DeadlinesFollow`); termination is final
  (`TerminationIsFinal`).
- `console`: head, count, current line and window agree when the ring wraps
  (`RingConsistent`); what is shown is what the ring holds, after hiding and holding
  too (`ScreenCurrent`); a window at the end follows, and one scrolled back keeps its
  lines while the ring turns under it (`ImplementsScrollback`).  Three columns are the
  fewest with which a character can be erased in mid-line, after a carriage return: the
  code then forgets the rest of the line, and the next newline blanks it.
- `elf`: no header makes a copy leave the file or the image (`CopiesStayInside`), and
  the image of a file with disjoint segments is what its headers ask for
  (`ImageAsAsked`).
- `gc_mark`: a collection frees exactly what the roots do not reach
  (`CollectsGarbage`) and ends (`CollectionEnds`), with a mark stack so small that
  rescans overflow it again.
- `gc_table`: no free block lies before the start of the search
  (`NoneFreeBefore`), and every used block lies within the sweep's reach and belongs
  to an object (`UsedWithinSweep`).
- `init_elf`: `SegmentsLoaded`, what the comment at `kernel/main.c:480` says, is
  violated (section 6).

**Constraints.**  `vfs`, `fat` and `process_tree` each look at one instance from
several sides: the constraint is a disjunction, and a state that satisfies none of
its disjuncts is checked but not continued.  In `vfs` the sides are trees without
traffic and one file under full traffic; in `fat`, a volume on which no file was
changed behind another descriptor, with transfers inside clusters, and one on which
anything happened, with whole clusters of files that have two between them; in
`process_tree`, three processes with library sets, two with every other limit, and
three (two nested runs for two of them) with limits on time.  What the sides leave
out is the combination of dimensions, say library sets changed during a nested
run.  `fat` uses the view
that keeps, of `shared`, only whether it is empty: neither the steps nor the
properties depend on more.  Symmetry is used in `memctx` (addresses) and `fat`
(names), which carry no order, and where no liveness is checked.

**Bounds.**  They are small because the interactions are: a fault in merging needs
three blocks, one in adoption a grandchild, one in stale copies two descriptors, a
second overflow of the mark stack five objects.  `MaxPid`, `MaxId`, `MaxOffset`,
`MaxPos`, `MaxNow`, `MaxDepth`, `MaxFails`, `MaxLost`, `MaxAsk`, `PhMax` and
`Spare` cap what the code leaves unbounded.

**Deadlock** is not checked in `heap` and `userland`, where a panic or a halt stops
the machine, launchd sleeps for ever, and a bound may be reached, nor in `elf`,
`init_elf` and `gc_mark`, which are single passes that end.

**Fairness.**  `userland` assumes weak fairness of the kernel's steps and of
launchd's: one processor runs the innermost code and nothing takes it away.  That
programs return (`ProgramReturns`) is an assumption about the daemons, which the
kernel cannot enforce; `shelld` returns when its user types `exit`.  `gc_mark`
assumes weak fairness of the collector, which runs to its end on the same
processor.  No other property depends on fairness.

## 4. Proofs

Proved by TLAPS, for every value of the constants that satisfies the named
assumptions:

| module | theorem | statement |
|---|---|---|
| `MemCtxProofs` | `MemCtxInvariant` | `Spec => []IInv` |
| | `HeapAccounted` | `Spec => []NothingLeaks` |
| | `RegionsImplemented` | `Spec => ImplementsRegions` |
| `ProcProofs` | `Invariant` | `Spec => []IInv` |
| | `TypeCorrect` | `Spec => []TypeOK` |
| | `CurrentCorrect` | `Spec => []CurrentIsInnermost` |
| | `SuspendedMemorySafe` | `Spec => []FramesKeepMemory` |
| | `OrphansAdopted` | `Spec => []ParentsAlive` |
| | `ContextsCorrect` | `Spec => []ContextsMatch` |
| | `NobodyForgotten` | `Spec => []NoneForgotten` |
| | `LifecycleRefined` | `Spec => ImplementsLifecycle` |
| | `ExitsAreFinal` | `Spec => ExitIsFinal` |
| `ProcFilesProofs` | `NoSlotLost` | `Spec => []SlotsAccounted` |
| | `DescriptorsRefine` | `Spec => ImplementsHandles` |
| `ConsoleProofs` | `RingStaysConsistent` | `Spec => []RingConsistent` |
| | `ScreenStaysCurrent` | `Spec => []ScreenCurrent` |
| | `ScrollbackImplemented` | `Spec => ImplementsScrollback` |
| `ElfProofs` | `CopiesSafe` | `Spec => []CopiesStayInside` |
| | `ImageLoaded` | `Spec => []ImageAsAsked` |
| `LaunchdProofs` | `UserlandComplete` | `LaunchdSpec => []OnlyWholeRuns` |
| | `LaunchdKeepsControl` | `LaunchdSpec => []LaunchdInControl` |
| | `TableSoundUnderLaunchd` | `LaunchdSpec => [](CurrentIsInnermost /\ FramesKeepMemory /\ ParentsAlive /\ ContextsMatch /\ NoneForgotten)` |
| | `BootedLifecycle` | `LaunchdSpec => ImplementsLifecycle` |
| | `BootedExitsFinal` | `LaunchdSpec => ExitIsFinal` |
| `GcProofs` | `CollectionExact` | `Spec => []CollectsGarbage` |
| `GcTableProofs` | `SearchMissesNothing` | `Spec => []NoneFreeBefore` |
| | `SweepReachesAll` | `Spec => []UsedWithinSweep` |

The theorems of `ProcProofs` are about the `Spec` of `Proc`, in which programs make any
call from the boot on; those of `LaunchdProofs` carry them over to the machine as it
boots, which is what the run `userland` checks.

**Memory contexts** (`MemCtxAssumption`).  `NothingLeaks` is not inductive:
`memctx_free` clears the first record it finds, so records must have different
addresses (`RecordsApart`), and `memctx_destroy` frees the records that carry its id,
so every record must belong to an active context (`OwnersActive`) and no two active
contexts may share an id (`IdsApart`), which a new one never does because all ids in
use lie below the next (`IdsGiven`).  From the same facts every call is a step of
`Regions`: open, take, give or close; what the rest of the kernel does is a stutter.
The sums in `AccountsSound` are folds over sets and stay with TLC.

**Process table** (`ProcAssumption`: at least as many contexts as table entries; the
build has 32 and 16).  None of the invariants is inductive alone.  That `Wait`
keeps the memory of suspended calls needs that a suspended process is not the
caller's exited child.  That follows from `CallsNest` (a call's process is a child
of the caller below it, or of process 1) and from `CurrentIsInnermost` (only the
innermost process makes calls), which needs in turn that suspended processes are
still in the table.  `IInv` joins the invariants of the run with `CallsNest` and
with `Counters` (context numbers in use lie below the next one), which makes a new
context fresh.  There is one lemma per action; `ReturnFacts` collects what the end
of `proc_start_flat` does.  The refinement adds only that nothing panics before
process 1 exists (`Early`), maps each action to fork, exit, collection or a stutter,
and rests on the numbers of processes being used once (`NumberUsed`).

**Booting** (`LaunchdAssumption`, `ProcAssumption`).  Every step of the machine is a step
of the process table, a stutter of it, or the panic of a kernel that has nothing to run,
so the table's invariant carries over.  `LInv` adds `BootInv` (there is no process before
all files are whole, and no code runs before there is a process) and `ControlInv`: launchd
is the outermost call, and the daemon on record is its child.  That a program inside
launchd's call cannot collect that daemon or make process 1 exit follows from the table:
calls nest, so whoever is current inside is not process 1 (`NestedCall`).  When the calls
inside have returned, nobody but process 1 has a call, so by `NoneForgotten` the daemon
has exited and the wait succeeds (`LaunchdAlone`).

**Descriptors** (`FilesAssumption`).  `IInv` is the type invariant with the
accounting of open slots.  The refinement needs, until `aliased` is set, that two
numbers never name one slot, that none names a slot handed out by `SYS_VFS_OPEN`, and
that a process that has exited holds none (`Apart`): only then does closing one leave
the others alone.

**Console** (`ConsoleAssumption`: the window fits the ring).  The invariant
`Ring(ring)` is stated of a record, so that lemmas about the operators (`newline`,
`erase_prev_char`, `Typed`, `Followed`) compose the way the code composes them; the
modular arithmetic of the ring is isolated in lemmas of its own.  `ScreenCurrent` is
inductive together with the position of the cursor (`Writable`).  For the refinement the
text is the ring read from its head (`Text`): a newline in a full ring turns the sequence
by one line (`NewlineText`), and every other call changes its last line only
(`LastWritten`).

**ELF loader** (`ElfAssumption`: header fields are words).  `IInv` says that accepted
headers lie, added without wrapping, inside the file and the range, and that the
block is as long as the range.  The step from the carry checks to the unwrapped sums
is the heart of it.  For the image, `ImageInv` says what the block holds when the headers
before `i` have been copied (`CopiedBefore`): their bytes, and zero where none has any; the
copy of one more segment disturbs no earlier one because segments are disjoint.

**Marking** (`GcMarkAssumption`).  `IInv` is a tri-colour invariant: a marked object
with an unmarked child is the current one, on the stack, ahead of the rescan, or the
overflow is on record (`NoneLost`); what is marked is reachable
(`MarkedNeeded`); roots already looked at are marked.  At the sweep nothing is left to
look at, so the marked objects are closed under pointers and contain the roots.

**Allocation table** (`GcTableAssumption`).  `Full(kind, lastFree)`, that every block
before the hint is used, is inductive over the operators that move the hint.  The
search for the lowest run rests on the least element of a set of naturals (`NatMin`).
For the sweep, `SInv` says that every tail follows a used block and that every used
block lies at or below the last one on record (`Covered`).  A growing object is the
hard case: its chain of tails ends inside the heap (`ChainEnd`), so `gc_realloc`
raises the record to the last block it adds.

Only model-checked: `heap`, `vfs`, `fat` and `process_tree` as a whole; `AccountsSound`;
and the liveness properties `DaemonsServed` and `CollectionEnds`.  Liveness under fairness, `ENABLED` and induction over data are out
of the prover's reach, and so are modules with recursive operators
(`ProcessTree`).

## 5. Not modelled

The repository has about 530,000 lines, of which all but some 10,500 are the vendored
MicroPython distribution: interpreter, ports, drivers, examples and tests, of which
the kernel builds a small part.  Of the 10,500, some 2,900 are `embedded_userland.c`,
generated data.  The models stand for about 2,800 lines: most of the code of the kernel
that keeps state, and the collector of the interpreter.
The rest is a language implementation with its own test suite, and output.

- Contents of files, memory and the screen beyond what section 2 says; names beyond
  equality and truncation.
- Machine arithmetic at the width of the word outside `Elf`: sizes near 2^64 in
  `mem_alloc` and `ensure_capacity`, positions beyond 2^32 and the overflow of pids and context ids are
  out of the instances' range.
- A second initialisation (`proc_init`, `vfs_init`) as the self-tests do it.
- `fat32_parse`'s checks: `Fat` assumes a volume it accepts whose FAT covers its
  clusters, and starts from an empty one.  The raw byte interface of `fs.c`, and with it
  the debug log, which writes to byte 0 of the mounted volume.
- What the code lets a stale name do.  `FilesSound` says that a descriptor whose file was
  unlinked neither leaks nor frees a buffer, not which file it reaches when its slot is
  used again; `ImplementsHandles` stops at `aliased`, and the slots of `SYS_VFS_OPEN` are
  set apart (`by_call`) and need never be given back; `ScreenCurrent` is about what is
  drawn, not about where the window has drifted.
- `vfs_getdents` on a directory that changes between two reads: it is an action, but no
  property says what a reader may rely on, and no document does.
- Application memory and VRAM locks of `mem.c`: slots that hand out heap blocks and never
  take them back, and counters that are only raised, at initialisation.
- Key decoding of `console_getc`, colours, serial output; relocations of `init.elf`.
- Finalisers, several heap areas and threads of the collector, which this build
  switches off.
- The other components marked `not_modelled` in `PROJECT.json`, each with its reason.

## 6. Where documents and code differ

`init_elf` (finding `SegmentsLoaded`): `kernel_main` copies `init.elf` in place, loads
each segment, and then clears from the end of the *file* to the end of the image.  A data
segment that lies further up in memory than the file is long is cleared after it was
loaded; the comment at `kernel/main.c:480` says "Load each PT_LOAD segment and zero BSS".

Four more statements of `RELEASE_NOTES.md` are wider than what the models of the code
do.  They have no run of their own, since the properties above are stated with the
condition under which they hold:

- line 142, "failed writes abort boot": `launchd_boot` returns -1, and `kernel_main` goes on
  to the boot modules (`GivenUp`, `RunModules`).
- line 348, "Cleaned up partially allocated process images and file buffers on failed
  executable loads": `proc_spawn_exec` does (`AbandonedContext`); `launchd_boot` leaves
  process 1 in the table with its buffer (`Boot`).
- line 150, "process-owned file descriptors": not after `proc_dup` (`aliased`).
- line 75, "console tail-following": text written while the logs are hidden moves the
  window away from the tail, and it stays behind when they are shown again
  (`Followed`).

## 7. Plan

1. Theorems: the quota of `MemCtx`; `FilesSound` of `Vfs`; `DamageContained` of `Fat`;
   `LayoutSound` of `Heap`.
2. The raw interface of `fs.c` with the debug log on top; application memory over `Mem`.
3. Bounded-width rounding in `mem_alloc` and `ensure_capacity`.
4. Native modules at one load address and MicroPython runtime activation; the shell's
   history ring.
