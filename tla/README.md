# A verification project for the FOS kernel

The repository is a teaching kernel for the x86, in two trees. The files at its
root (`kheap.c`, `uheap.c`, `sched.c`, `trap.c`, `memory_manager.c`) are the
newer kernel: a kernel heap, a user heap, a scheduler and demand paging with
working sets. The directory `kern/` is an older laboratory version: paging with
reference counts, a console, a command prompt, system calls. The headers under
`inc/` are in neither tree; what is known of them is what the code uses.

The kernel runs on one processor with interrupts off, and a trap handler or a
command runs to its end. So the unit of interleaving is the kernel entry, and
each operation is one action. What is hard is not two threads in one function
but long sequences of calls over shared state: a rover, a clock hand, a level
index, lists that an entry must be in exactly once, and calls that stop half
way in a panic. A panic is not the end of the machine: it goes to the kernel
prompt, whose commands use the same state again.

## Inventory

| Part | State | Operations | What makes it correct |
|---|---|---|---|
| Kernel heap (`kheap.c`) | page array (free, first page of block), rover, page table entries, strategy | `kmalloc`, `kfree`, `kheap_virtual_address`, `kheap_physical_address` | blocks do not overlap and can be freed whole, no frame is lost, live blocks stay put, null only when full |
| Frames and page tables (`memory_manager.c`) | free frame list, directories, tables, reference counts | `allocate_frame`, `free_frame`, `map_frame`, `unmap_frame`, `create_page_table` | a frame is free, or mapped once; a table is there as long as a page needs it |
| Scheduler (`sched.c`) | NEW, READY and EXIT queues, `curenv`, method, level index | `sched_new_env`, `sched_run_env`, `sched_run_all`, `sched_exit_env`, `sched_kill_env`, ..., clock interrupt | an environment is in one place, the one its status says; the running one is RUNNABLE; nothing ready waits for ever |
| Page faults (`trap.c`) | working sets, `page_last_WS_index`, clock hand, algorithm | table fault, page fault, modified clock, placement, replacement | the working set is the memory in use; no write is lost; a victim is always found |
| Kernel side of the user heap (`memory_manager.c`) | page file, working set, tables | `allocateMem`, `freeMem` | blocks are given back whole; the working set stays exact |
| User heap (`uheap.c`) | page array with sizes, rover | `malloc`, `free` | as for the kernel heap, and array and page file agree |
| Laboratory paging (`kern/memory_manager.c`, `syscall.c`, `command_prompt.c`) | frames with reference counts, directories, tables | `sys_allocate_page`, the commands `cvp`, `dvp`, `cpf`, `srp`, `fpa`, `fv`, the opening test | of frames with sound counts none in use is free and counts follow uses; shared pages translate alike |
| Start-up (`initialize_kernel_VM`, `initialize_paging` of both trees, `kern/helpers.c`) | memory taken so far, directory, tables, frame list | a fixed order of steps | nothing overlaps, the kernel finds itself when paging goes on, the frame list is what is left |
| Console (`kern/console.c`) | ring buffer, cursor, shift state, screen | receive, `cons_getc`, `cons_putc` | order is kept, no modifier sticks, the screen is the end of what was printed |
| Debug information (`kern/kdebug.c`) | none | two binary searches of the stabs | finds file, function and name of an address |
| Environments, printing, clock chip, traps of `kern/` | none worth a model | | |

How they interact. A page fault takes a frame from the list the kernel heap
takes its frames from, and a page table is a page of the kernel heap. `malloc`
calls `allocateMem` through a system call, `free` calls `freeMem`, which changes
the working set of the caller under the replacement's indices. The clock
interrupt calls the scheduler, and under LRU clears used bits before it.
`get_page_table` finds a table through `kheap_virtual_address`. In the older tree
the system call and the prompt's commands work on the same frames and counts,
and both trees hand the rest of memory to the frame list at the end of start-up.

## Modules

| Module | What it is |
|---|---|
| `Placement` | next fit and best fit as functions of the set of free pages |
| `PlacementScan` | the loops that compute them, a page per step |
| `AbsHeap` | what a heap promises: who owns a page, and what a call may do to that |
| `KHeap` | the kernel heap; implements `AbsHeap` |
| `UHeap` | the user heap over `Placement`, with the process's pages in the page file; implements `AbsHeap` |
| `Scheduler` | `sched.c` |
| `ModifiedClock` | the victim of the modified clock as a function of hand and bits |
| `ClockScan` | the passes that compute it, a slot per step |
| `AbsMemory` | what virtual memory promises: one content per page |
| `WorkingSet` | page faults, working sets, `allocateMem` and `freeMem`; implements `AbsMemory` |
| `KernelTables` | page tables as pages of the kernel heap: composes the tables of `memory_manager.c` with `KHeap` |
| `Boot` | start-up of both trees |
| `LabPaging` | frames, counts and mappings of the older tree, under its system call, its commands and the test that runs before them |
| `Console` | ring buffer, keyboard and screen |
| `Stabs` | the search of the symbol table |
| `PlacementProofs`, `SearchProofs`, `KHeapProofs`, `UHeapProofs`, `WorkingSetProofs`, `SchedulerProofs`, `MachineProofs`, `LabPagingProofs` | the theorems; `MachineProofs` has those of `Console` and `Boot` |
| `MCKHeap`, `MCWorkingSet`, `MCKernelTables`, `MCLabPaging`, `MCStabs` | small instances for TLC; the other modules are their own |

Definitions marked "Fault" are deliberate mistakes. No behaviour uses them: each
replaces the definition that follows it in a run of its own, to show that the
property named for it in `PROJECT.json` would notice.

### Kernel heap

Addresses are counted in pages, because `kmalloc` rounds every size up first.
`empty` and `startAddress` are the two fields of the page array,
`lastAllocatedKHpage` the rover; the page array is in its boot state, all zeroes,
until the first `kmalloc`. One `kmalloc` is one of three actions: it fails, it
returns, or `allocate_frame` panics with some pages mapped, the rover unmoved and
the address lost. `kfree` walks a block from the address it is given, so that
one of a free page or of an address inside a block frees nothing. Which frame
the free list yields is left open: user pages use the list too, and
`AllocateFrame` and `FreeFrame` stand for them.

`Placement` states the searches declaratively, the lowest window or the first of
the smallest holes, with the test in the last line of `bestFit` as it is
written. `PlacementScan` runs the real loops on every heap of six pages, not
only on reachable ones, and compares.

### User heap

`uheap.c` has the searches of `kheap.c` once more, so `UHeap` uses `Placement`.
What differs is the rest: a page keeps the size of its block, `free` believes
the size of the page it is given, and memory is granted by `allocateMem`, which
puts the pages into the page file one by one and panics when that is full. A
panic leaves the pages it added behind and the array knows nothing of them.
Other processes take and give back page file space between two calls. `caller`
tells a program that frees only addresses it was given from one that frees any
page: both keep array and page file in step, only the first keeps blocks whole.

Best fit of size 0 returns the address of a hole, so that a caller gets an
address it does not own; and `allocateMem` then tests a result that was never
assigned, so the call may also panic. Under first and worst fit `start` is not
assigned in `malloc`; these strategies are left out, as is a `free` that would
run past the end of the array.

### Scheduler

A queue is a sequence with the newest element first; `dequeue` takes the last.
`fos_scheduler` is an operator of the ready queues, the current environment and
the statuses its caller leaves behind, since every caller ends in it. It puts the
current environment back, takes the oldest of the first queue that has one, and
goes to the prompt when there is none. Exit and kill have one action per place
the environment is found in. `sched_exit_env` of a NEW environment loses it, as
the code does: its status becomes UNKNOWN and it is in no queue.

`env_run` and `start_env_free` are not in the repository; the first is taken to
set RUNNABLE and the second to free the structure. `inc/queue.h` is not there
either. Three functions remove elements from the queue they walk, which works
only if `LIST_FOREACH` fetches the next element before the body; this is
assumed. `sched_insert_ready` and `sched_remove_ready` are called from outside
for blocking and waking. The method changes only at the prompt of a stopped
scheduler.

### Working sets

`proc[e]` holds one environment's slots, `page_last_WS_index`, pages in memory
with their bits, pages in the page file and page tables; the frames, the clock
hand and the algorithm are shared. Pages carry a content, so that a lost write
shows as a wrong content. An access sets the bits as the processor does. A
fault is the whole handler: a table fault takes a frame for the table; a page
fault places the page in the slot `page_last_WS_index` names, or takes out the
victim of `ModifiedClock` first, or, with the hand beyond the working set,
never returns, or, with another algorithm, uses an index nobody assigned (any
slot, or one outside). Each ending in a panic is a value of `machine`: out of
frames, out of page file, access to a page that does not exist, failed
assertion. `freeMem` removes pages from the file, moves the remaining entries to
the front of the working set and gives back the tables that became empty.

The page file (`kern/file_manager`), the processor and `env_create` are external.
A page table costs one frame; that `create_page_table` does not test for a full
kernel heap, and that `get_page_table` may miss a table above the rover, is
what `KernelTables` is about. `allocateMem` is asked only
for pages that are in no block, as `uheap.c` does. Time stamps are not kept:
nothing reads them. Page buffering ends in a panic in this code and is left out.

### Kernel page tables

In `KernelTables` a page table is a page of the kernel heap: `create_page_table` takes
it with `kmalloc`, `get_page_table` finds it through `kheap_virtual_address` of the
frame in the directory, and `freeMem` gives it back with `kfree`. The module
extends `KHeap` and makes its `kmalloc` and `kfree` part of its own actions, and
the rest of the kernel takes and frees blocks of any size next to the tables. `row` is what each frame holds, read as a page
table, garbage at first; `seen` is what the kernel believes is mapped,
`blocks` and `abandoned` are the heap's other blocks. The processor goes from
directory to table by frames and does not use the heap: `Walk`.

The search of `kheap_virtual_address` ends at the rover. Where a table above
it is needed, the kernel works on address 0. What that does is not followed:
the machine stops, as it does when `create_page_table` uses the 0 of a `kmalloc` that
failed. The exception is `unmap_frame`, which does nothing; the page
stays mapped, and `missed` remembers that it happened. `StopsOnlyForTables` says that
these are all the cases. One step of `freeMem` frees pages of one table.
`map_frame` creates a table too, but a page fault comes after the table fault,
so this branch is never taken. Permission bits are left out, as are
`frames_storage`, which nothing calls, and `loadtime_map_frame`, which only
`env_create` would.

### Start-up

`Boot` runs the steps of `initialize_kernel_VM`, `turn_on_paging` and
`initialize_paging` in the order of each tree: `kern/` ("lab"), the newer one with
the kernel heap ("fos") and without it ("fos_flat"). Physical memory is counted in
units smaller than a page, so that the kernel's image, the arrays and the
memory end anywhere in a page; virtual addresses are pages, and a page table is
an array of a few entries whose old content is garbage, because
`boot_get_page_table` does not clear it. `check_va2pa` is both the kernel's own
check and the model's translation. The newer tree's `kern/helpers.c` is not in
the repository; it is taken to be the one that is, except that its check is
not assumed.

Memory is large enough for the boot: `boot_allocate_space` has no test although
both trees say it should panic. Without extended memory `detect_memory` counts
no frame at all (`helpers.c:63`), so that case is left out too. Two facts found on
the way: the zero and the temporary page are cleared for 1024 bytes of 4096
(`memory_manager.c:352`), and `kern/`'s `boot_allocate_space` ignores its
alignment.

### Laboratory paging

`entry` and `table` are the page table and directory entries of the kernel's
directory, in whose user part the commands work, and of the current
environment, which is external: `env_create` of this tree panics.
`map_frame` is one operator that every caller uses, with the page table it may
create and the mapping it replaces. `sys_allocate_page` has an action per
result: it succeeds; there is no frame; the address is refused after the frame was
taken, which is not given back; there is no frame for the table, and the count
of the frame, still 0, is decremented and wraps. `dvp` clears PRESENT only, so a
later mapping over it leaves the hidden frame's count too high.

Not every mapping is counted. The boot maps every frame once at `KERNEL_BASE`
without a count; `cpf` and `srp` write entries without one; and `cvp` takes any
frame, a free one too: `kern/tests.c:221` connects a page to frame 1, which
`initialize_paging` has put on the free list. The next allocation of such a frame
clears its count while it is mapped, and a mapping over an entry that was not
counted takes away a count that belongs to another use. So a free frame can be in
use in this kernel. What can be said is whose count is harmed: `damaged` has the
frames to which one of these things, or a `sys_allocate_page` that fails for want of a
page table, has happened, and `counted` the entries `map_frame` has counted. The
properties say that the harm stays there: the counts of all other frames are
sound, whatever the commands do. A frame given back twice makes the free list
lead nowhere, and one given back while it is a page table is lost with its
contents: there (`broken`) the model ends.

`ClearUserSpace` is what the test does once, between its commands and before the
first typed one and the first system call: the page tables are forgotten, and
their frames and all they map keep their counts. `srp` is a recursive function of its turns
(`Turns`); a turn looks for the source's page table, then creates the target's,
and faults without both, with what it has created and copied left in place.
Made writable, an empty entry becomes a nonzero entry of frame 0.

Left out: the contents of frames, and so what a new page table or a use of
a reconnected page overwrites; what `srp` and `cpf` do through a null pointer if page 0
is mapped; `fv`, which only reads.

### Console

The kernel of this tree never calls `kbd_intr` or `serial_intr` from an interrupt:
`cons_getc` polls both devices until they are dry, so a step is one byte
received, the end of one device, or the character taken. `unread` records what
came in and `held` which keys are down, to state what the buffer and the flags
should say. A key has its scan code, an extended one after an E0; all codes the
modelled keys send go through the tables. `paper` is what was printed, without
end, and the screen a window on it. The three devices share the ring buffer
only, so a behaviour uses one.

A release clears the flag of its kind although the other key of the kind may be down,
and a repeated caps lock toggles. With `CONSBUFSIZE` characters waiting
`cons_getc` returns 0, which `console.c:390` says means "none waiting"; they are all lost.

### Debug information

`Stabs` runs `debuginfo_eip` a turn of a search loop at a time, over a table of two
files as a linker lays it out. The searches are generic in type and region as
in the code. Two things do not agree with the comment of the search
(`kdebug.c:40-43`). `addr++` adds 4 to a `uint32*`, so at the first byte of a
function or a file that has another within 4 bytes the search may overshoot to
that one, and on along a chain of them (`Overshot`); the tables have functions 2,
3 and 4 bytes apart and files of 3 bytes. And an address before the first function of
its file is given the file's entry as its function. `InfoIsFound` allows just
these two. A user program's table is left out.

## Runs

| Run | Shows | Instance |
|---|---|---|
| `placement_scan` | the loops find the block `Placement` defines, and end | all heaps of 6 pages, rovers 0..6, sizes 0..7 |
| `kheap` | whole blocks, frames accounted for, translations, live blocks undisturbed, `AbsHeap` implemented | 5 pages, 4 frames |
| `scheduler` | one place per environment, what `trap` asserts, no ready environment behind a stopped scheduler, life in order, demotion by one level, no starvation under round robin | 3 environments, RR, MLFQ with 2 and 3 levels |
| `clock_scan` | the passes find the victim that is first in the code's order of used and modified bits; they end exactly if the hand is in range | 4 slots, hands 0..6, all bits |
| `working_set` | exact working sets with a free next slot, memory backed by the file, `AbsMemory` implemented | 2 processes of 3 pages in 2 tables, 2 and 1 slots, 5 frames, page file of 3 |
| `working_set_any_algorithm` | no frame lost, up to and including a panic or a hang | 2 processes of 3 pages, 3 and 1 slots, modified clock and LRU |
| `kernel_tables` | the processor finds what the kernel mapped; tables, blocks and pages stay apart; no heap page is forgotten; the cases in which the machine stops | 2 tables of 2 pages, heap of 3 pages, 5 frames |
| `boot` | no overlap, the kernel's own check passes, the kernel and its users find the kernel's memory, the frame list is the rest | 3 trees, tables of 8 entries, pages of 4 units, 4 images, 4 memories |
| `uheap` | array and page file agree, whole blocks, `AbsHeap` implemented | 4 pages, page file of 5 shared with others, careful and careless callers |
| `lab_paging` | of frames that are not damaged none is free and in use, counts follow uses, and frames are lost in the named cases only; `srp` makes the pages asked for translate alike and changes no other but one | 3 frames, 4 pages across the end of a boot page table, 1 page of the environment, `srp` of 0 and 2 MB (a table has 4 MB in 4 pages), 3 commands, the clearing and any system calls |
| `console` | order and loss in the buffer, modifiers, reboot, screen | buffer of 3 and up to 4 unread, 4 sets of keys, screen of 2 x 3 |
| `stabs` | every address is resolved, but for the two cases named, and every search ends | 2 files of 3 or 12 bytes, 11 bodies, 3 gaps |

Where the code and what it says of itself differ, the models follow the code
and the properties say so.
A process with three slots leaves the clock hand beyond the working set of a
process with one, and the search for a victim never ends, where `trap.c:582`
says "Apply MODIFIED CLOCK algorithm to choose the victim": `SearchForever` in
`WorkingSet`, reached in `working_set_any_algorithm`, and `ClockSearchEnds` in
`ClockScan`. Best fit
returns 0 when the last hole is too small, though another fits, where
`kheap.c:123` says "there is no enough space" (`TailFits`).
`kheap_virtual_address` misses mapped pages above the rover, where `kheap.c:173`
promises the address of any (hence the bound in `RoundTripBelowRover`).
An environment of the last MLFQ level goes back to a higher level when one of
the first level exited before, where `sched.c:150` says "should be placed in its
correct queue" (hence `l < num_of_ready_queues` in `DemotedByOneLevel`).
Killing the running environment fails the assertion in `sched.c:634`, which
compares `env_id` with a status (`KillCurenv`). With an algorithm other than
modified clock an unassigned index reaches the assertion in
`memory_manager.c:1007` (`UseUnsetVictim`).
Next fit
searches the two sides of the rover apart and misses a hole across it, where
`kheap.c:54` says there is no space. `indexToEnqueue` survives `sched_init_MLFQ`,
so that with one level after two `curenv` goes to a queue that does not exist.
With RAM full and a free slot a page fault panics, where `trap.c:525` says that
replacement is used "when ram is full".
The modified clock evicts a page that is modified and was not used before one that was
used and is not modified; the list in `trap.c:493-506` has them the other way
round, and only "BEST candidate: (0, 0)" agrees (`Class` in `ClockScan`). `srp` shares a page
more than "size of the sharing range (in MB)", `command_prompt.c:549`, unless
that is a multiple of 4 (`pagesRange`; the exception in
`SharedRangesTranslateAlike`). `map_frame` and `free_frame` of the older tree can
free a frame that is in use, where `kern/memory_manager.c:338` says that
`free_frame` "should only be called when ptr_frame_info->references reaches 0"
(`damaged`).

Why the bounds are enough. Five heap pages hold two blocks with a hole before,
between and after them, so every relation of the rover to a hole occurs; four
frames run out before the pages do. Three levels are the least with a middle
one, and three environments make a queue with an inside next to one that runs.
In the working sets the slots are fewer than the pages, so replacement occurs,
the frames fewer than the slots and tables together and the page file smaller
than the pages, so that both run out, and a heap of two pages in one table
keeps a table alive when one of its pages is freed. Sizes 3 and 1 are the
smallest for which a hand left by one process lies beyond the other's set; with
2 and 1 it cannot. In `kernel_tables` three heap pages hold two tables and another
block, so that a table lies below, at or above the rover with a hole on either side; five
frames are two tables, a block and two pages, and run out before all pages
are mapped. One written content beside those the kernel makes is enough
to tell a lost write. The images and memories of `boot` end at the beginning, in the
middle and at the end of a page, and a page more of an array crosses into a
new page table. In `lab_paging` one page is in a page table of
the boot and three in one that the commands create, so that ranges of three
pages (two asked for and one too many) overlap either way, begin in the one table and end in the
other, and meet a missing table before the loop and within it; the frames run
out with one page table and two pages. Three commands are the least in which
a mapping is made, hidden or shared, and written over. In `stabs` a file of 3 bytes is
shorter than the 4 bytes a search goes on by. The console's buffer overflows by
one, and the key sets have both keys of each kind with a key they change.
Three rows and two columns are the least where a row is neither the first nor
the last and a tab crosses several.
Symmetry is used for the frames; nothing treats one specially, but for frame 0
of `LabPaging`, which is left out of it.

The constants that bound a model: `MaxLevels` (ready queues), `LevelCounts`
(levels MLFQ is set up with), `MaxHand` (clock hands tried), `PageFileSize`,
`NFrames`, `Room` and `WSMax`, all of which the machine has too. `RefMod` is where a
reference count wraps round. Four cut
behaviours short: `MaxRefs` (references `cvp` lets a frame have that is not damaged),
`MaxCommands` (commands given; system calls are not bounded), `MaxUnread`
(characters received and not returned) and `PaperRows` (rows printed).

Fairness. The searches of `PlacementScan` and `ClockScan` are loops of a
kernel with interrupts off, so weak fairness of their only step is what the
processor does. `Scheduler!FairSpec` assumes the timer interrupts a running
environment again and again, and nothing else: no system call and no command is
ever owed. MLFQ starves its lower levels by design, so starvation freedom is
stated for round robin only. `Stabs` is a loop as well. `WorkingSet` has no
fairness; that the search ends is `ClockScan`'s result and enters there as a guard.

Deadlock checking is off where the system stops: at the end of a search and
after a panic or a stop in `WorkingSet` and `KernelTables`.

## Proofs

Each theorem holds for every value of the constants that satisfies the named
assumptions; the runs show the same property on a small instance. In each module
`Inv` is the inductive invariant, with a lemma that every action preserves it.

**Kernel heap** (`KHeapProofs`; `NAssumption`: the heap has a page,
`NoFrameAssumption`: the entry 0 is no frame). `TypeCorrect`, `BlocksStayWhole`,
`NoFrameLost`, `LiveBlocksStay`, `TranslationsAreInverse`, and `HeapImplementsAbs`: the
heap implements `AbsHeap`. Whole blocks are not inductive by themselves: that
`kmalloc` takes only free pages needs `empty` to be a set of pages of the heap,
that no frame is taken twice needs the free frames to be unmapped, and before
the first call the page array is in its boot state. `PlacementProofs` gives what
a heap needs of the searches: what they find is a run of free pages of the
size asked for. Both come down to the least element of a set of natural
numbers, from the well-foundedness of the naturals.

**User heap** (`UHeapProofs`; `NAssumption`, `RoomAssumption`: the page file's room is a
number). `TypeCorrect`, `PagesStayBacked`, `BlocksStayWhole`, `HeapImplementsAbs`. The
invariant adds the boot state and that a page which is not in use has size 0,
so that a `free` of it does nothing; whole blocks need a caller that frees
what it was given, the others hold for any caller.

**The two kinds of search** (`SearchProofs`; `MaxAssumption`). `NextFitFindsItsBlock` and
`BestFitFindsItsBlock`: a loop that has ended has found the block of `Placement`, for
any heap, rover and size. The invariant says which windows the loop has ruled
out, and for best fit which hole it is in and which is the smallest so far.
`ScanFindsItsVictim` and `NoBetterVictim`: a search for a victim that has ended has
the victim and the bits of `ModifiedClock`, the first in the code's order of classes. The
invariant: what a pass has gone over holds no slot of the class it looks for,
and the passes for dirty pages have cleared the used bits there and nowhere
else. `ForeignHandFindsNothing`: with the hand beyond the slots the search stays in its
loop for ever, which is `SearchForever` of `WorkingSet`.

**Working sets** (`WorkingSetProofs`; `PagesAssumption`, `SizesAssumption`,
`ContentsAssumption`). `NoFrameLost` holds whatever algorithms are chosen: a call
changes what a process holds, its pages in memory and its tables, and the free
list by the same number of frames, so the proof is one balance per action. Its
invariant also has that no slot lists a page twice or one that is not in memory
(`Listed`) and that the slots are filled from the front while the machine runs
(`FilledFromFront`), which makes the compaction of `freeMem` a shift of ranks in a
finite set. `WorkingSetsListMemory`, `MemoryStaysBacked` and `MemoryImplementsAbs`
have the hypothesis `OnlyModifiedClock`: every other algorithm replaces the entry
of an index that was never assigned and so forgets a page. Under it `AllBacked`
is inductive too: each page in memory is listed, and has its place in the file
and its table. The refinement shows that a replacement, with or without a write
back, leaves the content that `AbsMemory` has for the victim.

**Kernel page tables** (`KHeapProofs`, on top of the heap's invariant). `MappingsAreSeen`,
`TablesAreApart`, `NoPageForgotten` and `StopsForTables`. `TablesInv` has
five parts beside the heap's. Each table is a page that is a block of its own
in the frame of its directory entry (`TablesPlaced`); no frame is mapped in two places
(`RowsApart`), so that what `kheap_virtual_address` finds is the table and not
another page of that frame; the other blocks are whole and apart from the
tables (`BlocksHeld`); every page in use has an owner (`HeapHeld`); and
the processor finds what the kernel mapped, or at least that once an `unmap_frame`
has missed its table (`SeenIsWalked`). `StopsForTables` uses that next
fit finds any free page, and best fit does when the heap's last page is free.

**Scheduler** (`SchedulerProofs`; `EnvAssumption`, `LevelsAssumption`,
`MethodsAssumption`). `EveryPlaceIsRight`, `TrapMayReturn`, `StoppedLeavesNone`,
`LivesAreInOrder` and `DemotionsAreByOne`. The invariant has four parts: each environment is at most once in the queues and
where its status says (`PlaceInv`), the queues fit the method (`Config`), the
level index names a level (`Levelled`), and the current environment is what the
interrupted code left (`Running`). The theorems have the hypothesis
`TwoLevels`, that MLFQ is never set up with a single level: the index survives
`sched_init_MLFQ`, so that with one level after two `curenv` is put into a queue
that does not exist. An environment's stage of life follows from its status and
`curenv` until the assertion of `sched_kill_env` fails, and every action is a few
moves between stages. That a demotion is by one level needs one fact more:
under MLFQ the level index is the one below the running environment's, or the last
(`Quantum`). What `FlattenSeq` and `dequeue` do to the queues comes from
induction over the natural numbers in the form of least elements of sets.

**Console** (`MachineProofs`; `ConsoleAssumption`). `NoModifierSticks`, `ResetIsCtlAltDel`
(from `KeyboardInv`: the flags are those of the
keys held, and E0ESC is set only between the two bytes of an extended key),
`ScreenShowsPaper` (from `ScreenInv`: with what was printed as an endless tape, the
window has moved just so far that the cursor is in its last row, and the screen
holds what the tape does there) and `RingHoldsNewest` (from `BufferInv`: the slots between the two positions hold
what was received and not returned, modulo the size of the buffer).

**Start-up** (`MachineProofs`; `BootAssumption`: the memory is large enough for all that the
boot takes, the image lies within the table that entry 0 borrows, each mapped array
within its own table, all frames within the tables above `KERNEL_BASE`).
`BlocksAreDisjoint`, `KernelIsFound` and `FreeListIsRight`. `boot_allocate_space`
and `boot_map_range` test none of these limits; that no allocation collides
is a matter of the order of the steps alone. `BootInv` says, for every step: what
the steps so far have taken is what each of them takes and no more
(`SpaceOK`), in blocks without a gap (`BlocksOK`); an entry of the directory is there
exactly from the step that makes it on, and no two tables are in one page
(`DirOK`); the blocks that later steps look up are there once (`NamesOK`); and
every mapping made so far is still in the tables (`MapsOK`). `DirOK` is what
`check_boot_pgdir` tests, so `KernelIsFound` includes that it never panics.
The sums of pages are linear; what is not is which table an address is in, a few
lemmas on `div` and `%` for any table size.

**Laboratory paging** (`LabPagingProofs`; `FramesAssumption`, `PagesAssumption`,
`BoundsAssumption`, `SharesAssumption`). `FreeFramesAreUnused`, `CountsChangeWithUses`,
`OnlyFailuresLose` and `SharingTranslatesAlike`, on `CountsInvariant`. The invariant
speaks of each frame whose count is not damaged: free, it has count 0 and no
use; otherwise its count is at least its uses. Uses are cardinalities of
sets of directory and table entries, and a hidden or forgotten use may leave the
count too high, never too low. `StepGood` reduces the three properties to what a
step does to one such frame (`FrameGood`), and one lemma about `map_frame` serves the
system call and `cvp`, one about new page tables and entries that lose their count
`cpf` and `srp`. Nothing is assumed of what `cvp` connects. For `srp`'s loop, `Kept` says what every turn
leaves (entries of their type, counted entries as they were, only page tables that were
missing), by a least-element argument over the turns (`UpTo`), and
`SharingTranslatesAlike` adds that a turn writes its page and no other
(`TurnsWrite`) and that the loop comes as far as there are page tables and frames
(`TurnsReach`). It holds with any counts; of the rest it needs that an entry
whose page table does not exist is not present (`HiddenWithoutTable`).

What stays with TLC. Liveness is out of the prover's reach: that the loops of
`PlacementScan` and `ClockScan` end, and that round robin runs all. Not proved
so far: `InfoIsFound` of `Stabs`.

## Plan

Done: kernel and user heap with their searches, scheduler, modified clock,
working sets, kernel page tables, start-up, laboratory paging, console, debug
information; proofs of every safety property of all but `Stabs`, and of
the refinements of `AbsHeap` and `AbsMemory`.

Left, in this order:

1. A proof of `Stabs`: the binary search keeps the entry it looks for between its ends.
2. `KernelTables` below `WorkingSet`: faults that allocate their tables, with the
   stops in the middle of a replacement.

## Not modelled

- Environments of `kern/` (`user_environment.c`): `env_create` panics at its
  first unfinished part, and the rest is reached only after it. What the
  other parts need of an environment is in `LabPaging` as external.
- `env_run`, `start_env_free`, the page file (`kern/file_manager`) and the headers
  under `inc/` are not in the repository. They are modelled as far as the code's
  use of them says, and marked external.
- The traps of `kern/trap.c`, which destroy the environment or panic and keep no state.
- Printing and formatting, the clock chip, device registers, assembly entries:
  input and output without state of their own.
- The tests (`kern/tests.c`) are straight-line programs; what they assert was read for the
  properties, and the kinds of commands they give and `ClearUserSpace` are in `LabPaging`.
- LRU's time stamps, page buffering, first and worst fit: see the sections on
  the modules.
