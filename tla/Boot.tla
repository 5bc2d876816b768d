-------------------------------- MODULE Boot --------------------------------
(***************************************************************************)
(* Start-up: how the two kernels of the repository build their first page  *)
(* directory and hand the rest of memory to the frame allocator.  "lab" is *)
(* the tree under kern/, "fos" the memory manager at the top, built with   *)
(* USE_KHEAP, and "fos_flat" the same without it.                          *)
(*                                                                         *)
(* Nothing interleaves here: the difficulty is the order of the steps.     *)
(* Each may take memory at ptr_free_mem, page tables included, and three   *)
(* readers of the final value depend on nobody taking more after them: the *)
(* mapping of the memory in use, the frame list and the user's views.      *)
(*                                                                         *)
(* Physical memory is counted in units, PAGE of them to a page, one to a   *)
(* Frame_Info; a page table has PT entries.  Virtual addresses are pages.  *)
(***************************************************************************)
EXTENDS Integers, FiniteSets, SequencesExt

CONSTANTS
  PAGE,        \* units to a page
  PT,          \* entries to a page table
  KernelTables,\* page tables from KERNEL_BASE to the end of the address space
  IOPage,      \* PHYS_IO_MEM, in pages
  ExtPage,     \* PHYS_EXTENDED_MEM, in pages: the kernel is loaded there
  Images,      \* the addresses end_of_kernel may have, in units
  ExtSizes,    \* what the clock chip may say of extended memory, in units
  EnvsSize,    \* size of the array envs
  DiskSize     \* size of the array disk_frames_info

Absent    == -1       \* an entry that is zero
Garbage == -2       \* an entry nobody wrote: boot memory is not cleared

(* The page tables of the address space that have a name, each its own, as *)
(* the cases of check_boot_pgdir's switch show.                            *)
UENVS == 1   READ_ONLY_FRAMES_INFO == 2   UVPT == 3
STACK == 4   VPT == 5                     KERNEL_BASE == 6

Tables == 0 .. KERNEL_BASE + KernelTables - 1
Kernel == KERNEL_BASE .. KERNEL_BASE + KernelTables - 1
Frames == 0 .. KernelTables * PT - 1
StackPages == 2

VARIABLES
  tree,             \* which kernel
  image,            \* end_of_kernel
  ext,              \* size_of_extended_mem, as detect_memory rounds it
  next_step,        \* index of the next step
  ptr_free_mem,
  blocks,           \* what boot_allocate_space has given, and to whom
  dir,              \* ptr_page_directory: the page of each table
  pt,               \* the entries of the page at which a table may be
  mode,             \* how the processor translates: off, low, flat
  failed,           \* an assertion of check_boot_pgdir failed
  references, free_frame_list

machine == <<tree, image, ext>>
frames  == <<references, free_frame_list>>
memory  == <<ptr_free_mem, blocks, dir, pt>>
bootVars == <<machine, next_step, memory, mode, failed, frames>>

PageUp(a)   == (a + PAGE - 1) \div PAGE
PageDown(a) == a \div PAGE

(* An array that initialize_kernel_VM maps lies within its page table, the *)
(* kernel's image within the one entry 0 borrows, all frames within the    *)
(* tables above KERNEL_BASE, and what the boot takes within the memory:    *)
(* boot_allocate_space has no test of its own.                             *)
ASSUME BootAssumption ==
  /\ PAGE \in Nat \ {0} /\ PT \in Nat /\ PT >= StackPages /\ KernelTables \in Nat \ {0}
  /\ IOPage \in Nat /\ IOPage >= 3 /\ ExtPage \in Nat /\ ExtPage >= IOPage
  /\ EnvsSize \in Nat \ {0} /\ PageUp(EnvsSize) <= PT /\ DiskSize \in Nat
  /\ \A e \in Images : e \in Nat /\ PageUp(e) \in ExtPage .. PT
  /\ \A x \in ExtSizes : x \in Nat /\ PageDown(x) # 0
  /\ \A e \in Images, x \in ExtSizes :
       LET n == ExtPage + PageDown(x)
       IN  /\ PageUp(n) <= PT /\ n <= KernelTables * PT
           /\ PageUp(e) + 4 + KernelTables + PageUp(n) + PageUp(DiskSize) + PageUp(EnvsSize) <= n

(* detect_memory: without extended memory the code counts no frame at all. *)
maxpa == IF ext = 0 THEN 0 ELSE ExtPage + ext

number_of_frames == maxpa

Where(what) == (CHOOSE b \in blocks : b.what = what).first
Size(what)  == (CHOOSE b \in blocks : b.what = what).pages
ptr_stack_bottom == PageUp(image) - StackPages

-----------------------------------------------------------------------------
(* The order of initialize_kernel_VM and initialize_paging.                *)
LabSteps == <<"directory", "stack", "physical", "frames_info", "view_frames",
              "listing", "envs", "view_envs", "check", "low", "flat", "paging">>

(* Fault: fos maps what is in use before the last allocation.              *)
FaultyFosSteps == <<"directory", "stack", "tables", "frames_info", "disk", "listing",
                    "physical", "envs", "view_envs", "check", "low", "flat", "paging">>

FosSteps == <<"directory", "stack", "tables", "frames_info", "disk", "listing",
              "envs", "view_envs", "physical", "check", "low", "flat", "paging">>

Steps == IF tree = "lab" THEN LabSteps ELSE FosSteps
Booted == next_step > Len(Steps)
Do(step) ==
  /\ ~Booted
  /\ ~failed
  /\ Steps[next_step] = step
  /\ next_step' = next_step + 1
  /\ UNCHANGED machine

(* Fault: the page in use at the end of the last block is handed out too.  *)
FaultyFirstFree == PageDown(ptr_free_mem)

(* boot_allocate_space rounds up before it allocates, never after.         *)
FirstFree == PageUp(ptr_free_mem)

Allocate(what, size) ==
  /\ ptr_free_mem' = FirstFree * PAGE + size
  /\ blocks' = blocks \union {[what |-> what, first |-> FirstFree, pages |-> PageUp(size)]}

(* boot_get_page_table with create set, for each of the tables ds in order *)
(* of address: a new table is allocated, entered in the directory and not  *)
(* cleared.                                                                *)
boot_get_page_tables(ds) ==
  LET missing == {d \in ds : dir[d] = Absent}
      at == [d \in missing |-> FirstFree + Cardinality({e \in missing : e < d})]
  IN  /\ dir' = [d \in Tables |-> IF d \in missing THEN at[d] ELSE dir[d]]
      /\ ptr_free_mem' = IF missing = {} THEN ptr_free_mem
                         ELSE (FirstFree + Cardinality(missing)) * PAGE
      /\ blocks' = blocks \union
           {[what |-> "table", first |-> at[d], pages |-> 1] : d \in missing}

(* boot_map_range: the pages from v on, to the frames from pa on.          *)
boot_map_range(v, pages, pa) ==
  LET range == v .. v + pages - 1
  IN  /\ boot_get_page_tables({w \div PT : w \in range})
      /\ pt' = [f \in Frames |-> [i \in 0 .. PT-1 |->
           LET hit == {w \in range : dir'[w \div PT] = f /\ w % PT = i}
           IN  IF hit = {} THEN pt[f][i] ELSE pa + (CHOOSE w \in hit : TRUE) - v]]

(* check_va2pa, and what the processor does for linear page v.             *)
check_va2pa(v) ==
  LET t == dir[v \div PT] IN
  IF t \notin Frames THEN Absent ELSE pt[t][v % PT]
-----------------------------------------------------------------------------
BootInit ==
  /\ tree \in {"lab", "fos", "fos_flat"}
  /\ image \in Images
  /\ ext \in {PageDown(e) : e \in ExtSizes}
  /\ next_step = 1
  /\ ptr_free_mem = image
  /\ blocks = {}
  /\ dir = [d \in Tables |-> Absent]
  /\ pt = [f \in Frames |-> [i \in 0 .. PT-1 |-> Garbage]]
  /\ mode = "off"
  /\ failed = FALSE
  /\ references = [f \in Frames |-> Garbage]
  /\ free_frame_list = <<>>

AllocateDirectory ==
  /\ Do("directory")
  /\ Allocate("directory", PAGE)
  /\ UNCHANGED <<dir, pt, mode, failed, frames>>

MapStack ==
  /\ Do("stack")
  /\ boot_map_range((STACK + 1) * PT - StackPages, StackPages, ptr_stack_bottom)
  /\ UNCHANGED <<mode, failed, frames>>

(* fos creates every table above KERNEL_BASE at this point, and maps later *)
(* what is in use by then.                                                 *)
CreateKernelTables ==
  /\ Do("tables")
  /\ boot_get_page_tables(Kernel)
  /\ UNCHANGED <<pt, mode, failed, frames>>

(* The size is computed before boot_map_range is called: it would miss the *)
(* tables that the mapping itself created.                                 *)
MapPhysicalMemory ==
  /\ Do("physical")
  /\ boot_map_range(KERNEL_BASE * PT,
                    IF tree = "fos" THEN PageUp(ptr_free_mem) ELSE KernelTables * PT, 0)
  /\ UNCHANGED <<mode, failed, frames>>

(* One Frame_Info to a frame; fos clears the array.                        *)
AllocateFramesInfo ==
  /\ Do("frames_info")
  /\ Allocate("frames_info", number_of_frames)
  /\ references' = IF tree = "lab" THEN references ELSE [f \in Frames |-> 0]
  /\ UNCHANGED <<dir, pt, mode, failed, free_frame_list>>

MapFramesInfo ==
  /\ Do("view_frames")
  /\ boot_map_range(READ_ONLY_FRAMES_INFO * PT, PageUp(number_of_frames), Where("frames_info"))
  /\ UNCHANGED <<mode, failed, frames>>

AllocateDiskFramesInfo ==
  /\ Do("disk")
  /\ Allocate("disk_frames_info", DiskSize)
  /\ UNCHANGED <<dir, pt, mode, failed, frames>>

setup_listing_to_all_page_tables_entries ==
  /\ Do("listing")
  /\ dir' = [dir EXCEPT ![VPT] = Where("directory"), ![UVPT] = Where("directory")]
  /\ UNCHANGED <<ptr_free_mem, blocks, pt, mode, failed, frames>>

AllocateEnvs ==
  /\ Do("envs")
  /\ Allocate("envs", EnvsSize)
  /\ UNCHANGED <<dir, pt, mode, failed, frames>>

MapEnvs ==
  /\ Do("view_envs")
  /\ boot_map_range(UENVS * PT, PageUp(EnvsSize), Where("envs"))
  /\ UNCHANGED <<mode, failed, frames>>

(* The assertions of check_boot_pgdir, in its order.                       *)
BootPgdirIsRight ==
  /\ \A i \in 0 .. PageUp(number_of_frames) - 1 :
       check_va2pa(READ_ONLY_FRAMES_INFO * PT + i) = Where("frames_info") + i
  /\ \A i \in 0 .. KernelTables * PT - 1 : check_va2pa(KERNEL_BASE * PT + i) = i
  /\ \A i \in 0 .. StackPages - 1 :
       check_va2pa((STACK + 1) * PT - StackPages + i) = ptr_stack_bottom + i
  /\ \A d \in Tables : (dir[d] # Absent) <=>
       d \in {VPT, UVPT, STACK, UENVS, READ_ONLY_FRAMES_INFO} \union Kernel

(* The check of the fos tree is not in the repository.                     *)
check_boot_pgdir ==
  /\ Do("check")
  /\ failed' = (tree = "lab" /\ ~BootPgdirIsRight)
  /\ UNCHANGED <<memory, mode, frames>>

(* Paging is on and the segments still subtract KERNEL_BASE: the kernel    *)
(* runs at linear addresses below PT pages, through entry 0.               *)
turn_on_paging ==
  /\ Do("low")
  /\ dir' = [dir EXCEPT ![0] = dir[KERNEL_BASE]]
  /\ mode' = "low"
  /\ UNCHANGED <<ptr_free_mem, blocks, pt, failed, frames>>

(* The segments are reloaded and entry 0 is taken out.                     *)
reload_segments ==
  /\ Do("flat")
  /\ dir' = [dir EXCEPT ![0] = Absent]
  /\ mode' = "flat"
  /\ UNCHANGED <<ptr_free_mem, blocks, pt, failed, frames>>

Descending(first, last) == [i \in 1 .. last - first + 1 |-> last + 1 - i]

(* Frames kept out of the free list below the hole: fos keeps the zero and *)
(* the temporary page too.                                                 *)
Reserved == IF tree = "lab" THEN {0} ELSE {0, 1, 2}

(* Fault: extended memory is free from the end of the kernel's image.      *)
FaultyRangeEnd == PageUp(image)

range_end == PageUp(ptr_free_mem)

(* Each loop writes the counts of its own range, and the free frames go to *)
(* the head of the list: the last one is the first to be allocated.        *)
initialize_paging ==
  LET low   == (0 .. IOPage - 1) \ Reserved
      high  == range_end .. number_of_frames - 1
      inUse == Reserved \union (IOPage .. range_end - 1)
  IN  /\ Do("paging")
      /\ references' = [f \in Frames |-> CASE f \in low \union high -> 0
                                           [] f \in inUse -> 1
                                           [] OTHER -> references[f]]
      /\ free_frame_list' = Descending(range_end, number_of_frames - 1)
                                \o Descending(Cardinality(Reserved), IOPage - 1)
      /\ UNCHANGED <<memory, mode, failed>>

Stay == Booted /\ UNCHANGED bootVars

BootNext ==
  \/ AllocateDirectory
  \/ MapStack
  \/ CreateKernelTables
  \/ MapPhysicalMemory
  \/ AllocateFramesInfo
  \/ MapFramesInfo
  \/ AllocateDiskFramesInfo
  \/ setup_listing_to_all_page_tables_entries
  \/ AllocateEnvs
  \/ MapEnvs
  \/ check_boot_pgdir
  \/ turn_on_paging
  \/ reload_segments
  \/ initialize_paging
  \/ Stay

BootSpec == BootInit /\ [][BootNext]_bootVars
-----------------------------------------------------------------------------
ImagePages == ExtPage .. PageUp(image) - 1
BlockPages(b) == b.first .. b.first + b.pages - 1
InUse == Reserved \union (IOPage .. ExtPage - 1) \union ImagePages
           \union UNION {BlockPages(b) : b \in blocks}

(* No two boot allocations, page tables created inside a mapping included, *)
(* share a page, and none lies in the kernel's image or beyond the frames  *)
(* there are: the user's read-only views are mapped by whole pages.        *)
BlocksDisjoint ==
  \A b \in blocks : /\ BlockPages(b) \subseteq 0 .. number_of_frames - 1
                    /\ BlockPages(b) \intersect ImagePages = {}
                    /\ \A c \in blocks \ {b} : BlockPages(b) \intersect BlockPages(c) = {}

ViewsShowTheArrays ==
  /\ \A i \in 0 .. Size("envs") - 1 : check_va2pa(UENVS * PT + i) = Where("envs") + i
  /\ tree = "lab" => \A i \in 0 .. Size("frames_info") - 1 :
       check_va2pa(READ_ONLY_FRAMES_INFO * PT + i) = Where("frames_info") + i

(* From the moment paging is on the running kernel finds itself: at its    *)
(* physical addresses until the segments are reloaded, above KERNEL_BASE   *)
(* from then on, with every page that was allocated, the stack and the     *)
(* pages initialize_paging writes to; and users find the kernel's arrays   *)
(* in their views.  No step took an entry of the directory over from an    *)
(* earlier one, or check_boot_pgdir would panic.                           *)
KernelFindsItself ==
  /\ ~failed
  /\ mode = "low" => \A p \in ImagePages : check_va2pa(p) = p
  /\ mode = "flat" =>
       /\ \A p \in InUse \ (IOPage .. ExtPage - 1) : check_va2pa(KERNEL_BASE * PT + p) = p
       /\ ViewsShowTheArrays

(* The frame allocator starts from the truth: every frame the boot left    *)
(* unused is on the free list, once and with no references, and nothing    *)
(* the kernel or the hardware uses is.                                     *)
FreeListIsTheRest ==
  Booted =>
    /\ ToSet(free_frame_list) = (0 .. number_of_frames - 1) \ InUse
    /\ IsInjective(free_frame_list)
    /\ \A f \in 0 .. number_of_frames - 1 : references[f] = IF f \in InUse THEN 1 ELSE 0
=============================================================================
