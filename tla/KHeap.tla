------------------------------- MODULE KHeap -------------------------------
(***************************************************************************)
(* The kernel heap (kheap.c) over the machine's free frame list            *)
(* (allocate_frame, free_frame, map_frame, unmap_frame of                  *)
(* memory_manager.c).                                                      *)
(*                                                                         *)
(* Every operation is one action: the kernel runs with interrupts off, on  *)
(* one processor, so no other kernel code runs inside kmalloc or kfree.    *)
(* A kernel panic is not the end: it leaves the call where it is and goes  *)
(* to the kernel prompt, whose commands use the heap again.                *)
(*                                                                         *)
(* Which free frame is taken is left open (the free list is shared with    *)
(* every user page, so its order is arbitrary at each call), hence a set.  *)
(***************************************************************************)
EXTENDS Placement, Functions

CONSTANTS
  Frames,     \* physical frames
  NoFrame     \* the page table entry 0

ASSUME NoFrameAssumption == NoFrame \notin Frames

NoCall == -2        \* nothing was allocated yet
Panic  == -3        \* the last allocation never returned

Strategies == {"NEXTFIT", "BESTFIT"}

VARIABLES
  empty,               \* pages with isEmpty = 1
  startAddress,        \* first page of the block a page is in; Null is 0
  lastAllocatedKHpage, \* the rover of next fit, N is KERNEL_HEAP_MAX
  isKHpageEmpty,       \* TRUE until the page array is initialised
  pte,                 \* page table entries of the kernel heap
  freeFrames,          \* free_frame_list
  elsewhere,           \* frames the rest of the system holds
  strategy,            \* _KHeapPlacementStrategy
  ret                  \* what the last kmalloc returned

pageArray == <<empty, startAddress, isKHpageEmpty>>
vars == <<empty, startAddress, lastAllocatedKHpage, isKHpageEmpty, pte,
          freeFrames, elsewhere, strategy, ret>>

(* At boot the page array is all zeroes: no page is empty, none has a      *)
(* start address.  Some frames went to the boot-time tables.               *)
Init ==
  /\ empty = {}
  /\ startAddress = [p \in Pages |-> Null]
  /\ lastAllocatedKHpage = 0
  /\ isKHpageEmpty = TRUE
  /\ pte = [p \in Pages |-> NoFrame]
  /\ elsewhere \in SUBSET Frames
  /\ freeFrames = Frames \ elsewhere
  /\ strategy \in Strategies
  /\ ret = NoCall

-----------------------------------------------------------------------------
(* Fault: every kmalloc initialises the page array.                        *)
EmptyNowAlwaysReset == Pages

(* The page array as kmalloc's search sees it: initialised on first use.   *)
EmptyNow == IF isKHpageEmpty THEN Pages ELSE empty
StartNow == IF isKHpageEmpty THEN [p \in Pages |-> p] ELSE startAddress

Place(n) ==
  IF strategy = "NEXTFIT" THEN nextFit(EmptyNow, lastAllocatedKHpage, n)
                          ELSE bestFit(EmptyNow, n)

(* allocate_frame, map_frame and the page array entry, for each of the n   *)
(* pages from s on: page p gets frame f[p].  map_frame gives back the      *)
(* frame it finds mapped.                                                  *)
MapPages(s, n, f) ==
  /\ pte' = [p \in Pages |-> IF p \in Window(s, n) THEN f[p] ELSE pte[p]]
  /\ freeFrames' = (freeFrames \ {f[p] : p \in Window(s, n)})
                     \cup ({pte[p] : p \in Window(s, n)} \ {NoFrame})
  /\ empty' = EmptyNow \ Window(s, n)
  /\ startAddress' = [p \in Pages |-> IF p \in Window(s, n) THEN s ELSE StartNow[p]]
  /\ isKHpageEmpty' = FALSE
  /\ UNCHANGED <<elsewhere, strategy>>

KmallocFails(n) ==
  /\ Place(n) = Null
  /\ ret' = Null
  /\ empty' = EmptyNow
  /\ startAddress' = StartNow
  /\ isKHpageEmpty' = FALSE
  /\ UNCHANGED <<lastAllocatedKHpage, pte, freeFrames, elsewhere, strategy>>

KmallocReturns(n) ==
  /\ Place(n) # Null
  /\ \E f \in Injection(Window(Place(n), n), freeFrames) : MapPages(Place(n), n, f)
  /\ lastAllocatedKHpage' = Place(n) + n
  /\ ret' = Place(n)

(* allocate_frame panics at the first page for which no frame is left; the *)
(* rover is not moved.                                                     *)
KmallocPanics(n) ==
  /\ Place(n) # Null
  /\ \E k \in 0 .. n-1 :
       \E f \in Injection(Window(Place(n), k), freeFrames) :
         /\ {f[p] : p \in Window(Place(n), k)} = freeFrames
         /\ MapPages(Place(n), k, f)
  /\ ret' = Panic
  /\ UNCHANGED lastAllocatedKHpage

(* kmalloc of n pages once the size is rounded up; n = 0 stands for a size *)
(* of 0 and for the sizes above 2^32 - PAGE_SIZE, which wrap to 0.         *)
Kmalloc(n) == KmallocFails(n) \/ KmallocReturns(n) \/ KmallocPanics(n)

(* Fault: only the page of the address is freed.                           *)
BlockFromFirstPage(va) == {va} \ empty

(* Fault: an address inside a block frees the rest of the block.           *)
BlockFromAnywhere(va) ==
  {q \in va .. N-1 : \A r \in va .. q : r \notin empty /\ startAddress[r] = startAddress[va]}

(* The pages kfree(va) walks: from va on, while they are in use and belong *)
(* to the block that starts at va.  There are none when va is a free page  *)
(* or lies inside a block.                                                 *)
BlockFrom(va) ==
  {q \in va .. N-1 : \A r \in va .. q : r \notin empty /\ startAddress[r] = va}

(* Fault: the pages are marked empty and stay mapped.                      *)
KfreeKeepsMappings(va) ==
  LET run == BlockFrom(va) IN
  /\ startAddress' = [p \in Pages |-> IF p \in run THEN p ELSE startAddress[p]]
  /\ empty' = empty \cup run
  /\ UNCHANGED <<lastAllocatedKHpage, isKHpageEmpty, pte, freeFrames, elsewhere, strategy, ret>>

Kfree(va) ==
  LET run == BlockFrom(va) IN
  /\ pte' = [p \in Pages |-> IF p \in run THEN NoFrame ELSE pte[p]]
  /\ freeFrames' = freeFrames \cup ({pte[p] : p \in run} \ {NoFrame})
  /\ startAddress' = [p \in Pages |-> IF p \in run THEN p ELSE startAddress[p]]
  /\ empty' = empty \cup run
  /\ UNCHANGED <<lastAllocatedKHpage, isKHpageEmpty, elsewhere, strategy, ret>>

(* setKHeapPlacementStrategy...: every strategy but NEXTFIT is best fit.   *)
SetStrategy(s) ==
  /\ strategy' = s
  /\ UNCHANGED <<pageArray, lastAllocatedKHpage, pte, freeFrames, elsewhere, ret>>

(* The rest of the kernel takes and gives back frames between two calls.   *)
AllocateFrame(f) ==
  /\ f \in freeFrames
  /\ freeFrames' = freeFrames \ {f}
  /\ elsewhere' = elsewhere \cup {f}
  /\ UNCHANGED <<pageArray, lastAllocatedKHpage, pte, strategy, ret>>

FreeFrame(f) ==
  /\ f \in elsewhere
  /\ elsewhere' = elsewhere \ {f}
  /\ freeFrames' = freeFrames \cup {f}
  /\ UNCHANGED <<pageArray, lastAllocatedKHpage, pte, strategy, ret>>

Next ==
  \/ \E n \in 0 .. N : Kmalloc(n)
  \/ \E va \in Pages : Kfree(va)
  \/ \E s \in Strategies : SetStrategy(s)
  \/ \E f \in Frames : AllocateFrame(f) \/ FreeFrame(f)

Spec == Init /\ [][Next]_vars

-----------------------------------------------------------------------------
(* Fault: the page at the rover is left out of the search.                 *)
kheap_virtual_address_short(f) ==
  LET hits == {p \in Pages : p < lastAllocatedKHpage /\ pte[p] = f}
  IN  IF hits = {} THEN Null ELSE Min(hits)

(* The two translations kheap.c offers; both read the page table only.     *)
kheap_virtual_address(f) ==
  LET hits == {p \in Pages : p <= lastAllocatedKHpage /\ pte[p] = f}
  IN  IF hits = {} THEN Null ELSE Min(hits)

kheap_physical_address(p) == pte[p]

InUse(p) == ~isKHpageEmpty /\ p \notin empty

-----------------------------------------------------------------------------
TypeOK ==
  /\ empty \subseteq Pages
  /\ startAddress \in [Pages -> Pages \cup {Null}]
  /\ lastAllocatedKHpage \in 0 .. N
  /\ isKHpageEmpty \in BOOLEAN
  /\ pte \in [Pages -> Frames \cup {NoFrame}]
  /\ freeFrames \subseteq Frames
  /\ elsewhere \subseteq Frames
  /\ strategy \in Strategies
  /\ ret \in Pages \cup {Null, NoCall, Panic}

(* Every page in use can still be freed: between a page and the address    *)
(* its block was returned at, all pages are in use and belong to that same *)
(* block.  kfree finds the end of a block by walking it, so a gap or a     *)
(* foreign page would leave pages that no call can ever free, and a block  *)
(* cut short by a panic must look like a whole block (kheap.c:144-159).    *)
BlocksAreContiguous ==
  \A p \in Pages : InUse(p) =>
    /\ startAddress[p] \in 0 .. p
    /\ \A q \in startAddress[p] .. p :
         InUse(q) /\ startAddress[q] = startAddress[p]

(* A page is mapped exactly when it is in use, to a frame no other page    *)
(* has.                                                                    *)
MappedWhenInUse ==
  \A p \in Pages : (pte[p] # NoFrame) <=> InUse(p)

OneFramePerPage ==
  \A p, q \in Pages : pte[p] = pte[q] /\ pte[p] # NoFrame => p = q

(* No frame is lost and none is handed out twice: each is free, held by    *)
(* the rest of the kernel or mapped in the heap, and only one of these.    *)
(* Breaks if kfree forgets a frame, if a block's pages keep their entries  *)
(* or if a panic leaves a frame allocated but not mapped.                  *)
HeapFrames == {pte[p] : p \in Pages} \ {NoFrame}

FramesAccountedFor ==
  /\ freeFrames \cup elsewhere \cup HeapFrames = Frames
  /\ freeFrames \cap elsewhere = {}
  /\ (freeFrames \cup elsewhere) \cap HeapFrames = {}
  /\ MappedWhenInUse
  /\ OneFramePerPage

(* kheap_virtual_address undoes kheap_physical_address for every page in   *)
(* use that lies below the rover (kheap.c:167-205): the page tables of     *)
(* processes are found this way, so two pages with one frame would hand    *)
(* one process the table of another.                                       *)
RoundTripBelowRover ==
  \A p \in Pages : InUse(p) /\ p <= lastAllocatedKHpage =>
    kheap_virtual_address(kheap_physical_address(p)) = p

(* The contents of a block stay where they are: a page that is in use      *)
(* before and after a step keeps its block and its frame.  map_frame would *)
(* replace a mapping it finds, so this rests on the search never choosing  *)
(* a page that is in use, whichever strategies chose before.               *)
LiveBlocksUndisturbed ==
  [][\A p \in Pages : InUse(p) /\ InUse(p)' =>
       pte'[p] = pte[p] /\ startAddress'[p] = startAddress[p]]_vars

(* kmalloc and kfree keep the promise of AbsHeap: a block owns its pages   *)
(* from the call that returned it to the kfree of its address.             *)
owner == [p \in Pages |-> IF InUse(p) THEN startAddress[p] ELSE Null]

Abs == INSTANCE AbsHeap
AbsSpec == Abs!Spec

=============================================================================
