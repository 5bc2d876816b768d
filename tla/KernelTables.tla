---------------------------- MODULE KernelTables ----------------------------
(***************************************************************************)
(* The page tables of the environments as what they are, pages of the      *)
(* kernel heap: create_page_table takes one with kmalloc, get_page_table   *)
(* finds it again by asking kheap_virtual_address for its frame, and       *)
(* freeMem gives it back with kfree (memory_manager.c, over kheap.c).      *)
(*                                                                         *)
(* `seen' records the mappings the kernel has made and not removed, to     *)
(* compare them with what the processor finds.  The search for a table     *)
(* ends at the rover of the heap.  Where a table beyond it is needed, the  *)
(* kernel works on address 0 and the machine stops, except in unmap_frame, *)
(* which then does nothing: `missed' tells.                                *)
(***************************************************************************)
EXTENDS KHeap

CONSTANTS
  Entries,              \* directory entries of all environments
  Slots                 \* page table entries of a table

VARIABLES
  pde,          \* the frame of the table each directory entry has
  row,          \* what a frame holds, read as a page table
  seen,         \* the mappings made and not removed, by directory entry
  blocks,       \* other blocks of the kernel heap, by first page
  abandoned,    \* blocks whose kmalloc panicked
  missed,       \* an unmap_frame did not find its table
  machine       \* "running" or "stopped"

tables == <<pde, row, seen>>
owned == <<blocks, abandoned>>
allVars == <<vars, tables, owned, missed, machine>>

NoRow == [i \in Slots |-> NoFrame]
Running == machine = "running"

(* Any memory holds something before it is cleared.                        *)
TablesInit ==
  /\ Init
  /\ pde = [d \in Entries |-> NoFrame]
  /\ row = [f \in Frames |-> [i \in Slots |-> f]]
  /\ seen = [d \in Entries |-> NoRow]
  /\ blocks = {} /\ abandoned = {}
  /\ missed = FALSE
  /\ machine = "running"
-----------------------------------------------------------------------------
(* Fault: the new table is not cleared.                                    *)
FaultyCleared(f) == row

Cleared(f) == [row EXCEPT ![f] = NoRow]

(* With no page the table's address is 0: the entry gets the frame of page *)
(* 0 and the zeroes go to address 0.                                       *)
create_page_table(d) ==
  /\ Running /\ pde[d] = NoFrame
  /\ \/ /\ KmallocReturns(1)
        /\ pde' = [pde EXCEPT ![d] = pte'[ret']]
        /\ row' = Cleared(pte'[ret'])
        /\ UNCHANGED machine
     \/ /\ KmallocFails(1)
        /\ machine' = "stopped"
        /\ UNCHANGED <<pde, row>>
     \/ /\ KmallocPanics(1)
        /\ UNCHANGED <<pde, row, machine>>
  /\ UNCHANGED <<seen, owned, missed>>

(* 0 for an entry without a table, and for one the search does not reach.  *)
get_page_table(d) ==
  IF pde[d] = NoFrame THEN Null ELSE kheap_virtual_address(pde[d])

Found(d) == get_page_table(d) # Null

(* The row of the page that get_page_table names.                          *)
TableRow(d) == pte[get_page_table(d)]

Stop == machine' = "stopped" /\ UNCHANGED <<vars, tables, owned, missed>>

(* What the processor finds, walking directory and table by frames.        *)
Walk(d, i) == IF pde[d] = NoFrame THEN NoFrame ELSE row[pde[d]][i]

(* A page fault, after the table fault: a frame is taken for the page and  *)
(* mapped; a mapping that is there already is given up.                    *)
map_frame(d, i) ==
  /\ Running /\ pde[d] # NoFrame /\ Walk(d, i) = NoFrame
  /\ \E f \in freeFrames :
       IF Found(d)
         THEN /\ row' = [row EXCEPT ![TableRow(d)][i] = f]
              /\ seen' = [seen EXCEPT ![d][i] = f]
              /\ freeFrames' = (freeFrames \ {f}) \union ({row[TableRow(d)][i]} \ {NoFrame})
              /\ elsewhere' = (elsewhere \union {f}) \ {row[TableRow(d)][i]}
              /\ UNCHANGED machine
         ELSE /\ freeFrames' = freeFrames \ {f}
              /\ elsewhere' = elsewhere \union {f}
              /\ machine' = "stopped"
              /\ UNCHANGED <<row, seen>>
  /\ UNCHANGED <<empty, startAddress, lastAllocatedKHpage, isKHpageEmpty, pte, strategy, ret,
                 pde, owned, missed>>

(* unmap_frame of the slots I: nothing at all if the table is not found.   *)
Unmapped(d, I) == IF Found(d) THEN {row[TableRow(d)][i] : i \in I} \ {NoFrame} ELSE {}
RowAfter(d, I) ==
  IF Found(d) THEN [row EXCEPT ![TableRow(d)] = [i \in Slots |-> IF i \in I THEN NoFrame ELSE @[i]]]
              ELSE row
SeenAfter(d, I) == [seen EXCEPT ![d] = [i \in Slots |-> IF i \in I THEN NoFrame ELSE @[i]]]

(* The victim's permissions were read before it is unmapped, see below.    *)
pageReplacement(d, i) ==
  /\ Running /\ seen[d][i] # NoFrame /\ Found(d)
  /\ row' = RowAfter(d, {i})
  /\ seen' = SeenAfter(d, {i})
  /\ freeFrames' = freeFrames \union Unmapped(d, {i})
  /\ elsewhere' = elsewhere \ Unmapped(d, {i})
  /\ UNCHANGED <<empty, startAddress, lastAllocatedKHpage, isKHpageEmpty, pte, strategy, ret,
                 pde, owned, missed, machine>>

(* The clock and the time stamps read and clear bits of any resident page, *)
(* which are left out; of a table that is not found they read address 0.   *)
pt_get_page_permissions(d) == Running /\ seen[d] # NoRow /\ ~Found(d) /\ Stop

(* removeEmptyNonUsedPages looks at the table with I unmapped.             *)
IsEmptyTable(d, I) == Found(d) /\ RowAfter(d, I)[TableRow(d)] = NoRow

(* Fault: the table is unlinked and not given back.                        *)
FaultyGivenBack(d, I) == {}

(* The pages kfree walks for the table, if it is to go.                    *)
GivenBack(d, I) == IF IsEmptyTable(d, I) THEN BlockFrom(get_page_table(d)) ELSE {}

(* Fault: the table is given back and the directory keeps it.              *)
FaultyPdeAfter(d, I) == pde

PdeAfter(d, I) == IF IsEmptyTable(d, I) THEN [pde EXCEPT ![d] = NoFrame] ELSE pde

(* freeMem of the pages at the slots I: those in memory are unmapped, and  *)
(* the table goes if nothing is left in it.                                *)
freeMem(d, I) ==
  LET resident == {i \in I : seen[d][i] # NoFrame}
      run      == GivenBack(d, resident)
      freed    == Unmapped(d, resident)
  IN
  /\ Running
  /\ row' = RowAfter(d, resident)
  /\ seen' = SeenAfter(d, resident)
  /\ pde' = PdeAfter(d, resident)
  /\ pte' = [p \in Pages |-> IF p \in run THEN NoFrame ELSE pte[p]]
  /\ empty' = empty \union run
  /\ startAddress' = [p \in Pages |-> IF p \in run THEN p ELSE startAddress[p]]
  /\ freeFrames' = freeFrames \union freed \union ({pte[p] : p \in run} \ {NoFrame})
  /\ elsewhere' = elsewhere \ freed
  /\ missed' = (missed \/ (resident # {} /\ ~Found(d)))
  /\ UNCHANGED <<lastAllocatedKHpage, isKHpageEmpty, strategy, ret, owned, machine>>

(* The rest of the kernel uses the heap as well: queues, quantums.         *)
KernelAlloc(n) ==
  /\ Running
  /\ \/ KmallocFails(n) /\ UNCHANGED owned
     \/ KmallocReturns(n) /\ blocks' = blocks \union {ret'} /\ UNCHANGED abandoned
     \/ /\ KmallocPanics(n)
        /\ abandoned' = abandoned \union ({Place(n)} \ empty')
        /\ UNCHANGED blocks
  /\ UNCHANGED <<tables, missed, machine>>

KernelFree(b) ==
  /\ Running
  /\ Kfree(b)
  /\ blocks' = blocks \ {b}
  /\ UNCHANGED <<abandoned, tables, missed, machine>>

ChooseStrategy(s) ==
  Running /\ SetStrategy(s) /\ UNCHANGED <<tables, owned, missed, machine>>

TablesNext ==
  \/ \E d \in Entries : \/ create_page_table(d) \/ pt_get_page_permissions(d)
                        \/ \E i \in Slots : map_frame(d, i) \/ pageReplacement(d, i)
                        \/ \E I \in SUBSET Slots \ {{}} : freeMem(d, I)
  \/ \E n \in 1 .. N : KernelAlloc(n)
  \/ \E b \in blocks : KernelFree(b)
  \/ \E s \in Strategies : ChooseStrategy(s)

TablesSpec == TablesInit /\ [][TablesNext]_allVars
-----------------------------------------------------------------------------
(* The processor finds the mappings the kernel has made, all of them and   *)
(* no other: no table is cleared late, taken for another one or given back *)
(* while it is used, although the kernel finds it by its frame only, heap  *)
(* blocks come and go around it and its frame was something else before.   *)
(* True until an unmap_frame missed its table (memory_manager.c:483-692,   *)
(* 808-835).                                                               *)
ProcessorSeesMappings ==
  Running /\ ~missed => \A d \in Entries, i \in Slots : Walk(d, i) = seen[d][i]

(* Every table is a page of its own in the heap, no other's block and in   *)
(* no frame that is free or that another table or page has; so no kfree of *)
(* the kernel takes it (memory_manager.c:553-574).                         *)
TablePages(d) == {p \in Pages : pte[p] = pde[d]}

TablesStayApart ==
  \A d \in Entries : pde[d] # NoFrame =>
    /\ \E p \in Pages : TablePages(d) = {p} /\ BlockFrom(p) = {p} /\ p \notin blocks
    /\ pde[d] \notin freeFrames \union elsewhere
    /\ \A c \in Entries \ {d} : pde[c] # pde[d]
    /\ \A i \in Slots : row[pde[d]][i] # NoFrame => row[pde[d]][i] \in elsewhere

(* Nothing in the heap is forgotten: each page in use belongs to a table   *)
(* that a directory has, to another block whose holder will free it, or to *)
(* a call that panicked (memory_manager.c:808-835).                        *)
HeapIsOwned ==
  \A p \in Pages : InUse(p) =>
    startAddress[p] \in blocks \union abandoned \union UNION {TablePages(d) : d \in Entries}

(* The machine stops in three cases only: there is no page for a table;    *)
(* best fit, whose last hole is the end of the heap, finds none there; or  *)
(* a table that is used lies above the rover (kheap.c:177,                 *)
(* memory_manager.c:558).                                                  *)
StopsOnlyForTables ==
  [][machine' = "stopped" /\ Running =>
       \/ EmptyNow = {}
       \/ strategy = "BESTFIT" /\ N-1 \notin EmptyNow
       \/ \E d \in Entries : \E p \in TablePages(d) : p > lastAllocatedKHpage]_allVars
=============================================================================
