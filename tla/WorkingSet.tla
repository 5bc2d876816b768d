----------------------------- MODULE WorkingSet -----------------------------
(***************************************************************************)
(* The page working sets of the environments: table and page faults with   *)
(* the modified clock replacement (trap.c), and the kernel side of the     *)
(* user heap, allocateMem and freeMem (memory_manager.c).                  *)
(*                                                                         *)
(* A fault and a system call run to their end with interrupts off, so each *)
(* is one action.  The pages of a process are its own; it competes with    *)
(* the others for frames and for the page file, and shares the clock hand  *)
(* with them.  The page file (kern/file_manager) and the processor, which  *)
(* sets the used and modified bits, are not in the repository.  A table is *)
(* a page of the kernel heap, that is, one frame; KHeap says more of it.   *)
(***************************************************************************)
EXTENDS Integers, FiniteSets, Functions, ModifiedClock

CONSTANTS
  Env,
  Pages, Heap, Stack,     \* user pages, numbered; the others are the program's
  TableOf,                \* the page table (directory entry) of a page
  WSMax,                  \* page_WS_max_size of each environment
  NFrames,                \* frames for user pages and page tables
  PageFileSize,           \* pages the page file can hold
  Algorithms,             \* replacement algorithms in use
  Data, Image, Zero, Junk,\* contents of a page, see AbsMemory
  Absent,                 \* not in the page file, or not in memory
  NoPage                  \* an empty entry of a working set

ASSUME PagesAssumption ==
  /\ Pages \subseteq Nat /\ IsFiniteSet(Pages)
  /\ Heap \subseteq Pages /\ Stack \subseteq Pages /\ Heap \cap Stack = {}
  /\ NoPage \notin Pages
  /\ TableOf \in [Pages -> Range(TableOf)]
ASSUME SizesAssumption ==
  /\ IsFiniteSet(Env)
  /\ WSMax \in [Env -> Nat \ {0}]
  /\ NFrames \in Nat /\ PageFileSize \in Nat
  /\ Algorithms \subseteq {"LRU", "CLOCK", "FIFO", "MODIFIEDCLOCK"}
ASSUME ContentsAssumption == Absent \notin Data \cup {Image, Zero, Junk}

Slots(e) == 0 .. WSMax[e]-1

VARIABLES
  proc,            \* of each environment: its working set, pages and tables
  freeFrames,      \* how many frames are free
  lastClockIndex,  \* the clock hand, one for all environments
  algorithm,       \* _PageRepAlgoType
  machine          \* "running", or how it stopped for good

vars == <<proc, freeFrames, lastClockIndex, algorithm, machine>>

Resident(q)   == {p \in Pages : q.memory[p] # Absent}
InFile(q)     == {p \in Pages : q.file[p] # Absent}
FullSlots(q)  == {i \in DOMAIN q.slots : q.slots[i] # NoPage}
WorkingSet(q) == {q.slots[i] : i \in FullSlots(q)}
Full(q)       == FullSlots(q) = DOMAIN q.slots
Size(q)       == Cardinality(DOMAIN q.slots)

(* The pages in memory and in the page file, and the tables, of all.       *)
AllResident == {x \in Env \X Pages : x[2] \in Resident(proc[x[1]])}
AllInFile   == {x \in Env \X Pages : x[2] \in InFile(proc[x[1]])}
AllTables   == {x \in Env \X Range(TableOf) : x[2] \in proc[x[1]].tables}

FileRoom == PageFileSize - Cardinality(AllInFile)

(* An environment with its program in the page file and nothing in memory. *)
NewProcess(e) ==
  [slots    |-> [i \in Slots(e) |-> NoPage],  \* ptr_pageWorkingSet
   last     |-> 0,                            \* page_last_WS_index
   memory   |-> [p \in Pages |-> Absent],     \* what the frame of a page holds
   used     |-> {},                           \* pages with PERM_USED
   modified |-> {},                           \* and with PERM_MODIFIED
   file     |-> [p \in Pages |->              \* the page file
                   IF p \in Heap \cup Stack THEN Absent ELSE Image],
   tables   |-> {}]                           \* the page tables there are

Init ==
  /\ proc = [e \in Env |-> NewProcess(e)]
  /\ freeFrames = NFrames
  /\ lastClockIndex = 0
  /\ algorithm \in Algorithms
  /\ machine = "running"

-----------------------------------------------------------------------------
Running == machine = "running"

(* The processor: an access to a page in memory sets its bits.             *)
Read(e, p) ==
  /\ Running
  /\ p \in Resident(proc[e])
  /\ proc' = [proc EXCEPT ![e].used = @ \cup {p}]
  /\ UNCHANGED <<freeFrames, lastClockIndex, algorithm, machine>>

Write(e, p, d) ==
  /\ Running
  /\ p \in Resident(proc[e])
  /\ proc' = [proc EXCEPT ![e].used = @ \cup {p}, ![e].modified = @ \cup {p},
                          ![e].memory[p] = d]
  /\ UNCHANGED <<freeFrames, lastClockIndex, algorithm, machine>>

-----------------------------------------------------------------------------
(* A fault where the directory has no table: create_page_table takes a     *)
(* frame through kmalloc, and allocate_frame panics if there is none.      *)
table_fault_handler(e, p) ==
  /\ Running
  /\ TableOf[p] \notin proc[e].tables
  /\ IF freeFrames > 0
       THEN /\ proc' = [proc EXCEPT ![e].tables = @ \cup {TableOf[p]}]
            /\ freeFrames' = freeFrames - 1
            /\ UNCHANGED machine
       ELSE /\ machine' = "noMemory"
            /\ UNCHANGED <<proc, freeFrames>>
  /\ UNCHANGED <<lastClockIndex, algorithm>>

(* unmap_frame: the entry, and with it both bits, becomes 0.               *)
Unmap(q, R) ==
  [q EXCEPT !.memory = [p \in Pages |-> IF p \in R THEN Absent ELSE @[p]],
            !.used = @ \ R, !.modified = @ \ R]

(* Fault: the victim is not written back.                                  *)
pageReplacementDrops(q, v) ==
  [Unmap(q, {q.slots[v]}) EXCEPT !.slots[v] = NoPage, !.last = (@ + 1) % Size(q)]

(* Take the page of slot v out of memory; a modified page is written to    *)
(* the page file first.                                                    *)
pageReplacement(q, v) ==
  LET va == q.slots[v]
      written == IF va \in q.modified THEN [q EXCEPT !.file[va] = q.memory[va]] ELSE q
  IN  [Unmap(written, {va}) EXCEPT !.slots[v] = NoPage, !.last = (@ + 1) % Size(q)]

(* pf_read_env_page; a stack page that is not there is added to the page   *)
(* file, and its content is whatever the frame held.                       *)
Load(q, p) ==
  IF q.file[p] # Absent THEN [q EXCEPT !.memory[p] = q.file[p]]
  ELSE [q EXCEPT !.memory[p] = Junk]

AddToFile(q, p) == IF q.file[p] = Absent THEN [q EXCEPT !.file[p] = Junk] ELSE q

SetEntry(q, v, p) == [q EXCEPT !.slots[v] = p, !.last = (v + 1) % Size(q)]

(* Bring page p into slot v of q, the environment after the replacement    *)
(* that may have come first, with the free frames and the hand it left.    *)
pagePlacement(e, q, frames, hand, p, v) ==
  LET Becomes(r, f, h) == /\ proc' = [proc EXCEPT ![e] = r]
                          /\ freeFrames' = f
                          /\ lastClockIndex' = h
  IN
  \/ /\ frames = 0
     /\ machine' = "noMemory"
     /\ Becomes(q, frames, hand)
  \/ /\ frames > 0
     /\ p \in InFile(q) \/ (p \in Stack /\ FileRoom > 0)
     /\ IF v \in DOMAIN q.slots
          THEN LET r == SetEntry(AddToFile(Load(q, p), p), v, p) IN
               /\ Becomes(r, frames - 1, r.last)
               /\ UNCHANGED machine
          ELSE \* env_page_ws_set_entry's assertion
               /\ machine' = "assertion"
               /\ Becomes([AddToFile(Load(q, p), p) EXCEPT !.last = v], frames - 1, hand)
  \/ /\ frames > 0
     /\ p \in Stack \ InFile(q)
     /\ FileRoom = 0
     /\ machine' = "noPageFile"
     /\ Becomes(Load(q, p), frames - 1, hand)
  \/ /\ frames > 0
     /\ p \notin InFile(q) \cup Stack
     /\ machine' = "invalidAccess"
     /\ Becomes(q, frames, hand)

(* A fault where the table is there and the page is not.                   *)
PageFault(e, p) ==
  Running /\ TableOf[p] \in proc[e].tables /\ p \notin Resident(proc[e])

PlaceInFreeSlot(e, p) ==
  /\ PageFault(e, p)
  /\ ~Full(proc[e])
  /\ pagePlacement(e, proc[e], freeFrames, lastClockIndex, p, proc[e].last)
  /\ UNCHANGED algorithm

(* The slots whose page has one of the bits.                               *)
SlotsWith(q, bits) == {i \in DOMAIN q.slots : q.slots[i] \in bits}

(* modifiedClock: the used bits its passes leave, see ModifiedClock.       *)
AfterClock(q, hand) ==
  [q EXCEPT !.used = (@ \ WorkingSet(q)) \cup {q.slots[i] : i \in
       UsedAfter(Size(q), hand, SlotsWith(q, q.used), SlotsWith(q, q.modified))}]

ReplaceVictim(e, p) ==
  LET q == proc[e]
      v == Victim(Size(q), lastClockIndex, SlotsWith(q, q.used), SlotsWith(q, q.modified))
      r == pageReplacement(AfterClock(q, lastClockIndex), v)
  IN  /\ PageFault(e, p)
      /\ Full(q)
      /\ algorithm = "MODIFIEDCLOCK"
      /\ lastClockIndex <= Size(q)
      /\ pagePlacement(e, r, freeFrames + 1, r.last, p, v)
      /\ UNCHANGED algorithm

(* The hand is beyond this working set: modifiedClock never returns.       *)
SearchForever(e, p) ==
  /\ PageFault(e, p)
  /\ Full(proc[e])
  /\ algorithm = "MODIFIEDCLOCK"
  /\ lastClockIndex > Size(proc[e])
  /\ machine' = "hung"
  /\ UNCHANGED <<proc, freeFrames, lastClockIndex, algorithm>>

(* With another algorithm victim is never assigned: any slot, or none.     *)
UseUnsetVictim(e, p) ==
  /\ PageFault(e, p)
  /\ Full(proc[e])
  /\ algorithm # "MODIFIEDCLOCK"
  /\ \E v \in 0 .. WSMax[e] :
       pagePlacement(e, proc[e], freeFrames, lastClockIndex, p, v)
  /\ UNCHANGED algorithm

page_fault_handler(e, p) ==
  \/ PlaceInFreeSlot(e, p)
  \/ ReplaceVictim(e, p)
  \/ SearchForever(e, p)
  \/ UseUnsetVictim(e, p)

-----------------------------------------------------------------------------
(* The pages R of a new block are added to the page file, lowest first,    *)
(* cleared; the machine stops if the file fills up.  uheap.c asks only for *)
(* pages that are in no block.  Of no pages at all, the result tested is   *)
(* never assigned.                                                         *)
allocateMem(e, R) ==
  LET room  == FileRoom
      added == {p \in R : Cardinality({q \in R : q < p}) < room}
  IN  /\ Running
      /\ R \cap InFile(proc[e]) = {}
      /\ proc' = [proc EXCEPT ![e].file =
                    [p \in Pages |-> IF p \in added THEN Zero ELSE @[p]]]
      /\ machine' \in IF R = {} THEN {machine, "noPageFile"}
                     ELSE IF added = R THEN {machine} ELSE {"noPageFile"}
      /\ UNCHANGED <<freeFrames, lastClockIndex, algorithm>>

(* The entries of the slots S, in order, moved to the front.               *)
Rank(S, i) == Cardinality({j \in S : j < i})

(* Fault: the entries of the pages freed are not cleared.                  *)
CompactNothing(slots, S) == slots

Compact(slots, S) ==
  [k \in DOMAIN slots |->
     IF \E i \in S : Rank(S, i) = k THEN slots[CHOOSE i \in S : Rank(S, i) = k]
     ELSE NoPage]

freeResidentPagesInTheWorkingSet(q, R) ==
  LET keep == {i \in FullSlots(q) : q.slots[i] \notin R}
  IN  [Unmap(q, R \cap WorkingSet(q)) EXCEPT
         !.slots = Compact(q.slots, keep),
         !.last  = Cardinality(keep) % Size(q)]

(* Faults: tables are given back that still have pages, or are not there.  *)
TablesInUseToo(q, R) == {TableOf[p] : p \in R} \cap q.tables

AbsentTablesToo(q, R) ==
  {t \in {TableOf[p] : p \in R} : \A p \in Resident(q) : TableOf[p] # t}

(* Of the tables of R those in which no page is mapped are given back.     *)
EmptyTables(q, R) ==
  {t \in {TableOf[p] : p \in R} \cap q.tables : \A p \in Resident(q) : TableOf[p] # t}

freeMem(e, R) ==
  LET unfiled == [proc[e] EXCEPT !.file =
                    [p \in Pages |-> IF p \in R THEN Absent ELSE @[p]]]
      freed   == freeResidentPagesInTheWorkingSet(unfiled, R)
  IN  /\ Running
      /\ proc' = [proc EXCEPT ![e] = [freed EXCEPT !.tables = @ \ EmptyTables(freed, R)]]
      /\ freeFrames' = freeFrames + Cardinality(R \cap WorkingSet(proc[e]))
                                  + Cardinality(EmptyTables(freed, R))
      /\ UNCHANGED <<lastClockIndex, algorithm, machine>>

setPageReplacmentAlgorithm(a) ==
  /\ Running
  /\ algorithm' = a
  /\ UNCHANGED <<proc, freeFrames, lastClockIndex, machine>>

(* At each clock interrupt under LRU the used bits are moved to the time   *)
(* stamps, which nothing reads.                                            *)
update_WS_time_stamps(e) ==
  /\ Running
  /\ algorithm = "LRU"
  /\ proc' = [proc EXCEPT ![e].used = @ \ WorkingSet(proc[e])]
  /\ UNCHANGED <<freeFrames, lastClockIndex, algorithm, machine>>

(* The pages of a block of the user heap.                                  *)
HeapRanges == {R \in SUBSET Heap : \A p, q \in R : \A r \in Pages :
                                            p <= r /\ r <= q => r \in R}

Next ==
  \/ \E e \in Env, p \in Pages : \/ Read(e, p)
                              \/ \E d \in Data : Write(e, p, d)
                              \/ table_fault_handler(e, p)
                              \/ page_fault_handler(e, p)
  \/ \E e \in Env, R \in HeapRanges : allocateMem(e, R) \/ freeMem(e, R)
  \/ \E e \in Env : update_WS_time_stamps(e)
  \/ \E a \in Algorithms : setPageReplacmentAlgorithm(a)

Spec == Init /\ [][Next]_vars

-----------------------------------------------------------------------------
NextSlotIsFree(q) ==
  ~Full(q) => q.last \in DOMAIN q.slots /\ q.slots[q.last] = NoPage

(* The working set lists the pages in memory, each once: a page in memory  *)
(* that no slot names could never be replaced or freed, and a slot that    *)
(* names a page not in memory makes the clock read a missing entry.  And   *)
(* while it has room, the slot page_last_WS_index names is empty:          *)
(* page_fault_handler places a page there without looking.  Has to survive *)
(* the compaction in freeMem and replacement in any order (trap.c:526-591, *)
(* memory_manager.c:784-807).                                              *)
WorkingSetIsMemory ==
  Running => \A e \in Env :
    /\ WorkingSet(proc[e]) = Resident(proc[e])
    /\ Cardinality(FullSlots(proc[e])) = Cardinality(WorkingSet(proc[e]))
    /\ NextSlotIsFree(proc[e])

(* Every page in memory can be written back and found again: it has a      *)
(* page in the page file and its table is present, and where the two       *)
(* copies differ the modified bit is set (trap.c:529-535,                  *)
(* memory_manager.c:808-835).                                              *)
MemoryBacked ==
  Running => \A e \in Env : \A p \in Resident(proc[e]) :
    /\ p \in InFile(proc[e])
    /\ TableOf[p] \in proc[e].tables
    /\ proc[e].memory[p] # proc[e].file[p] => p \in proc[e].modified

(* A frame is free, or a page in memory, or a page table: none is lost in  *)
(* a replacement, a freed block or a table given back, and none is used    *)
(* twice (memory_manager.c:419-462, 678-692, 808-835).                     *)
FramesAccountedFor ==
  freeFrames + Cardinality(AllResident) + Cardinality(AllTables) = NFrames

(* What a program finds in its pages is what AbsMemory says: faults,       *)
(* replacement, write-back and the compaction of working sets move pages   *)
(* and lose nothing a program wrote (trap.c:526-591).                      *)
value == [e \in Env |-> [p \in Pages |->
            IF p \in Resident(proc[e]) THEN proc[e].memory[p] ELSE proc[e].file[p]]]

Abs == INSTANCE AbsMemory
AbsSpec == Abs!Spec

=============================================================================
