------------------------------- MODULE UHeap -------------------------------
(***************************************************************************)
(* The user heap of one process: malloc and free (uheap.c), with what the  *)
(* system calls under them do to the process's pages in the page file.     *)
(*                                                                         *)
(* A process has one thread and a system call runs to its end, but malloc  *)
(* and free themselves run in user mode.  Nothing they touch is shared     *)
(* with other processes except the room in the page file, which a malloc   *)
(* reads in one system call only, so each call is one action and the other *)
(* processes move between two of them.                                     *)
(*                                                                         *)
(* The search is Placement's: uheap.c has the kernel heap's functions once *)
(* more, line by line.  A page of the array without an owner has size 0.   *)
(***************************************************************************)
EXTENDS Placement

CONSTANT Room       \* pages the page file has for this process and the others

ASSUME RoomAssumption == Room \in Nat

NoCall == -2        \* nothing was allocated yet
Panic  == -3        \* the last malloc never returned

Strategies == {"NEXTFIT", "BESTFIT"}
Callers == {"careful", "careless"}

VARIABLES
  caller,              \* whether free is only called with block addresses
  empty,               \* pages with isEmpty = 1
  startAddress,        \* userHeapPages[].startAddress
  size,                \* userHeapPages[].size, in pages
  lastAllocatedUHpage, \* the rover of next fit, N is USER_HEAP_MAX
  isUserHeapEmpty,     \* TRUE until the page array is initialised
  pageFile,            \* heap pages of the process in the page file
  others,              \* pages of other processes there
  strategy,            \* _UHeapPlacementStrategy
  ret                  \* what the last malloc returned

pageArray == <<empty, startAddress, size, isUserHeapEmpty>>
vars == <<caller, pageArray, lastAllocatedUHpage, pageFile, others, strategy, ret>>

Init ==
  /\ caller \in Callers
  /\ empty = {}
  /\ startAddress = [p \in Pages |-> Null]
  /\ size = [p \in Pages |-> 0]
  /\ lastAllocatedUHpage = 0
  /\ isUserHeapEmpty = TRUE
  /\ pageFile = {}
  /\ others = 0
  /\ strategy \in Strategies
  /\ ret = NoCall

-----------------------------------------------------------------------------
Running == ret # Panic      \* a process that panicked the kernel is not resumed

(* The page array as malloc's search sees it: initialised on first use.    *)
EmptyNow == IF isUserHeapEmpty THEN Pages ELSE empty
StartNow == IF isUserHeapEmpty THEN [p \in Pages |-> p] ELSE startAddress
SizeNow  == IF isUserHeapEmpty THEN [p \in Pages |-> 0] ELSE size

(* Fault: best fit trusts the hole before the one it is in, as if the last *)
(* hole always had room.                                                   *)
FaultyPlace(n) ==
  IF strategy = "NEXTFIT" THEN nextFit(EmptyNow, lastAllocatedUHpage, n)
                          ELSE IF n <= N THEN N-n ELSE Null

Place(n) ==
  IF strategy = "NEXTFIT" THEN nextFit(EmptyNow, lastAllocatedUHpage, n)
                          ELSE bestFit(EmptyNow, n)

Left == Room - others - Cardinality(pageFile)

MallocFails(n) ==
  /\ Running
  /\ Place(n) = Null
  /\ ret' = Null
  /\ empty' = EmptyNow /\ startAddress' = StartNow /\ size' = SizeNow
  /\ isUserHeapEmpty' = FALSE
  /\ UNCHANGED <<caller, lastAllocatedUHpage, pageFile, others, strategy>>

(* Fault: the size is written to the first page of the block only.         *)
FaultyMallocReturns(n) ==
  LET s == Place(n) IN
  /\ Running
  /\ s # Null
  /\ n <= Left
  /\ pageFile' = pageFile \union Window(s, n)
  /\ empty' = EmptyNow \ Window(s, n)
  /\ startAddress' = [p \in Pages |-> IF p \in Window(s, n) THEN s ELSE StartNow[p]]
  /\ size' = [p \in Pages |-> IF n > 0 /\ p = s THEN n ELSE SizeNow[p]]
  /\ isUserHeapEmpty' = FALSE
  /\ lastAllocatedUHpage' = s + n
  /\ ret' = s
  /\ UNCHANGED <<caller, others, strategy>>

(* malloc of n pages once the size is rounded up; n = 0 stands for a size  *)
(* of 0 and for the sizes that wrap to it.  Best fit grants it the address *)
(* of a hole.                                                              *)
MallocReturns(n) ==
  LET s == Place(n) IN
  /\ Running
  /\ s # Null
  /\ n <= Left
  /\ pageFile' = pageFile \union Window(s, n)
  /\ empty' = EmptyNow \ Window(s, n)
  /\ startAddress' = [p \in Pages |-> IF p \in Window(s, n) THEN s ELSE StartNow[p]]
  /\ size' = [p \in Pages |-> IF p \in Window(s, n) THEN n ELSE SizeNow[p]]
  /\ isUserHeapEmpty' = FALSE
  /\ lastAllocatedUHpage' = s + n
  /\ ret' = s
  /\ UNCHANGED <<caller, others, strategy>>

(* allocateMem adds page after page, tests what the last addition said and *)
(* panics: the pages added stay in the page file and the array knows       *)
(* nothing of them.  With no page to add it tests an uninitialised value.  *)
MallocPanics(n) ==
  LET s == Place(n) IN
  /\ Running
  /\ s # Null
  /\ n > Left \/ n = 0
  /\ pageFile' = pageFile \union Window(s, Min({n, Left}))
  /\ empty' = EmptyNow /\ startAddress' = StartNow /\ size' = SizeNow
  /\ isUserHeapEmpty' = FALSE
  /\ ret' = Panic
  /\ UNCHANGED <<caller, lastAllocatedUHpage, others, strategy>>

Malloc(n) == MallocFails(n) \/ MallocReturns(n) \/ MallocPanics(n)

(* Fault: the page the address is in stays in the page file.               *)
FaultyFree(va) ==
  LET run == Window(va, size[va]) IN
  /\ Running
  /\ caller = "careful" => va \in empty \/ isUserHeapEmpty \/ startAddress[va] = va
  /\ run \subseteq Pages
  /\ pageFile' = pageFile \ (run \ {va})
  /\ empty' = empty \union run
  /\ startAddress' = [p \in Pages |-> IF p \in run THEN p ELSE startAddress[p]]
  /\ size' = [p \in Pages |-> IF p \in run THEN 0 ELSE size[p]]
  /\ UNCHANGED <<caller, lastAllocatedUHpage, isUserHeapEmpty, others, strategy, ret>>

(* free takes the size from the page it is given, wherever in its block    *)
(* that page is, and frees as many pages from there on.  A careful caller  *)
(* gives the address of a block, or one that is free already.  The second  *)
(* conjunct leaves out the calls that would write past the array.          *)
Free(va) ==
  LET run == Window(va, size[va]) IN
  /\ Running
  /\ caller = "careful" => va \in empty \/ isUserHeapEmpty \/ startAddress[va] = va
  /\ run \subseteq Pages
  /\ pageFile' = pageFile \ run
  /\ empty' = empty \union run
  /\ startAddress' = [p \in Pages |-> IF p \in run THEN p ELSE startAddress[p]]
  /\ size' = [p \in Pages |-> IF p \in run THEN 0 ELSE size[p]]
  /\ UNCHANGED <<caller, lastAllocatedUHpage, isUserHeapEmpty, others, strategy, ret>>

(* The command uhbestfit and its like.                                     *)
SetStrategy(s) ==
  /\ strategy' = s
  /\ UNCHANGED <<caller, pageArray, lastAllocatedUHpage, pageFile, others, ret>>

OthersTake ==
  /\ Left > 0
  /\ others' = others + 1
  /\ UNCHANGED <<caller, pageArray, lastAllocatedUHpage, pageFile, strategy, ret>>

OthersGiveBack ==
  /\ others > 0
  /\ others' = others - 1
  /\ UNCHANGED <<caller, pageArray, lastAllocatedUHpage, pageFile, strategy, ret>>

Next ==
  \/ \E n \in 0 .. N : Malloc(n)
  \/ \E va \in Pages : Free(va)
  \/ \E s \in Strategies : SetStrategy(s)
  \/ OthersTake
  \/ OthersGiveBack

Spec == Init /\ [][Next]_vars
-----------------------------------------------------------------------------
InUse(p) == ~isUserHeapEmpty /\ p \notin empty

TypeOK ==
  /\ caller \in Callers
  /\ empty \subseteq Pages
  /\ startAddress \in [Pages -> Pages \union {Null}]
  /\ size \in [Pages -> 0 .. N]
  /\ lastAllocatedUHpage \in 0 .. N
  /\ isUserHeapEmpty \in BOOLEAN
  /\ pageFile \subseteq Pages
  /\ others \in 0 .. Room
  /\ strategy \in Strategies
  /\ ret \in Pages \union {Null, NoCall, Panic}

(* The process's array and the kernel's page file agree on which pages of  *)
(* the heap exist, whatever addresses were freed: a page in use with no    *)
(* copy in the page file would kill the process at its next fault, a copy  *)
(* of a free page would never be reclaimed.  Only a panic part of the way  *)
(* leaves copies behind.                                                   *)
UsedPagesAreBacked ==
  /\ \A p \in Pages : InUse(p) => p \in pageFile
  /\ Running => \A p \in pageFile : InUse(p)

(* A page knows its block: it lies in the range its entry gives, and with  *)
(* a careful caller every page of that range is in use and says the same,  *)
(* so that one free releases all of a block and nothing else.              *)
BlocksAreWhole ==
  \A p \in Pages : InUse(p) =>
    LET s == startAddress[p]
        block == Window(s, size[p])
    IN  /\ p \in block
        /\ caller = "careful" =>
             /\ block \subseteq Pages
             /\ \A q \in block : InUse(q) /\ startAddress[q] = s /\ size[q] = size[p]

(* malloc and free keep the promise of AbsHeap to a process that frees     *)
(* only what it was given, under either strategy and however the page file *)
(* fills up in between.  A careless caller is promised nothing.            *)
Careful == caller = "careful"
owner == [p \in Pages |-> IF Careful /\ InUse(p) THEN startAddress[p] ELSE Null]

Abs == INSTANCE AbsHeap WITH owner <- owner, ret <- IF Careful THEN ret ELSE NoCall
AbsSpec == Abs!Spec
=============================================================================
