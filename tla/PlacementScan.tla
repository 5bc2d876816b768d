--------------------------- MODULE PlacementScan ---------------------------
(***************************************************************************)
(* The loops of nextFit, bestFit and getStartAddress (kheap.c), one page   *)
(* of the heap per step, over an arbitrary heap.  The page array does not  *)
(* change while a search runs, so the searches are checked on every set of *)
(* free pages, not only on those kmalloc and kfree can leave behind.       *)
(***************************************************************************)
EXTENDS Placement

VARIABLES
  empty,        \* pages whose isEmpty is 1
  last,         \* lastAllocatedKHpage
  n,            \* pages requested
  strategy,     \* which of the two searches kmalloc called
  pc,           \* "ahead", "behind": the two calls of getStartAddress; "best"; "done"
  start,        \* the page the loop looks at
  freeSize,     \* getStartAddress: length of the run that ends here
  block,        \* bestFit: the run being counted, [at, frames]
  bestLocation, \* bestFit: the best run so far
  result        \* the page returned, Null for 0

heap == <<empty, last, n, strategy>>
vars == <<empty, last, n, strategy, pc, start, freeSize, block, bestLocation, result>>

(* maxKernelHeapPages counts one page more than the heap has.              *)
maxKernelHeapPages == N + 1

Init ==
  /\ empty \in SUBSET Pages
  /\ last \in 0 .. N
  /\ n \in 0 .. N+1
  /\ \/ strategy = "NEXTFIT" /\ pc = "ahead" /\ start = last
     \/ strategy = "BESTFIT" /\ pc = "best"  /\ start = 0
  /\ freeSize = 0
  /\ block = [at |-> Null, frames |-> -1]
  /\ bestLocation = [at |-> Null, frames |-> maxKernelHeapPages]
  /\ result = Null

(* One iteration of getStartAddress's loop: a free page makes the run      *)
(* longer and the search ends when the run has the size asked for.         *)
Found == start \in empty /\ freeSize + 1 = n

ScanEnd == IF pc = "ahead" THEN N ELSE last

ScanPage ==
  /\ pc \in {"ahead", "behind"}
  /\ start < ScanEnd
  /\ IF Found
       THEN /\ pc' = "done"
            /\ result' = start + 1 - n
            /\ UNCHANGED <<start, freeSize>>
       ELSE /\ start' = start + 1
            /\ freeSize' = IF start \in empty THEN freeSize + 1 ELSE 0
            /\ UNCHANGED <<pc, result>>
  /\ UNCHANGED <<heap, block, bestLocation>>

(* Fault: the run length is carried from the end of the heap to its start. *)
ScanMissesCarriesRun ==
  /\ pc \in {"ahead", "behind"}
  /\ start >= ScanEnd
  /\ pc' = IF pc = "ahead" THEN "behind" ELSE "done"
  /\ start' = 0
  /\ UNCHANGED <<heap, freeSize, block, bestLocation, result>>

(* Fault: next fit goes round the heap until a block turns up.             *)
ScanMissesGoesRound ==
  /\ pc \in {"ahead", "behind"}
  /\ start >= ScanEnd
  /\ pc' = IF pc = "ahead" THEN "behind" ELSE "ahead"
  /\ start' = 0
  /\ freeSize' = 0
  /\ UNCHANGED <<heap, block, bestLocation, result>>

(* getStartAddress returns 0: nextFit starts its second call, with a run   *)
(* length of its own, or gives up.                                         *)
ScanMisses ==
  /\ pc \in {"ahead", "behind"}
  /\ start >= ScanEnd
  /\ pc' = IF pc = "ahead" THEN "behind" ELSE "done"
  /\ start' = 0
  /\ freeSize' = 0
  /\ UNCHANGED <<heap, block, bestLocation, result>>

(* Fault: of runs of the same size the last is kept.                       *)
BetterLast(b, best) == IF b.frames >= n /\ best.frames >= b.frames THEN b ELSE best

(* bestFit keeps a run when it is large enough and strictly smaller than   *)
(* the one it has.                                                         *)
Better(b, best) == IF b.frames >= n /\ best.frames > b.frames THEN b ELSE best

BestFitPage ==
  /\ pc = "best"
  /\ start < N
  /\ start' = start + 1
  /\ IF start \in empty
       THEN /\ block' = [at     |-> IF block.frames = -1 THEN start ELSE block.at,
                         frames |-> IF block.frames = -1 THEN 1 ELSE block.frames + 1]
            /\ UNCHANGED bestLocation
       ELSE /\ bestLocation' = Better(block, bestLocation)
            /\ block' = [block EXCEPT !.frames = -1]
  /\ UNCHANGED <<heap, pc, freeSize, result>>

(* After the loop the run that reaches the end is compared too; the test   *)
(* that decides between the location found and 0 looks at that run.        *)
BestFitReturn ==
  /\ pc = "best"
  /\ start = N
  /\ bestLocation' = Better(block, bestLocation)
  /\ result' = IF block.frames < n THEN Null ELSE bestLocation'.at
  /\ pc' = "done"
  /\ UNCHANGED <<heap, start, freeSize, block>>

Next == ScanPage \/ ScanMisses \/ BestFitPage \/ BestFitReturn

(* The loops run in the kernel with interrupts off: nothing stops them.    *)
Spec == Init /\ [][Next]_vars /\ WF_vars(Next)

-----------------------------------------------------------------------------
(* The two loops of nextFit find the block Placement says they find: the   *)
(* lowest one ahead of the rover, and only if there is none the lowest one *)
(* behind it.  A run counted across the rover, a run length carried from   *)
(* one call to the next or an off-by-one in the start of the run found     *)
(* would differ (kheap.c:26-55).                                           *)
NextFitScanIsNextFit ==
  pc = "done" /\ strategy = "NEXTFIT" => result = nextFit(empty, last, n)

(* bestFit's single pass, which compares a hole only when the page after   *)
(* it is in use and the last hole after the loop, finds the first of the   *)
(* smallest holes that are large enough, provided the hole at the end of   *)
(* the heap is large enough (kheap.c:61-95).                               *)
BestFitScanIsBestFit ==
  pc = "done" /\ strategy = "BESTFIT" => result = bestFit(empty, n)

(* Every search ends, whatever the heap, the rover and the size, the sizes *)
(* 0 and N+1 included: kmalloc runs with interrupts off, so a search that  *)
(* did not end would stop the machine.                                     *)
SearchEnds == <>(pc = "done")

=============================================================================
