---------------------------- MODULE KHeapProofs ----------------------------
(***************************************************************************)
(* The kernel heap, for every number of pages and frames: its blocks stay  *)
(* whole, every frame stays accounted for, live blocks are undisturbed and *)
(* the heap implements AbsHeap.                                            *)
(*                                                                         *)
(* And the page tables that live in it (KernelTables), for every number of *)
(* environments and slots: the processor finds the kernel's mappings, each *)
(* table is apart from everything else, and the machine stops for want of  *)
(* a table only.                                                           *)
(***************************************************************************)
EXTENDS KernelTables, PlacementProofs

USE NAssumption, NoFrameAssumption DEF Pages, Null, Window

(* Before the first kmalloc the page array is all zeroes.                  *)
BootState ==
  isKHpageEmpty => empty = {} /\ startAddress = [p \in Pages |-> Null]

(* The inductive invariant.  BlocksAreContiguous alone is not inductive:   *)
(* that kmalloc takes only free pages needs empty to be a set of pages,    *)
(* and that it takes no frame twice needs the free frames to be unmapped.  *)
Inv == TypeOK /\ BootState /\ BlocksAreContiguous /\ FramesAccountedFor

(* A run of free pages at which n frames can be mapped.                    *)
Room(s, n) == s \in Pages /\ n \in Nat /\ IsRun(EmptyNow, s, n)

(* kmalloc's search returns 0 or such a run.                               *)
LEMMA PlaceFindsRoom ==
  ASSUME TypeOK, NEW n \in Nat, Place(n) # Null
  PROVE  Room(Place(n), n)
<1>1. EmptyNow \in SUBSET Pages /\ lastAllocatedKHpage \in 0 .. N
  BY DEF TypeOK, EmptyNow
<1>2. CASE strategy = "NEXTFIT"
  BY <1>1, <1>2, NextFitFindsRun DEF Place, Room, IsRun
<1>3. CASE strategy # "NEXTFIT"
  BY <1>1, <1>3, BestFitFindsRun DEF Place, Room, IsRun
<1> QED BY <1>2, <1>3

(* A shorter run from the same page is a run as well.                      *)
LEMMA RoomShrinks ==
  ASSUME TypeOK, NEW s, NEW n, Room(s, n), NEW k \in 0 .. n
  PROVE  Room(s, k)
BY DEF Room, IsRun

-----------------------------------------------------------------------------
(* Mapping pages in a run of free pages: the step every kmalloc that finds *)
(* room takes, whole or up to the panic.                                   *)

(* The pages of the run are in use afterwards, the others as before.       *)
LEMMA MapPagesInUse ==
  ASSUME Inv, NEW s, NEW n, Room(s, n), NEW f, MapPages(s, n, f)
  PROVE  /\ \A p \in Pages : InUse(p)' <=> InUse(p) \/ p \in Window(s, n)
         /\ \A p \in Window(s, n) : p \in Pages /\ ~InUse(p) /\ startAddress'[p] = s
         /\ \A p \in Pages : InUse(p) => startAddress'[p] = startAddress[p]
<1>1. /\ empty' = EmptyNow \ Window(s, n)
      /\ isKHpageEmpty' = FALSE
      /\ startAddress' = [p \in Pages |-> IF p \in Window(s, n) THEN s ELSE StartNow[p]]
  BY DEF MapPages
<1>2. Window(s, n) \subseteq EmptyNow /\ EmptyNow \subseteq Pages
  BY DEF Room, IsRun, Inv, TypeOK, EmptyNow
<1>3. \A p \in Pages : InUse(p) <=> p \notin EmptyNow
  BY DEF InUse, EmptyNow
<1>4. \A p \in Pages : InUse(p)' <=> p \notin empty'
  BY <1>1 DEF InUse
<1>5. \A p \in Pages : InUse(p) => StartNow[p] = startAddress[p]
  BY DEF InUse, StartNow
<1> HIDE DEF Window
<1> QED BY <1>1, <1>2, <1>3, <1>4, <1>5

LEMMA MapPagesContiguous ==
  ASSUME Inv, NEW s, NEW n, Room(s, n), NEW f, MapPages(s, n, f)
  PROVE  BlocksAreContiguous'
<1> SUFFICES ASSUME NEW p \in Pages, InUse(p)'
             PROVE  /\ startAddress'[p] \in 0 .. p
                    /\ \A q \in startAddress'[p] .. p :
                         InUse(q)' /\ startAddress'[q] = startAddress'[p]
  BY DEF BlocksAreContiguous
<1>1. s \in Pages /\ n \in Nat
  BY DEF Room
<1>2. CASE p \in Window(s, n)
  <2>1. startAddress'[p] = s /\ s \in 0 .. p
    BY <1>1, <1>2, MapPagesInUse
  <2>2. ASSUME NEW q \in s .. p PROVE q \in Window(s, n) /\ q \in Pages
    BY <1>1, <1>2
  <2> QED BY <2>1, <2>2, MapPagesInUse
<1>3. CASE p \notin Window(s, n)
  <2>1. InUse(p) /\ startAddress'[p] = startAddress[p]
    BY <1>3, MapPagesInUse
  <2>2. /\ startAddress[p] \in 0 .. p
        /\ \A q \in startAddress[p] .. p : InUse(q) /\ startAddress[q] = startAddress[p]
    BY <2>1 DEF Inv, BlocksAreContiguous
  <2>3. ASSUME NEW q \in startAddress[p] .. p
        PROVE  q \in Pages /\ InUse(q)' /\ startAddress'[q] = startAddress[p]
    <3>1. q \in Pages
      BY <2>2
    <3> QED BY <2>2, <3>1, MapPagesInUse
  <2> QED BY <2>1, <2>2, <2>3
<1> QED BY <1>2, <1>3

(* The frames taken were free, so they are neither held elsewhere nor      *)
(* mapped, and the entries written were 0, so no frame is given back.      *)
LEMMA MapPagesFrames ==
  ASSUME Inv, NEW s, NEW n, Room(s, n),
         NEW f \in Injection(Window(s, n), freeFrames), MapPages(s, n, f)
  PROVE  FramesAccountedFor'
<1> DEFINE W == Window(s, n)
<1> DEFINE taken == {f[p] : p \in W}
<1>1. /\ f \in [W -> freeFrames]
      /\ \A p, q \in W : f[p] = f[q] => p = q
  BY DEF Injection, IsInjective
<1>2. \A p \in W : p \in Pages /\ pte[p] = NoFrame
  BY MapPagesInUse DEF Inv, FramesAccountedFor, MappedWhenInUse
<1>3. /\ pte' = [p \in Pages |-> IF p \in W THEN f[p] ELSE pte[p]]
      /\ freeFrames' = (freeFrames \ taken) \cup ({pte[p] : p \in W} \ {NoFrame})
      /\ elsewhere' = elsewhere
  BY DEF MapPages
<1>4. /\ freeFrames \subseteq Frames /\ elsewhere \subseteq Frames
      /\ pte \in [Pages -> Frames \cup {NoFrame}]
  BY DEF Inv, TypeOK
<1>5. /\ freeFrames \cup elsewhere \cup HeapFrames = Frames
      /\ freeFrames \cap elsewhere = {}
      /\ (freeFrames \cup elsewhere) \cap HeapFrames = {}
  BY DEF Inv, FramesAccountedFor
<1>6. \A p, q \in Pages : pte[p] = pte[q] /\ pte[p] # NoFrame => p = q
  BY DEF Inv, FramesAccountedFor, OneFramePerPage
<1> HIDE DEF W, taken
<1>7. freeFrames' = freeFrames \ taken
  BY <1>2, <1>3
<1>8. taken \subseteq freeFrames
  BY <1>1 DEF taken
<1>9. \A p \in Pages : pte'[p] = IF p \in W THEN f[p] ELSE pte[p]
  BY <1>3
<1>10. HeapFrames' = HeapFrames \cup taken
  <2>1. ASSUME NEW x \in HeapFrames' PROVE x \in HeapFrames \cup taken
    <3>1. PICK p \in Pages : x = pte'[p] /\ x # NoFrame
      BY <2>1 DEF HeapFrames
    <3> QED BY <1>9, <3>1 DEF HeapFrames, taken
  <2>2. ASSUME NEW x \in HeapFrames PROVE x \in HeapFrames'
    <3>1. PICK p \in Pages : x = pte[p] /\ x # NoFrame
      BY <2>2 DEF HeapFrames
    <3>2. p \notin W
      BY <1>2, <3>1
    <3> QED BY <1>9, <3>1, <3>2 DEF HeapFrames
  <2>3. ASSUME NEW x \in taken PROVE x \in HeapFrames'
    <3>1. PICK p \in W : x = f[p]
      BY <2>3 DEF taken
    <3>2. x # NoFrame
      BY <1>4, <1>8, <2>3
    <3> QED BY <1>2, <1>9, <3>1, <3>2 DEF HeapFrames
  <2> QED BY <2>1, <2>2, <2>3
<1>11. OneFramePerPage'
  <2> SUFFICES ASSUME NEW p \in Pages, NEW q \in Pages,
                      pte'[p] = pte'[q], pte'[p] # NoFrame
               PROVE  p = q
    BY DEF OneFramePerPage
  <2>1. CASE p \in W /\ q \in W
    BY <1>1, <1>9, <2>1
  <2>2. CASE p \notin W /\ q \notin W
    BY <1>6, <1>9, <2>2
  <2>3. CASE p \in W /\ q \notin W
    <3>1. pte'[p] \in freeFrames /\ pte'[q] \in HeapFrames
      BY <1>1, <1>9, <2>3 DEF HeapFrames
    <3> QED BY <1>5, <3>1
  <2>4. CASE p \notin W /\ q \in W
    <3>1. pte'[q] \in freeFrames /\ pte'[p] \in HeapFrames
      BY <1>1, <1>9, <2>4 DEF HeapFrames
    <3> QED BY <1>5, <3>1
  <2> QED BY <2>1, <2>2, <2>3, <2>4
<1>12. MappedWhenInUse'
  <2> SUFFICES ASSUME NEW p \in Pages PROVE (pte'[p] # NoFrame) <=> InUse(p)'
    BY DEF MappedWhenInUse
  <2>1. InUse(p)' <=> InUse(p) \/ p \in W
    BY MapPagesInUse DEF W
  <2>2. (pte[p] # NoFrame) <=> InUse(p)
    BY DEF Inv, FramesAccountedFor, MappedWhenInUse
  <2>3. p \in W => f[p] # NoFrame
    BY <1>1, <1>4
  <2> QED BY <1>9, <2>1, <2>2, <2>3
<1>13. /\ freeFrames' \cup elsewhere' \cup HeapFrames' = Frames
       /\ freeFrames' \cap elsewhere' = {}
       /\ (freeFrames' \cup elsewhere') \cap HeapFrames' = {}
  BY <1>3, <1>5, <1>7, <1>8, <1>10
<1> QED BY <1>11, <1>12, <1>13 DEF FramesAccountedFor

(* All of it: a step that maps pages in a run of free pages keeps Inv.     *)
LEMMA MapPagesKeepsInv ==
  ASSUME Inv, NEW s, NEW n, Room(s, n),
         NEW f \in Injection(Window(s, n), freeFrames), MapPages(s, n, f),
         lastAllocatedKHpage' \in 0 .. N,
         ret' \in Pages \cup {Null, NoCall, Panic}
  PROVE  Inv'
<1>1. TypeOK'
  <2>1. f \in [Window(s, n) -> Frames] /\ s \in Pages
    BY DEF Injection, Inv, TypeOK, Room
  <2>2. EmptyNow \subseteq Pages /\ StartNow \in [Pages -> Pages \cup {Null}]
    BY DEF Inv, TypeOK, EmptyNow, StartNow
  <2>3. pte' \in [Pages -> Frames \cup {NoFrame}] /\ freeFrames' \subseteq Frames
    <3> HIDE DEF Window
    <3>1. Window(s, n) \subseteq Pages
      BY MapPagesInUse
    <3> QED BY <2>1, <3>1 DEF MapPages, Inv, TypeOK
  <2>4. startAddress' \in [Pages -> Pages \cup {Null}]
    BY <2>1, <2>2 DEF MapPages
  <2>5. empty' \subseteq Pages /\ isKHpageEmpty' \in BOOLEAN
    BY <2>2 DEF MapPages
  <2>6. elsewhere' \subseteq Frames /\ strategy' \in Strategies
    BY DEF MapPages, Inv, TypeOK
  <2> QED BY <2>3, <2>4, <2>5, <2>6 DEF TypeOK
<1>2. BootState'
  BY DEF BootState, MapPages
<1> QED BY <1>1, <1>2, MapPagesContiguous, MapPagesFrames DEF Inv

-----------------------------------------------------------------------------
(* kmalloc keeps the invariant.                                            *)

(* Initialising the page array changes no page's use.                      *)
LEMMA KmallocFailsKeepsInv ==
  ASSUME Inv, NEW n \in 0 .. N, KmallocFails(n)
  PROVE  Inv'
<1>1. /\ empty' = EmptyNow /\ startAddress' = StartNow /\ ~isKHpageEmpty'
      /\ UNCHANGED <<lastAllocatedKHpage, pte, freeFrames, elsewhere, strategy>>
      /\ isKHpageEmpty' = FALSE /\ ret' = Null
  BY DEF KmallocFails
<1>2. \A p \in Pages : /\ InUse(p)' <=> InUse(p)
                       /\ InUse(p) => startAddress'[p] = startAddress[p]
  BY <1>1 DEF InUse, EmptyNow, StartNow
<1>3. TypeOK'
  BY <1>1 DEF Inv, TypeOK, EmptyNow, StartNow
<1>4. BlocksAreContiguous'
  <2> SUFFICES ASSUME NEW p \in Pages, InUse(p)'
               PROVE  /\ startAddress'[p] \in 0 .. p
                      /\ \A q \in startAddress'[p] .. p :
                           InUse(q)' /\ startAddress'[q] = startAddress'[p]
    BY DEF BlocksAreContiguous
  <2>1. /\ startAddress'[p] = startAddress[p] /\ startAddress[p] \in 0 .. p
        /\ \A q \in startAddress[p] .. p : InUse(q) /\ startAddress[q] = startAddress[p]
    BY <1>2 DEF Inv, BlocksAreContiguous
  <2>2. \A q \in startAddress[p] .. p : q \in Pages
    BY <2>1
  <2> QED BY <1>2, <2>1, <2>2
<1>5. FramesAccountedFor'
  BY <1>1, <1>2 DEF Inv, FramesAccountedFor, HeapFrames, MappedWhenInUse, OneFramePerPage
<1>6. BootState'
  BY <1>1 DEF BootState
<1> QED BY <1>3, <1>4, <1>5, <1>6 DEF Inv

LEMMA KmallocReturnsKeepsInv ==
  ASSUME Inv, NEW n \in 0 .. N, KmallocReturns(n)
  PROVE  Inv'
<1>1. Room(Place(n), n)
  BY PlaceFindsRoom DEF KmallocReturns, Inv
<1>2. PICK f \in Injection(Window(Place(n), n), freeFrames) : MapPages(Place(n), n, f)
  BY DEF KmallocReturns
<1>3. lastAllocatedKHpage' \in 0 .. N /\ ret' \in Pages
  BY <1>1 DEF KmallocReturns, Room, IsRun
<1> QED BY <1>1, <1>2, <1>3, MapPagesKeepsInv

LEMMA KmallocPanicsKeepsInv ==
  ASSUME Inv, NEW n \in 0 .. N, KmallocPanics(n)
  PROVE  Inv'
<1>1. PICK k \in 0 .. n-1 :
        \E f \in Injection(Window(Place(n), k), freeFrames) : MapPages(Place(n), k, f)
  BY DEF KmallocPanics
<1>2. Room(Place(n), k)
  BY PlaceFindsRoom, RoomShrinks DEF KmallocPanics, Inv
<1>3. lastAllocatedKHpage' \in 0 .. N /\ ret' = Panic
  BY DEF KmallocPanics, Inv, TypeOK
<1> QED BY <1>1, <1>2, <1>3, MapPagesKeepsInv

-----------------------------------------------------------------------------
(* kfree.  Its walk from va collects the whole block that starts at va and *)
(* nothing else, because blocks are contiguous.                            *)
LEMMA BlockFromIsTheBlock ==
  ASSUME Inv, NEW va \in Pages
  PROVE  BlockFrom(va) = {p \in Pages : InUse(p) /\ startAddress[p] = va}
<1>1. ASSUME NEW p \in BlockFrom(va)
      PROVE  p \in Pages /\ InUse(p) /\ startAddress[p] = va
  <2>1. p \in Pages /\ p \notin empty /\ startAddress[p] = va
    BY DEF BlockFrom
  <2>2. ~isKHpageEmpty
    BY <2>1 DEF Inv, BootState
  <2> QED BY <2>1, <2>2 DEF InUse
<1>2. ASSUME NEW p \in Pages, InUse(p), startAddress[p] = va
      PROVE  p \in BlockFrom(va)
  <2>1. va \in 0 .. p /\ \A q \in va .. p : InUse(q) /\ startAddress[q] = va
    BY <1>2 DEF Inv, BlocksAreContiguous
  <2>2. p \in va .. N-1
    BY <2>1
  <2> QED BY <2>1, <2>2 DEF BlockFrom, InUse
<1> QED BY <1>1, <1>2

(* Giving back the pages of one block, or none, and with them some frames  *)
(* of the rest of the kernel.                                              *)
LEMMA GivingBackKeepsInv ==
  ASSUME Inv, NEW va, NEW run, NEW others \in SUBSET elsewhere,
         \A p : p \in run <=> p \in Pages /\ InUse(p) /\ startAddress[p] = va,
         pte' = [p \in Pages |-> IF p \in run THEN NoFrame ELSE pte[p]],
         freeFrames' = freeFrames \cup others \cup ({pte[p] : p \in run} \ {NoFrame}),
         elsewhere' = elsewhere \ others,
         startAddress' = [p \in Pages |-> IF p \in run THEN p ELSE startAddress[p]],
         empty' = empty \cup run,
         UNCHANGED <<lastAllocatedKHpage, isKHpageEmpty, strategy, ret>>
  PROVE  Inv'
<1> DEFINE freed == {pte[p] : p \in run} \ {NoFrame}
<1>1. \A p : p \in run <=> p \in Pages /\ InUse(p) /\ startAddress[p] = va
  OBVIOUS
<1>2. /\ pte' = [p \in Pages |-> IF p \in run THEN NoFrame ELSE pte[p]]
      /\ freeFrames' = freeFrames \cup others \cup freed
      /\ elsewhere' = elsewhere \ others
      /\ startAddress' = [p \in Pages |-> IF p \in run THEN p ELSE startAddress[p]]
      /\ empty' = empty \cup run
      /\ UNCHANGED <<lastAllocatedKHpage, isKHpageEmpty, strategy, ret>>
  OBVIOUS
<1> HIDE DEF freed
<1>3. TypeOK
  BY DEF Inv
<1>4. freed \subseteq HeapFrames
  BY <1>1 DEF freed, HeapFrames
<1>5. HeapFrames \subseteq Frames
  BY <1>3 DEF HeapFrames, TypeOK
<1>6. TypeOK'
  <2>1. startAddress' \in [Pages -> Pages \cup {Null}]
    BY <1>1, <1>2, <1>3 DEF TypeOK
  <2>2. pte' \in [Pages -> Frames \cup {NoFrame}]
    BY <1>2, <1>3 DEF TypeOK
  <2>3. empty' \subseteq Pages /\ freeFrames' \subseteq Frames
    BY <1>1, <1>2, <1>3, <1>4, <1>5 DEF TypeOK
  <2> QED BY <1>2, <1>3, <2>1, <2>2, <2>3 DEF TypeOK
<1>7. \A p \in Pages : InUse(p)' <=> InUse(p) /\ p \notin run
  BY <1>2 DEF InUse
<1>8. \A p \in Pages : p \notin run => /\ startAddress'[p] = startAddress[p]
                                       /\ pte'[p] = pte[p]
  BY <1>2
<1>9. \A p \in Pages : p \in run => pte'[p] = NoFrame
  BY <1>2
<1>10. BootState'
  <2> SUFFICES ASSUME isKHpageEmpty PROVE run = {}
    BY <1>2 DEF Inv, BootState, TypeOK
  <2> QED BY <1>1 DEF InUse
<1>11. BlocksAreContiguous'
  <2> SUFFICES ASSUME NEW p \in Pages, InUse(p)'
               PROVE  /\ startAddress'[p] \in 0 .. p
                      /\ \A q \in startAddress'[p] .. p :
                           InUse(q)' /\ startAddress'[q] = startAddress'[p]
    BY DEF BlocksAreContiguous
  <2>1. InUse(p) /\ p \notin run /\ startAddress'[p] = startAddress[p] /\ startAddress[p] # va
    BY <1>1, <1>7, <1>8
  <2>2. /\ startAddress[p] \in 0 .. p
        /\ \A q \in startAddress[p] .. p : InUse(q) /\ startAddress[q] = startAddress[p]
    BY <2>1 DEF Inv, BlocksAreContiguous
  <2>3. \A q \in startAddress[p] .. p : q \in Pages /\ q \notin run
    BY <1>1, <2>1, <2>2
  <2> QED BY <1>7, <1>8, <2>1, <2>2, <2>3
<1>12. FramesAccountedFor'
  <2>1. /\ freeFrames \cup elsewhere \cup HeapFrames = Frames
        /\ freeFrames \cap elsewhere = {}
        /\ (freeFrames \cup elsewhere) \cap HeapFrames = {}
    BY DEF Inv, FramesAccountedFor
  <2>2. \A p, q \in Pages : pte[p] = pte[q] /\ pte[p] # NoFrame => p = q
    BY DEF Inv, FramesAccountedFor, OneFramePerPage
  <2>3. HeapFrames' = HeapFrames \ freed
    <3>1. ASSUME NEW x \in HeapFrames' PROVE x \in HeapFrames /\ x \notin freed
      <4>1. PICK p \in Pages : x = pte'[p] /\ x # NoFrame
        BY <3>1 DEF HeapFrames
      <4>2. p \notin run /\ x = pte[p]
        BY <1>8, <1>9, <4>1
      <4> QED BY <1>1, <2>2, <4>1, <4>2 DEF HeapFrames, freed
    <3>2. ASSUME NEW x \in HeapFrames, x \notin freed PROVE x \in HeapFrames'
      <4>1. PICK p \in Pages : x = pte[p] /\ x # NoFrame
        BY <3>2 DEF HeapFrames
      <4>2. p \notin run
        BY <3>2, <4>1 DEF freed
      <4> QED BY <1>8, <4>1, <4>2 DEF HeapFrames
    <3> QED BY <3>1, <3>2
  <2>4. /\ freeFrames' \cup elsewhere' \cup HeapFrames' = Frames
        /\ freeFrames' \cap elsewhere' = {}
        /\ (freeFrames' \cup elsewhere') \cap HeapFrames' = {}
    BY <1>2, <1>4, <2>1, <2>3
  <2>5. OneFramePerPage'
    BY <1>8, <1>9, <2>2 DEF OneFramePerPage
  <2>6. MappedWhenInUse'
    <3> SUFFICES ASSUME NEW p \in Pages PROVE (pte'[p] # NoFrame) <=> InUse(p)'
      BY DEF MappedWhenInUse
    <3>1. (pte[p] # NoFrame) <=> InUse(p)
      BY DEF Inv, FramesAccountedFor, MappedWhenInUse
    <3> QED BY <1>7, <1>8, <1>9, <3>1
  <2> QED BY <2>4, <2>5, <2>6 DEF FramesAccountedFor
<1> QED BY <1>6, <1>10, <1>11, <1>12 DEF Inv

LEMMA KfreeKeepsInv ==
  ASSUME Inv, NEW va \in Pages, Kfree(va)
  PROVE  Inv'
<1> DEFINE run == BlockFrom(va)
<1>1. \A p : p \in run <=> p \in Pages /\ InUse(p) /\ startAddress[p] = va
  BY BlockFromIsTheBlock
<1>2. /\ pte' = [p \in Pages |-> IF p \in run THEN NoFrame ELSE pte[p]]
      /\ freeFrames' = freeFrames \cup {} \cup ({pte[p] : p \in run} \ {NoFrame})
      /\ elsewhere' = elsewhere \ {}
      /\ startAddress' = [p \in Pages |-> IF p \in run THEN p ELSE startAddress[p]]
      /\ empty' = empty \cup run
      /\ UNCHANGED <<lastAllocatedKHpage, isKHpageEmpty, strategy, ret>>
  BY DEF Kfree
<1>3. {} \in SUBSET elsewhere
  OBVIOUS
<1> HIDE DEF run
<1> QED BY <1>1, <1>2, <1>3, GivingBackKeepsInv

-----------------------------------------------------------------------------
(* The steps that leave the page array and the page tables alone.          *)
HeapUnchanged == UNCHANGED <<empty, startAddress, isKHpageEmpty, pte>>

LEMMA HeapUnchangedKeepsBlocks ==
  ASSUME Inv, HeapUnchanged
  PROVE  BootState' /\ BlocksAreContiguous' /\ MappedWhenInUse' /\ OneFramePerPage'
         /\ HeapFrames' = HeapFrames
<1>1. \A p \in Pages : InUse(p)' <=> InUse(p)
  BY DEF HeapUnchanged, InUse
<1>2. BlocksAreContiguous'
  BY DEF HeapUnchanged, Inv, BlocksAreContiguous, InUse
<1>3. MappedWhenInUse' /\ OneFramePerPage'
  BY <1>1 DEF HeapUnchanged, Inv, FramesAccountedFor, MappedWhenInUse, OneFramePerPage
<1>4. BootState' /\ HeapFrames' = HeapFrames
  BY DEF HeapUnchanged, Inv, BootState, HeapFrames
<1> QED BY <1>2, <1>3, <1>4

LEMMA OtherStepsKeepInv ==
  ASSUME Inv, \/ \E s \in Strategies : SetStrategy(s)
              \/ \E f \in Frames : AllocateFrame(f) \/ FreeFrame(f)
              \/ UNCHANGED vars
  PROVE  Inv'
<1>1. HeapUnchanged
  BY DEF HeapUnchanged, SetStrategy, AllocateFrame, FreeFrame, vars, pageArray
<1>2. BootState' /\ BlocksAreContiguous' /\ MappedWhenInUse' /\ OneFramePerPage'
      /\ HeapFrames' = HeapFrames
  BY <1>1, HeapUnchangedKeepsBlocks
<1>3. TypeOK'
  BY DEF Inv, TypeOK, SetStrategy, AllocateFrame, FreeFrame, vars, pageArray
<1>4. /\ freeFrames' \cup elsewhere' \cup HeapFrames' = Frames
      /\ freeFrames' \cap elsewhere' = {}
      /\ (freeFrames' \cup elsewhere') \cap HeapFrames' = {}
  BY <1>2 DEF Inv, FramesAccountedFor, SetStrategy, AllocateFrame, FreeFrame, vars
<1> QED BY <1>2, <1>3, <1>4 DEF Inv, FramesAccountedFor

LEMMA InitEstablishesInv == Init => Inv
<1> SUFFICES ASSUME Init PROVE Inv
  OBVIOUS
<1>1. TypeOK /\ BootState
  BY DEF Init, TypeOK, BootState
<1>2. BlocksAreContiguous
  BY DEF Init, BlocksAreContiguous, InUse
<1>3. FramesAccountedFor
  <2>1. HeapFrames = {} /\ OneFramePerPage
    BY DEF Init, HeapFrames, OneFramePerPage
  <2>2. MappedWhenInUse
    BY DEF Init, MappedWhenInUse, InUse
  <2> QED BY <2>1, <2>2 DEF Init, FramesAccountedFor
<1> QED BY <1>1, <1>2, <1>3 DEF Inv

LEMMA NextKeepsInv == Inv /\ [Next]_vars => Inv'
<1> SUFFICES ASSUME Inv, [Next]_vars PROVE Inv'
  OBVIOUS
<1>1. ASSUME NEW n \in 0 .. N, Kmalloc(n) PROVE Inv'
  BY <1>1, KmallocFailsKeepsInv, KmallocReturnsKeepsInv, KmallocPanicsKeepsInv DEF Kmalloc
<1>2. ASSUME NEW va \in Pages, Kfree(va) PROVE Inv'
  BY <1>2, KfreeKeepsInv
<1> QED BY <1>1, <1>2, OtherStepsKeepInv DEF Next

(* The invariant holds in every state of every run of the heap.            *)
THEOREM HeapInvariant == Spec => []Inv
<1>1. Init => Inv
  BY InitEstablishesInv
<1>2. Inv /\ [Next]_vars => Inv'
  BY NextKeepsInv
<1> QED BY <1>1, <1>2, PTL DEF Spec

(* The types of all variables, for every heap and every set of frames.     *)
THEOREM TypeCorrect == Spec => []TypeOK
BY HeapInvariant, PTL DEF Inv

(* No call leaves a page in use that kfree cannot reach, an allocation cut *)
(* short by a panic included (kheap.c:124-138, 144-159).                   *)
THEOREM BlocksStayWhole == Spec => []BlocksAreContiguous
BY HeapInvariant, PTL DEF Inv

(* No frame is lost or mapped twice by kmalloc and kfree, whatever the     *)
(* rest of the kernel takes and gives back in between.                     *)
THEOREM NoFrameLost == Spec => []FramesAccountedFor
BY HeapInvariant, PTL DEF Inv

-----------------------------------------------------------------------------
(* Live blocks and address translation.                                    *)

LEMMA MapPagesLeavesLiveBlocks ==
  ASSUME Inv, NEW s, NEW n, Room(s, n), NEW f, MapPages(s, n, f),
         NEW p \in Pages, InUse(p)
  PROVE  pte'[p] = pte[p] /\ startAddress'[p] = startAddress[p]
<1>1. p \notin Window(s, n)
  BY MapPagesInUse
<1>2. pte'[p] = pte[p]
  BY <1>1 DEF MapPages
<1> QED BY <1>2, MapPagesInUse

(* A page in use before and after a step keeps its frame and its block.    *)
LEMMA StepLeavesLiveBlocks ==
  ASSUME Inv, [Next]_vars, NEW p \in Pages, InUse(p), InUse(p)'
  PROVE  pte'[p] = pte[p] /\ startAddress'[p] = startAddress[p]
<1>1. ASSUME NEW n \in 0 .. N, KmallocFails(n)
      PROVE  pte'[p] = pte[p] /\ startAddress'[p] = startAddress[p]
  BY <1>1 DEF KmallocFails, InUse, StartNow
<1>2. ASSUME NEW n \in 0 .. N, KmallocReturns(n)
      PROVE  pte'[p] = pte[p] /\ startAddress'[p] = startAddress[p]
  <2>1. Room(Place(n), n)
    BY <1>2, PlaceFindsRoom DEF KmallocReturns, Inv
  <2> QED BY <1>2, <2>1, MapPagesLeavesLiveBlocks DEF KmallocReturns
<1>3. ASSUME NEW n \in 0 .. N, KmallocPanics(n)
      PROVE  pte'[p] = pte[p] /\ startAddress'[p] = startAddress[p]
  <2>1. PICK k \in 0 .. n-1 : \E f : MapPages(Place(n), k, f)
    BY <1>3 DEF KmallocPanics
  <2>2. Room(Place(n), k)
    BY <1>3, PlaceFindsRoom, RoomShrinks DEF KmallocPanics, Inv
  <2> QED BY <2>1, <2>2, MapPagesLeavesLiveBlocks
<1>4. ASSUME NEW va \in Pages, Kfree(va)
      PROVE  pte'[p] = pte[p] /\ startAddress'[p] = startAddress[p]
  <2>1. p \notin BlockFrom(va)
    BY <1>4 DEF Kfree, InUse
  <2> QED BY <1>4, <2>1 DEF Kfree
<1>5. ASSUME \/ \E s \in Strategies : SetStrategy(s)
             \/ \E f \in Frames : AllocateFrame(f) \/ FreeFrame(f)
             \/ UNCHANGED vars
      PROVE  pte'[p] = pte[p] /\ startAddress'[p] = startAddress[p]
  BY <1>5 DEF SetStrategy, AllocateFrame, FreeFrame, vars, pageArray
<1> QED BY <1>1, <1>2, <1>3, <1>4, <1>5 DEF Next, Kmalloc

(* No call moves or remaps a page that stays in use.                       *)
THEOREM LiveBlocksStay == Spec => LiveBlocksUndisturbed
<1>1. Inv /\ [Next]_vars => [\A p \in Pages : InUse(p) /\ InUse(p)' =>
                               pte'[p] = pte[p] /\ startAddress'[p] = startAddress[p]]_vars
  BY StepLeavesLiveBlocks
<1> QED BY <1>1, HeapInvariant, PTL DEF Spec, LiveBlocksUndisturbed

(* Translating a page's address to its frame and back gives the page, for  *)
(* the pages below the rover: no other page has its frame.                 *)
THEOREM TranslationsAreInverse == Spec => []RoundTripBelowRover
<1>1. Inv => RoundTripBelowRover
  <2> SUFFICES ASSUME Inv, NEW p \in Pages, InUse(p), p <= lastAllocatedKHpage
               PROVE  kheap_virtual_address(pte[p]) = p
    BY DEF RoundTripBelowRover, kheap_physical_address
  <2> DEFINE hits == {q \in Pages : q <= lastAllocatedKHpage /\ pte[q] = pte[p]}
  <2>1. pte[p] # NoFrame
    BY DEF Inv, FramesAccountedFor, MappedWhenInUse
  <2>2. hits = {p}
    BY <2>1 DEF Inv, FramesAccountedFor, OneFramePerPage
  <2>3. Min(hits) \in hits
    <3>1. hits \in SUBSET Nat /\ hits # {}
      BY <2>2
    <3> HIDE DEF hits
    <3> QED BY <3>1, MinOfNaturals
  <2>4. kheap_virtual_address(pte[p]) = Min(hits)
    BY <2>2 DEF kheap_virtual_address
  <2> QED BY <2>2, <2>3, <2>4
<1> QED BY <1>1, HeapInvariant, PTL

-----------------------------------------------------------------------------
(* The heap implements AbsHeap.                                            *)

LEMMA OwnerType == Inv => owner \in [Pages -> Pages \cup {Null}]
BY DEF Inv, TypeOK, owner

(* A step that maps pages in a run of free pages takes them for a block.   *)
LEMMA MapPagesTakes ==
  ASSUME Inv, NEW s, NEW n, Room(s, n), NEW f, MapPages(s, n, f)
  PROVE  s \in Pages /\ Abs!Unowned(s, n) /\ Abs!Take(s, n)
<1>1. s \in Pages
  BY DEF Room
<1>2. \A p \in Window(s, n) : p \in Pages /\ owner[p] = Null
  BY MapPagesInUse DEF owner
<1>3. owner' = [p \in Pages |-> IF p \in Window(s, n) THEN s ELSE owner[p]]
  <2>1. owner' = [p \in Pages |-> IF InUse(p)' THEN startAddress'[p] ELSE Null]
    BY DEF owner
  <2>2. \A p \in Pages : (IF InUse(p)' THEN startAddress'[p] ELSE Null)
                         = (IF p \in Window(s, n) THEN s ELSE owner[p])
    <3> TAKE p \in Pages
    <3>1. CASE p \in Window(s, n)
      BY <3>1, MapPagesInUse
    <3>2. CASE p \notin Window(s, n)
      BY <3>2, MapPagesInUse DEF owner
    <3> QED BY <3>1, <3>2
  <2> HIDE DEF Window
  <2> QED BY <2>1, <2>2
<1> QED BY <1>1, <1>2, <1>3 DEF Abs!Unowned, Abs!Take, Abs!Window, Abs!Pages, Abs!Null

LEMMA SameOwners ==
  ASSUME \A p \in Pages : /\ InUse(p)' <=> InUse(p)
                          /\ InUse(p) => startAddress'[p] = startAddress[p]
  PROVE  owner' = owner
BY DEF owner

LEMMA StepImplementsAbs ==
  ASSUME Inv, [Next]_vars
  PROVE  [Abs!Next]_(Abs!vars)
<1>1. ASSUME NEW n \in 0 .. N, KmallocFails(n) PROVE Abs!Refuse
  <2>1. \A p \in Pages : /\ InUse(p)' <=> InUse(p)
                         /\ InUse(p) => startAddress'[p] = startAddress[p]
    BY <1>1 DEF KmallocFails, InUse, EmptyNow, StartNow
  <2> QED BY <1>1, <2>1, SameOwners DEF KmallocFails, Abs!Refuse, Abs!Null
<1>2. ASSUME NEW n \in 0 .. N, KmallocReturns(n) PROVE Abs!Grant(n)
  <2>1. Room(Place(n), n)
    BY <1>2, PlaceFindsRoom DEF KmallocReturns, Inv
  <2>2. PICK f : MapPages(Place(n), n, f)
    BY <1>2 DEF KmallocReturns
  <2>3. Place(n) \in Pages /\ Abs!Unowned(Place(n), n) /\ Abs!Take(Place(n), n)
    BY <2>1, <2>2, MapPagesTakes
  <2>4. ret' = Place(n)
    BY <1>2 DEF KmallocReturns
  <2> QED BY <2>3, <2>4 DEF Abs!Grant, Abs!Pages
<1>3. ASSUME NEW n \in 0 .. N, KmallocPanics(n) PROVE Abs!BreakOff(n)
  <2>1. PICK k \in 0 .. n-1 : \E f : MapPages(Place(n), k, f)
    BY <1>3 DEF KmallocPanics
  <2>2. Room(Place(n), k)
    BY <1>3, PlaceFindsRoom, RoomShrinks DEF KmallocPanics, Inv
  <2>3. Place(n) \in Pages /\ Abs!Unowned(Place(n), k) /\ Abs!Take(Place(n), k)
    BY <2>1, <2>2, MapPagesTakes
  <2>4. ret' = Panic
    BY <1>3 DEF KmallocPanics
  <2> QED BY <2>3, <2>4 DEF Abs!BreakOff, Abs!Pages, Abs!Panic, Panic
<1>4. ASSUME NEW va \in Pages, Kfree(va) PROVE Abs!Release(va)
  <2>1. \A p : p \in BlockFrom(va) <=> p \in Pages /\ InUse(p) /\ startAddress[p] = va
    BY BlockFromIsTheBlock
  <2>2. \A p \in Pages : /\ InUse(p)' <=> InUse(p) /\ p \notin BlockFrom(va)
                         /\ p \notin BlockFrom(va) => startAddress'[p] = startAddress[p]
    BY <1>4 DEF Kfree, InUse
  <2>3. \A p \in Pages : p \in BlockFrom(va) <=> owner[p] = va
    BY <2>1 DEF owner
  <2>4. owner' = [p \in Pages |-> IF InUse(p)' THEN startAddress'[p] ELSE Null]
    BY DEF owner
  <2>5. owner' = [p \in Pages |-> IF owner[p] = va THEN Null ELSE owner[p]]
    BY <2>2, <2>3, <2>4 DEF owner
  <2>6. ret' = ret
    BY <1>4 DEF Kfree
  <2> QED BY <2>5, <2>6 DEF Abs!Release, Abs!Pages, Abs!Null
<1>5. ASSUME \/ \E s \in Strategies : SetStrategy(s)
             \/ \E f \in Frames : AllocateFrame(f) \/ FreeFrame(f)
             \/ UNCHANGED vars
      PROVE  UNCHANGED Abs!vars
  <2>1. UNCHANGED <<empty, startAddress, isKHpageEmpty, ret>>
    BY <1>5 DEF SetStrategy, AllocateFrame, FreeFrame, vars, pageArray
  <2>2. owner' = owner
    BY <2>1, SameOwners DEF InUse
  <2> QED BY <2>1, <2>2 DEF Abs!vars
<1> QED BY <1>1, <1>2, <1>3, <1>4, <1>5 DEF Next, Kmalloc, Abs!Next, Abs!Pages

(* kmalloc and kfree implement the abstract heap: who owns a page changes  *)
(* only by an allocation of unowned pages or the release of a whole block. *)
THEOREM HeapImplementsAbs == Spec => AbsSpec
<1>1. Init => Abs!Init
  BY DEF Init, Abs!Init, owner, InUse, Abs!Pages, Abs!Null, Abs!NoCall, NoCall
<1>2. Inv /\ [Next]_vars => [Abs!Next]_(Abs!vars)
  BY StepImplementsAbs
<1> QED BY <1>1, <1>2, HeapInvariant, PTL DEF Spec, AbsSpec, Abs!Spec

-----------------------------------------------------------------------------
(* The page tables in the heap.                                            *)

(* What a directory entry's table is: a page of the heap that starts a     *)
(* block of its own, in the frame the entry has.                           *)
TableAt(d, p) ==
  /\ p \in Pages /\ InUse(p) /\ startAddress[p] = p /\ p \notin blocks
  /\ pte[p] = pde[d]
  /\ \A q \in Pages : InUse(q) /\ startAddress[q] = p => q = p

TablesTypeOK ==
  /\ pde \in [Entries -> Frames \cup {NoFrame}]
  /\ row \in [Frames -> [Slots -> Frames \cup {NoFrame}]]
  /\ seen \in [Entries -> [Slots -> Frames \cup {NoFrame}]]
  /\ blocks \subseteq Pages

TablesPlaced == \A d \in Entries : pde[d] # NoFrame => \E p \in Pages : TableAt(d, p)

(* No frame is the table of two entries, or mapped in two places.          *)
RowsApart ==
  /\ \A c, d \in Entries : pde[c] = pde[d] /\ pde[c] # NoFrame => c = d
  /\ \A d \in Entries, i \in Slots : Walk(d, i) # NoFrame => Walk(d, i) \in elsewhere
  /\ \A c, d \in Entries, i, j \in Slots :
       Walk(c, i) = Walk(d, j) /\ Walk(c, i) # NoFrame => c = d /\ i = j

BlocksHeld == \A b \in blocks : InUse(b) /\ startAddress[b] = b

HeapHeld ==
  \A p \in Pages : InUse(p) =>
    \/ startAddress[p] \in blocks \cup abandoned
    \/ \E d \in Entries : pde[d] # NoFrame /\ pde[d] = pte[startAddress[p]]

(* After an unmap_frame that missed its table, the processor may find more *)
(* than the kernel has mapped, but what the kernel has mapped it finds.    *)
SeenIsWalked ==
  \A d \in Entries, i \in Slots :
    /\ seen[d][i] \in {NoFrame, Walk(d, i)}
    /\ ~missed => seen[d][i] = Walk(d, i)

TablesInv ==
  /\ Inv
  /\ TablesTypeOK
  /\ TablesPlaced
  /\ RowsApart
  /\ BlocksHeld
  /\ HeapHeld
  /\ SeenIsWalked

(* The page that starts a block in use is in use and starts it.            *)
LEMMA BlockStart ==
  ASSUME Inv, NEW p \in Pages, InUse(p)
  PROVE  /\ startAddress[p] \in Pages /\ InUse(startAddress[p])
         /\ startAddress[startAddress[p]] = startAddress[p]
<1>1. /\ startAddress[p] \in 0 .. p
      /\ \A q \in startAddress[p] .. p : InUse(q) /\ startAddress[q] = startAddress[p]
  BY DEF Inv, BlocksAreContiguous
<1>2. startAddress[p] \in Pages /\ startAddress[p] \in startAddress[p] .. p
  BY <1>1
<1> QED BY <1>1, <1>2

(* A table's frame is neither free nor held by the rest of the kernel.     *)
LEMMA TableFrame ==
  ASSUME TablesInv, NEW d \in Entries, pde[d] # NoFrame
  PROVE  pde[d] \in Frames /\ pde[d] \notin freeFrames /\ pde[d] \notin elsewhere
<1>1. PICK p \in Pages : TableAt(d, p)
  BY DEF TablesInv, TablesPlaced
<1>2. pde[d] \in HeapFrames
  BY <1>1 DEF TableAt, HeapFrames
<1> QED BY <1>2 DEF TablesInv, TablesTypeOK, Inv, FramesAccountedFor

(* Where the search for a table ends with a page, it is the right one.     *)
LEMMA FoundIsTheTable ==
  ASSUME TablesInv, NEW d \in Entries, Found(d)
  PROVE  /\ pde[d] # NoFrame /\ TableRow(d) = pde[d]
         /\ get_page_table(d) \in Pages /\ TableAt(d, get_page_table(d))
<1> DEFINE hits == {p \in Pages : p <= lastAllocatedKHpage /\ pte[p] = pde[d]}
<1>1. pde[d] # NoFrame /\ get_page_table(d) = kheap_virtual_address(pde[d])
  BY DEF Found, get_page_table
<1>2. hits # {} /\ get_page_table(d) = Min(hits)
  BY <1>1 DEF Found, kheap_virtual_address
<1>3. hits \in SUBSET Nat
  OBVIOUS
<1>4. Min(hits) \in hits
  <2> HIDE DEF hits
  <2> QED BY <1>2, <1>3, MinOfNaturals
<1>5. get_page_table(d) \in Pages /\ pte[get_page_table(d)] = pde[d]
  BY <1>2, <1>4
<1>6. PICK p \in Pages : TableAt(d, p)
  BY <1>1 DEF TablesInv, TablesPlaced
<1>7. p = get_page_table(d)
  BY <1>1, <1>5, <1>6 DEF TableAt, TablesInv, Inv, FramesAccountedFor, OneFramePerPage
<1> QED BY <1>1, <1>5, <1>6, <1>7 DEF TableRow

(* Where it does not, the table lies above the rover.                      *)
LEMMA NotFoundIsAbove ==
  ASSUME TablesInv, NEW d \in Entries, pde[d] # NoFrame, ~Found(d)
  PROVE  \E p \in TablePages(d) : p > lastAllocatedKHpage
<1> DEFINE hits == {p \in Pages : p <= lastAllocatedKHpage /\ pte[p] = pde[d]}
<1>1. kheap_virtual_address(pde[d]) = Null
  BY DEF Found, get_page_table
<1>2. hits = {}
  <2> SUFFICES ASSUME hits # {} PROVE FALSE
    OBVIOUS
  <2>1. Min(hits) = Null
    BY <1>1 DEF kheap_virtual_address
  <2>2. hits \in SUBSET Nat
    OBVIOUS
  <2>3. Min(hits) \in Nat
    <3> HIDE DEF hits
    <3> QED BY <2>2, MinOfNaturals
  <2> QED BY <2>1, <2>3
<1>3. PICK p \in Pages : TableAt(d, p)
  BY DEF TablesInv, TablesPlaced
<1>4. p \in TablePages(d)
  BY <1>3 DEF TableAt, TablePages
<1>5. lastAllocatedKHpage \in Int /\ p \in Int
  BY DEF TablesInv, Inv, TypeOK
<1>6. ~(p <= lastAllocatedKHpage)
  BY <1>2, <1>3 DEF TableAt
<1> QED BY <1>4, <1>5, <1>6

-----------------------------------------------------------------------------
(* The invariant gives the properties.                                     *)
LEMMA TablesInvGives ==
  TablesInv => ProcessorSeesMappings /\ TablesStayApart /\ HeapIsOwned
<1> SUFFICES ASSUME TablesInv PROVE ProcessorSeesMappings /\ TablesStayApart /\ HeapIsOwned
  OBVIOUS
<1>1. ProcessorSeesMappings
  BY DEF TablesInv, SeenIsWalked, ProcessorSeesMappings
<1>2. ASSUME NEW d \in Entries, pde[d] # NoFrame
      PROVE  /\ \E p \in Pages : /\ TablePages(d) = {p}
                                 /\ BlockFrom(p) = {p} /\ p \notin blocks
             /\ pde[d] \notin freeFrames \cup elsewhere
             /\ \A c \in Entries \ {d} : pde[c] # pde[d]
             /\ \A i \in Slots : row[pde[d]][i] # NoFrame => row[pde[d]][i] \in elsewhere
  <2>1. PICK p \in Pages : TableAt(d, p)
    BY <1>2 DEF TablesInv, TablesPlaced
  <2>2. TablePages(d) = {p}
    BY <1>2, <2>1 DEF TableAt, TablePages, TablesInv, Inv, FramesAccountedFor, OneFramePerPage
  <2>3. BlockFrom(p) = {p}
    <3>1. BlockFrom(p) = {q \in Pages : InUse(q) /\ startAddress[q] = p}
      BY BlockFromIsTheBlock DEF TablesInv
    <3> QED BY <2>1, <3>1 DEF TableAt
  <2>4. p \notin blocks
    BY <2>1 DEF TableAt
  <2>5. \A i \in Slots : row[pde[d]][i] # NoFrame => row[pde[d]][i] \in elsewhere
    BY <1>2 DEF TablesInv, RowsApart, Walk
  <2>6. \A c \in Entries \ {d} : pde[c] # pde[d]
    BY <1>2 DEF TablesInv, RowsApart
  <2> QED BY <1>2, <2>2, <2>3, <2>4, <2>5, <2>6, TableFrame
<1>3. HeapIsOwned
  <2> SUFFICES ASSUME NEW p \in Pages, InUse(p)
               PROVE  startAddress[p] \in blocks \cup abandoned \cup UNION {TablePages(d) : d \in Entries}
    BY DEF HeapIsOwned
  <2>1. startAddress[p] \in Pages
    BY BlockStart DEF TablesInv
  <2>2. CASE \E d \in Entries : pde[d] # NoFrame /\ pde[d] = pte[startAddress[p]]
    BY <2>1, <2>2 DEF TablePages
  <2> QED BY <2>2 DEF TablesInv, HeapHeld
<1> QED BY <1>1, <1>2, <1>3 DEF TablesStayApart

-----------------------------------------------------------------------------
(* Steps of the heap under the tables.                                     *)

(* A block may be added: what was in use stays as it was, and the pages    *)
(* that are new belong to the block at s.                                  *)
BlockAdded(s) ==
  /\ \A p \in Pages : InUse(p) =>
       InUse(p)' /\ pte'[p] = pte[p] /\ startAddress'[p] = startAddress[p]
  /\ \A p \in Pages : InUse(p)' /\ ~InUse(p) =>
       s \in Pages /\ ~InUse(s) /\ startAddress'[p] = s
  /\ elsewhere' = elsewhere

LEMMA MapPagesAdds ==
  ASSUME Inv, NEW s, NEW n, Room(s, n), NEW f, MapPages(s, n, f)
  PROVE  BlockAdded(s)
<1>1. ASSUME NEW p \in Pages, InUse(p)
      PROVE  InUse(p)' /\ pte'[p] = pte[p] /\ startAddress'[p] = startAddress[p]
  BY <1>1, MapPagesInUse, MapPagesLeavesLiveBlocks
<1>2. ASSUME NEW p \in Pages, InUse(p)', ~InUse(p)
      PROVE  s \in Pages /\ ~InUse(s) /\ startAddress'[p] = s
  <2>1. p \in Window(s, n)
    BY <1>2, MapPagesInUse
  <2>2. s \in Pages /\ n \in Nat /\ s \in Window(s, n)
    BY <2>1 DEF Room
  <2> HIDE DEF Window
  <2> QED BY <2>1, <2>2, MapPagesInUse
<1>3. elsewhere' = elsewhere
  BY DEF MapPages
<1> QED BY <1>1, <1>2, <1>3 DEF BlockAdded

LEMMA KmallocFailsAdds ==
  ASSUME Inv, NEW n, KmallocFails(n), NEW s
  PROVE  BlockAdded(s) /\ \A p \in Pages : InUse(p)' <=> InUse(p)
BY DEF KmallocFails, BlockAdded, InUse, EmptyNow, StartNow

LEMMA KmallocReturnsAdds ==
  ASSUME Inv, NEW n \in 1 .. N, KmallocReturns(n)
  PROVE  \E s \in Pages : s = ret' /\ BlockAdded(s) /\ ~InUse(s) /\ InUse(s)'
<1>1. Room(Place(n), n) /\ ret' = Place(n)
  BY PlaceFindsRoom DEF KmallocReturns, Inv
<1>2. PICK s : s = Place(n)
  OBVIOUS
<1>3. PICK f : MapPages(s, n, f)
  BY <1>2 DEF KmallocReturns
<1>4. Room(s, n) /\ s = ret'
  BY <1>1, <1>2
<1>5. s \in Window(s, n)
  <2>1. s \in Int /\ n \in Int /\ n >= 1
    BY <1>4 DEF Room
  <2> QED BY <2>1
<1> HIDE DEF Window
<1>6. s \in Pages /\ ~InUse(s) /\ InUse(s)'
  BY <1>3, <1>4, <1>5, MapPagesInUse
<1> QED BY <1>3, <1>4, <1>6, MapPagesAdds

LEMMA KmallocPanicsAdds ==
  ASSUME Inv, NEW n \in 1 .. N, KmallocPanics(n)
  PROVE  /\ BlockAdded(Place(n))
         /\ \A p \in Pages : InUse(p)' /\ ~InUse(p) => Place(n) \in {Place(n)} \ empty'
         /\ Place(n) \in Pages
<1>1. PICK k \in 0 .. n-1 : \E f : MapPages(Place(n), k, f)
  BY DEF KmallocPanics
<1>2. Room(Place(n), k)
  BY PlaceFindsRoom, RoomShrinks DEF KmallocPanics, Inv
<1>3. PICK f : MapPages(Place(n), k, f)
  BY <1>1
<1>4. BlockAdded(Place(n))
  BY <1>2, <1>3, MapPagesAdds
<1>5. ASSUME NEW p \in Pages, InUse(p)', ~InUse(p) PROVE Place(n) \notin empty'
  <2>1. p \in Window(Place(n), k)
    BY <1>2, <1>3, <1>5, MapPagesInUse
  <2>2. Place(n) \in Window(Place(n), k)
    BY <1>2, <2>1 DEF Room
  <2> QED BY <1>3, <2>2 DEF MapPages
<1> QED BY <1>2, <1>4, <1>5 DEF Room

(* Blocks that are added to the ones held leave the tables alone.          *)
LEMMA BlockAddedKeepsTables ==
  ASSUME TablesInv, Inv', NEW s, BlockAdded(s), UNCHANGED <<tables, missed>>,
         \/ blocks' = blocks
         \/ blocks' = blocks \cup {s} /\ s \in Pages /\ ~InUse(s) /\ InUse(s)',
         abandoned \subseteq abandoned',
         \A p \in Pages : InUse(p)' /\ ~InUse(p) => s \in blocks' \cup abandoned'
  PROVE  TablesInv'
<1> USE DEF TablesInv
<1>1. UNCHANGED <<pde, row, seen, missed>> /\ elsewhere' = elsewhere
  BY DEF tables, BlockAdded
<1>2. TablesTypeOK'
  BY <1>1 DEF TablesTypeOK
<1>3. \A d, i : Walk(d, i)' = Walk(d, i)
  BY <1>1 DEF Walk
<1>4. TablesPlaced'
  <2> SUFFICES ASSUME NEW d \in Entries, pde[d] # NoFrame PROVE \E p \in Pages : TableAt(d, p)'
    BY <1>1 DEF TablesPlaced
  <2>1. PICK p \in Pages : TableAt(d, p)
    BY DEF TablesPlaced
  <2>2. InUse(p)' /\ pte'[p] = pde'[d] /\ startAddress'[p] = p /\ p \notin blocks'
    BY <1>1, <2>1 DEF TableAt, BlockAdded
  <2>3. ASSUME NEW q \in Pages, InUse(q)', startAddress'[q] = p PROVE q = p
    <3>1. CASE InUse(q)
      BY <2>1, <2>3, <3>1 DEF TableAt, BlockAdded
    <3>2. CASE ~InUse(q)
      BY <2>1, <2>3, <3>2 DEF TableAt, BlockAdded
    <3> QED BY <3>1, <3>2
  <2> QED BY <2>2, <2>3 DEF TableAt
<1>5. RowsApart'
  BY <1>1, <1>3 DEF RowsApart
<1>6. BlocksHeld'
  <2>1. ASSUME NEW b \in blocks PROVE InUse(b)' /\ startAddress'[b] = b
    BY DEF BlocksHeld, BlockAdded, TablesTypeOK
  <2>2. s \in Pages /\ ~InUse(s) /\ InUse(s)' => startAddress'[s] = s
    BY DEF BlockAdded
  <2> QED BY <2>1, <2>2 DEF BlocksHeld
<1>7. HeapHeld'
  <2> SUFFICES ASSUME NEW p \in Pages, InUse(p)'
               PROVE  \/ startAddress'[p] \in blocks' \cup abandoned'
                      \/ \E d \in Entries : pde[d] # NoFrame /\ pde[d] = pte'[startAddress'[p]]
    BY <1>1 DEF HeapHeld
  <2>1. CASE InUse(p)
    <3>1. startAddress'[p] = startAddress[p]
      BY <2>1 DEF BlockAdded
    <3>2. startAddress[p] \in Pages /\ InUse(startAddress[p])
      BY <2>1, BlockStart
    <3>3. pte'[startAddress[p]] = pte[startAddress[p]]
      BY <3>2 DEF BlockAdded
    <3> QED BY <2>1, <3>1, <3>3 DEF HeapHeld
  <2>2. CASE ~InUse(p)
    BY <2>2 DEF BlockAdded
  <2> QED BY <2>1, <2>2
<1>8. SeenIsWalked'
  BY <1>1, <1>3 DEF SeenIsWalked
<1>9. blocks' \subseteq Pages
  BY DEF TablesTypeOK
<1> QED BY <1>2, <1>4, <1>5, <1>6, <1>7, <1>8

LEMMA KernelAllocKeepsInv ==
  ASSUME TablesInv, NEW n \in 1 .. N, KernelAlloc(n)
  PROVE  TablesInv'
<1>1. n \in 0 .. N /\ Inv /\ UNCHANGED <<tables, missed>>
  BY DEF KernelAlloc, TablesInv
<1>2. CASE KmallocFails(n) /\ UNCHANGED owned
  <2>1. Inv'
    BY <1>1, <1>2, KmallocFailsKeepsInv
  <2>2. BlockAdded(Null) /\ \A p \in Pages : InUse(p)' <=> InUse(p)
    BY <1>1, <1>2, KmallocFailsAdds
  <2>3. blocks' = blocks /\ abandoned' = abandoned
    BY <1>2 DEF owned
  <2> QED BY <1>1, <2>1, <2>2, <2>3, BlockAddedKeepsTables
<1>3. CASE KmallocReturns(n) /\ blocks' = blocks \cup {ret'} /\ UNCHANGED abandoned
  <2>1. Inv'
    BY <1>1, <1>3, KmallocReturnsKeepsInv
  <2>2. PICK s \in Pages : s = ret' /\ BlockAdded(s) /\ ~InUse(s) /\ InUse(s)'
    BY <1>1, <1>3, KmallocReturnsAdds
  <2>3. blocks' = blocks \cup {s} /\ abandoned' = abandoned
    BY <1>3, <2>2
  <2>4. \A p \in Pages : InUse(p)' /\ ~InUse(p) => s \in blocks' \cup abandoned'
    BY <2>3
  <2> QED BY <1>1, <2>4, <2>1, <2>2, <2>3, BlockAddedKeepsTables
<1>4. CASE /\ KmallocPanics(n)
           /\ abandoned' = abandoned \cup ({Place(n)} \ empty')
           /\ UNCHANGED blocks
  <2>1. Inv'
    BY <1>1, <1>4, KmallocPanicsKeepsInv
  <2>2. PICK s : s = Place(n)
    OBVIOUS
  <2>3. BlockAdded(s) /\ \A p \in Pages : InUse(p)' /\ ~InUse(p) => s \in {s} \ empty'
    BY <1>1, <1>4, <2>2, KmallocPanicsAdds
  <2>4. blocks' = blocks /\ abandoned' = abandoned \cup ({s} \ empty')
    BY <1>4, <2>2
  <2>5. \A p \in Pages : InUse(p)' /\ ~InUse(p) => s \in blocks' \cup abandoned'
    BY <2>3, <2>4
  <2> QED BY <1>1, <2>4, <2>5, <2>1, <2>2, <2>3, BlockAddedKeepsTables
<1> QED BY <1>2, <1>3, <1>4 DEF KernelAlloc

(* A new table is a block of its own, and cleared.                         *)
LEMMA TableCreated ==
  ASSUME TablesInv, NEW d \in Entries, pde[d] = NoFrame,
         KmallocReturns(1),
         pde' = [pde EXCEPT ![d] = pte'[ret']],
         row' = Cleared(pte'[ret']),
         UNCHANGED <<seen, owned, missed>>
  PROVE  TablesInv'
<1> USE DEF TablesInv
<1>1. 1 \in 0 .. N /\ 1 \in 1 .. N
  OBVIOUS
<1>2. Inv'
  BY <1>1, KmallocReturnsKeepsInv
<1>3. PICK s : s = Place(1)
  OBVIOUS
<1>4. Room(s, 1) /\ s = ret'
  BY <1>1, <1>3, PlaceFindsRoom DEF KmallocReturns, Inv
<1>5. PICK f \in Injection(Window(s, 1), freeFrames) : MapPages(s, 1, f)
  BY <1>3 DEF KmallocReturns
<1>6. BlockAdded(s)
  BY <1>4, <1>5, MapPagesAdds
<1>7. s \in Pages /\ \A p \in Pages : p \in Window(s, 1) <=> p = s
  <2>1. s \in Pages
    BY <1>4 DEF Room
  <2>2. \A p \in Int : p \in Window(s, 1) <=> p = s
    BY <2>1
  <2> QED BY <2>1, <2>2
<1>8. s \in Window(s, 1)
  BY <1>7
<1> DEFINE g == pte'[s]
<1>9. g \in freeFrames /\ g \in Frames /\ g # NoFrame /\ g \notin elsewhere
  <2>1. g = f[s]
    BY <1>5, <1>7, <1>8 DEF MapPages
  <2>2. f[s] \in freeFrames
    BY <1>5, <1>8 DEF Injection
  <2> QED BY <2>1, <2>2 DEF Inv, TypeOK, FramesAccountedFor
<1>10. /\ pde' = [pde EXCEPT ![d] = g]
       /\ row' = [row EXCEPT ![g] = NoRow]
       /\ UNCHANGED <<seen, blocks, abandoned, missed>> /\ elsewhere' = elsewhere
  BY <1>4, <1>6 DEF Cleared, owned, BlockAdded
<1> HIDE DEF g, Window
<1>11. ~InUse(s) /\ InUse(s)' /\ startAddress'[s] = s
  BY <1>4, <1>5, <1>8, MapPagesInUse
<1>12. \A p \in Pages : InUse(p)' /\ ~InUse(p) => p = s
  BY <1>4, <1>5, <1>7, MapPagesInUse
<1>13. \A c \in Entries : c # d => pde'[c] = pde[c]
  BY <1>10 DEF TablesTypeOK
<1>14. pde'[d] = g
  BY <1>10 DEF TablesTypeOK
<1>15. \A c \in Entries : pde[c] # NoFrame => pde[c] # g
  BY <1>9, TableFrame
<1>16. NoRow \in [Slots -> Frames \cup {NoFrame}] /\ \A i \in Slots : NoRow[i] = NoFrame
  BY DEF NoRow
<1>17. TablesTypeOK'
  BY <1>9, <1>10, <1>16 DEF TablesTypeOK
<1>18. \A c \in Entries, i \in Slots : Walk(c, i)' = Walk(c, i)
  <2> TAKE c \in Entries, i \in Slots
  <2>1. CASE c = d
    <3>1. row'[g] = NoRow
      BY <1>9, <1>10 DEF TablesTypeOK
    <3> QED BY <1>14, <1>16, <2>1, <3>1 DEF Walk
  <2>2. CASE c # d /\ pde[c] # NoFrame
    <3>1. row'[pde[c]] = row[pde[c]]
      BY <1>10, <1>15, <2>2 DEF TablesTypeOK
    <3> QED BY <1>13, <2>2, <3>1 DEF Walk
  <2>3. CASE c # d /\ pde[c] = NoFrame
    BY <1>13, <2>3 DEF Walk
  <2> QED BY <2>1, <2>2, <2>3
<1>19. TablesPlaced'
  <2> SUFFICES ASSUME NEW c \in Entries, pde'[c] # NoFrame PROVE \E p \in Pages : TableAt(c, p)'
    BY DEF TablesPlaced
  <2>1. CASE c = d
    <3>1. ASSUME NEW q \in Pages, InUse(q)', startAddress'[q] = s PROVE q = s
      <4>1. CASE InUse(q)
        <5>1. startAddress[q] = s
          BY <1>6, <3>1, <4>1 DEF BlockAdded
        <5>2. InUse(s)
          BY <4>1, <5>1, BlockStart
        <5> QED BY <1>11, <5>2
      <4>2. CASE ~InUse(q)
        BY <1>12, <3>1, <4>2
      <4> QED BY <4>1, <4>2
    <3>2. s \notin blocks'
      BY <1>10, <1>11 DEF BlocksHeld
    <3>3. pte'[s] = pde'[c]
      BY <1>14, <2>1 DEF g
    <3> QED BY <1>7, <1>11, <3>1, <3>2, <3>3 DEF TableAt
  <2>2. CASE c # d
    <3>1. pde'[c] = pde[c] /\ pde[c] # NoFrame
      BY <1>13, <2>2
    <3>2. PICK p \in Pages : TableAt(c, p)
      BY <3>1 DEF TablesPlaced
    <3>3. InUse(p)' /\ pte'[p] = pde'[c] /\ startAddress'[p] = p /\ p \notin blocks'
      BY <1>6, <1>10, <3>1, <3>2 DEF TableAt, BlockAdded
    <3>4. ASSUME NEW q \in Pages, InUse(q)', startAddress'[q] = p PROVE q = p
      <4>1. CASE InUse(q)
        BY <1>6, <3>2, <3>4, <4>1 DEF TableAt, BlockAdded
      <4>2. CASE ~InUse(q)
        BY <1>6, <3>2, <3>4, <4>2 DEF TableAt, BlockAdded
      <4> QED BY <4>1, <4>2
    <3> QED BY <3>3, <3>4 DEF TableAt
  <2> QED BY <2>1, <2>2
<1>20. RowsApart'
  <2>1. \A c, e \in Entries : pde'[c] = pde'[e] /\ pde'[c] # NoFrame => c = e
    BY <1>9, <1>13, <1>14, <1>15 DEF RowsApart
  <2>2. \A c \in Entries, i \in Slots : Walk(c, i)' # NoFrame => Walk(c, i)' \in elsewhere'
    BY <1>10, <1>18 DEF RowsApart
  <2>3. \A c, e \in Entries, i, j \in Slots :
          Walk(c, i)' = Walk(e, j)' /\ Walk(c, i)' # NoFrame => c = e /\ i = j
    BY <1>18 DEF RowsApart
  <2> QED BY <2>1, <2>2, <2>3 DEF RowsApart
<1>21. BlocksHeld'
  BY <1>6, <1>10 DEF BlocksHeld, BlockAdded, TablesTypeOK
<1>22. HeapHeld'
  <2> SUFFICES ASSUME NEW p \in Pages, InUse(p)'
               PROVE  \/ startAddress'[p] \in blocks' \cup abandoned'
                      \/ \E c \in Entries : pde'[c] # NoFrame /\ pde'[c] = pte'[startAddress'[p]]
    BY DEF HeapHeld
  <2>1. CASE InUse(p)
    <3>1. startAddress'[p] = startAddress[p]
      BY <1>6, <2>1 DEF BlockAdded
    <3>2. startAddress[p] \in Pages /\ InUse(startAddress[p])
      BY <2>1, BlockStart
    <3>3. pte'[startAddress[p]] = pte[startAddress[p]]
      BY <1>6, <3>2 DEF BlockAdded
    <3>4. \A c \in Entries : pde[c] # NoFrame => pde'[c] = pde[c]
      BY <1>13
    <3> QED BY <1>10, <2>1, <3>1, <3>3, <3>4 DEF HeapHeld
  <2>2. CASE ~InUse(p)
    <3>1. startAddress'[p] = s
      BY <1>6, <2>2 DEF BlockAdded
    <3> QED BY <1>9, <1>14, <3>1 DEF g
  <2> QED BY <2>1, <2>2
<1>23. SeenIsWalked'
  BY <1>10, <1>18 DEF SeenIsWalked
<1> QED BY <1>2, <1>17, <1>19, <1>20, <1>21, <1>22, <1>23

LEMMA CreateKeepsInv ==
  ASSUME TablesInv, NEW d \in Entries, create_page_table(d)
  PROVE  TablesInv'
<1>1. 1 \in 0 .. N /\ 1 \in 1 .. N /\ Inv /\ pde[d] = NoFrame /\ UNCHANGED <<seen, owned, missed>>
  BY DEF create_page_table, TablesInv
<1>2. CASE KmallocReturns(1) /\ pde' = [pde EXCEPT ![d] = pte'[ret']] /\ row' = Cleared(pte'[ret'])
  BY <1>1, <1>2, TableCreated
<1>3. CASE KmallocFails(1) /\ UNCHANGED <<pde, row>>
  <2>1. Inv'
    BY <1>1, <1>3, KmallocFailsKeepsInv
  <2>2. BlockAdded(Null) /\ \A p \in Pages : InUse(p)' <=> InUse(p)
    BY <1>1, <1>3, KmallocFailsAdds
  <2>3. blocks' = blocks /\ abandoned' = abandoned /\ UNCHANGED <<tables, missed>>
    BY <1>1, <1>3 DEF owned, tables
  <2> QED BY <2>1, <2>2, <2>3, BlockAddedKeepsTables
<1>4. CASE KmallocPanics(1) /\ UNCHANGED <<pde, row>>
  <2>1. Inv'
    BY <1>1, <1>4, KmallocPanicsKeepsInv
  <2>2. PICK k \in 0 .. 1-1 : \E f : MapPages(Place(1), k, f)
    BY <1>4 DEF KmallocPanics
  <2>3. PICK s : s = Place(1)
    OBVIOUS
  <2>4. k = 0 /\ Room(s, k)
    BY <1>1, <1>4, <2>2, <2>3, PlaceFindsRoom, RoomShrinks DEF KmallocPanics, Inv
  <2>5. PICK f : MapPages(s, k, f)
    BY <2>2, <2>3
  <2>6. \A p \in Pages : InUse(p)' <=> InUse(p)
    <3>1. \A p \in Pages : p \notin Window(s, k)
      BY <2>4 DEF Room
    <3> HIDE DEF Window
    <3> QED BY <1>1, <2>4, <2>5, <3>1, MapPagesInUse
  <2>7. BlockAdded(s)
    BY <1>1, <2>4, <2>5, MapPagesAdds
  <2>8. blocks' = blocks /\ abandoned' = abandoned /\ UNCHANGED <<tables, missed>>
    BY <1>1, <1>4 DEF owned, tables
  <2> QED BY <2>1, <2>6, <2>7, <2>8, BlockAddedKeepsTables
<1> QED BY <1>2, <1>3, <1>4 DEF create_page_table

-----------------------------------------------------------------------------
(* Frames that change hands between the free list and the rest of the      *)
(* kernel, the heap's pages staying as they are.                           *)
LEMMA FramesMoved ==
  ASSUME TablesInv, HeapUnchanged, UNCHANGED <<lastAllocatedKHpage, strategy, ret, pde, owned>>,
         freeFrames' \cup elsewhere' = freeFrames \cup elsewhere,
         freeFrames' \cap elsewhere' = {}
  PROVE  Inv' /\ TablesPlaced' /\ BlocksHeld' /\ HeapHeld' /\ blocks' = blocks
<1> USE DEF TablesInv
<1>1. /\ BootState' /\ BlocksAreContiguous' /\ MappedWhenInUse' /\ OneFramePerPage'
      /\ HeapFrames' = HeapFrames
  BY HeapUnchangedKeepsBlocks
<1>2. TypeOK'
  <2>1. freeFrames' \subseteq Frames /\ elsewhere' \subseteq Frames
    BY DEF Inv, TypeOK
  <2> QED BY <2>1 DEF HeapUnchanged, Inv, TypeOK
<1>3. FramesAccountedFor'
  BY <1>1 DEF Inv, FramesAccountedFor
<1>4. UNCHANGED <<empty, startAddress, isKHpageEmpty, pte, pde, blocks, abandoned>>
  BY DEF HeapUnchanged, owned
<1>5. \A p : InUse(p)' <=> InUse(p)
  BY <1>4 DEF InUse
<1>6. TablesPlaced'
  BY <1>4, <1>5 DEF TablesPlaced, TableAt
<1>7. BlocksHeld' /\ HeapHeld'
  BY <1>4, <1>5 DEF BlocksHeld, HeapHeld
<1> QED BY <1>1, <1>2, <1>3, <1>4, <1>6, <1>7 DEF Inv

(* A mapping that is made is the one the processor finds.                  *)
LEMMA MapFrameKeepsInv ==
  ASSUME TablesInv, NEW d \in Entries, NEW i \in Slots, map_frame(d, i)
  PROVE  TablesInv'
<1> USE DEF TablesInv
<1>1. PICK f \in freeFrames :
        IF Found(d)
          THEN /\ row' = [row EXCEPT ![TableRow(d)][i] = f]
               /\ seen' = [seen EXCEPT ![d][i] = f]
               /\ freeFrames' = (freeFrames \ {f}) \union ({row[TableRow(d)][i]} \ {NoFrame})
               /\ elsewhere' = (elsewhere \union {f}) \ {row[TableRow(d)][i]}
          ELSE /\ freeFrames' = freeFrames \ {f}
               /\ elsewhere' = elsewhere \union {f}
               /\ UNCHANGED <<row, seen>>
  BY DEF map_frame
<1>2. /\ HeapUnchanged /\ UNCHANGED <<lastAllocatedKHpage, strategy, ret, pde, owned, missed>>
      /\ pde[d] # NoFrame /\ Walk(d, i) = NoFrame
  BY DEF map_frame, HeapUnchanged
<1>3. f \in Frames /\ f # NoFrame /\ f \notin elsewhere /\ elsewhere \subseteq Frames
  BY DEF Inv, TypeOK, FramesAccountedFor
<1>4. Found(d) => TableRow(d) = pde[d] /\ row[TableRow(d)][i] = NoFrame
  BY <1>2, FoundIsTheTable DEF Walk
<1>5. freeFrames' = freeFrames \ {f} /\ elsewhere' = elsewhere \cup {f}
  BY <1>1, <1>3, <1>4
<1>6. Inv' /\ TablesPlaced' /\ BlocksHeld' /\ HeapHeld' /\ blocks' = blocks
  <2>1. freeFrames' \cup elsewhere' = freeFrames \cup elsewhere /\ freeFrames' \cap elsewhere' = {}
    BY <1>5 DEF Inv, FramesAccountedFor
  <2> QED BY <1>2, <2>1, FramesMoved
<1>7. CASE ~Found(d)
  <2>1. UNCHANGED <<row, seen, pde, missed>>
    BY <1>1, <1>2, <1>7
  <2>2. \A c, j : Walk(c, j)' = Walk(c, j)
    BY <2>1 DEF Walk
  <2>3. RowsApart'
    BY <1>5, <2>1, <2>2 DEF RowsApart
  <2>4. SeenIsWalked' /\ TablesTypeOK'
    BY <1>6, <2>1, <2>2 DEF SeenIsWalked, TablesTypeOK
  <2> QED BY <1>6, <2>3, <2>4
<1>8. CASE Found(d)
  <2>1. /\ row' = [row EXCEPT ![pde[d]][i] = f] /\ seen' = [seen EXCEPT ![d][i] = f]
        /\ pde' = pde /\ missed' = missed
    BY <1>1, <1>2, <1>4, <1>8
  <2>2. pde[d] \in Frames
    BY <1>2, TableFrame
  <2>3. row'[pde[d]] = [row[pde[d]] EXCEPT ![i] = f] /\ \A g \in Frames \ {pde[d]} : row'[g] = row[g]
    BY <2>1, <2>2 DEF TablesTypeOK
  <2>4. \A c \in Entries, j \in Slots :
          Walk(c, j)' = IF c = d /\ j = i THEN f ELSE Walk(c, j)
    <3> TAKE c \in Entries, j \in Slots
    <3>1. CASE c = d
      <4>1. row[pde[d]] \in [Slots -> Frames \cup {NoFrame}]
        BY <2>2 DEF TablesTypeOK
      <4>2. row'[pde[d]][j] = IF j = i THEN f ELSE row[pde[d]][j]
        BY <2>3, <4>1
      <4> QED BY <1>2, <2>1, <3>1, <4>2 DEF Walk
    <3>2. CASE c # d /\ pde[c] # NoFrame
      <4>1. pde[c] # pde[d] /\ pde[c] \in Frames
        BY <3>2, TableFrame DEF RowsApart
      <4> QED BY <2>1, <2>3, <3>2, <4>1 DEF Walk
    <3>3. CASE c # d /\ pde[c] = NoFrame
      BY <2>1, <3>3 DEF Walk
    <3> QED BY <3>1, <3>2, <3>3
  <2>5. \A c \in Entries, j \in Slots :
          seen'[c][j] = IF c = d /\ j = i THEN f ELSE seen[c][j]
    BY <2>1 DEF TablesTypeOK
  <2>6. TablesTypeOK'
    BY <1>3, <1>6, <2>1, <2>2 DEF TablesTypeOK
  <2>7. SeenIsWalked'
    BY <2>1, <2>4, <2>5 DEF SeenIsWalked
  <2>8. \A c \in Entries, j \in Slots : Walk(c, j) # f
    BY <1>3 DEF RowsApart
  <2>9. RowsApart'
    <3>1. \A c \in Entries, j \in Slots : Walk(c, j)' # NoFrame => Walk(c, j)' \in elsewhere'
      BY <1>5, <2>4 DEF RowsApart
    <3>2. \A c, e \in Entries, j, k \in Slots :
            Walk(c, j)' = Walk(e, k)' /\ Walk(c, j)' # NoFrame => c = e /\ j = k
      BY <2>4, <2>8 DEF RowsApart
    <3>3. \A c, e \in Entries : pde'[c] = pde'[e] /\ pde'[c] # NoFrame => c = e
      BY <2>1 DEF RowsApart
    <3> QED BY <3>1, <3>2, <3>3 DEF RowsApart
  <2> QED BY <1>6, <2>6, <2>7, <2>9
<1> QED BY <1>7, <1>8

(* Unmapping slots of a table that is found, and dropping the table if     *)
(* nothing is left in it.                                                  *)
LEMMA UnmapStep ==
  ASSUME TablesInv, NEW d \in Entries, NEW I \in SUBSET Slots, Found(d),
         row' = RowAfter(d, I), seen' = SeenAfter(d, I),
         elsewhere' = elsewhere \ Unmapped(d, I),
         \/ pde' = pde
         \/ pde' = [pde EXCEPT ![d] = NoFrame] /\ RowAfter(d, I)[pde[d]] = NoRow,
         blocks' = blocks, ~missed' => ~missed
  PROVE  TablesTypeOK' /\ RowsApart' /\ SeenIsWalked'
<1> USE DEF TablesInv
<1>1. pde[d] # NoFrame /\ pde[d] \in Frames /\ TableRow(d) = pde[d]
  BY FoundIsTheTable, TableFrame
<1>0. \/ pde' = pde
      \/ pde' = [pde EXCEPT ![d] = NoFrame] /\ RowAfter(d, I)[pde[d]] = NoRow
  OBVIOUS
<1> DEFINE left == [i \in Slots |-> IF i \in I THEN NoFrame ELSE row[pde[d]][i]]
           now == [i \in Slots |-> IF i \in I THEN NoFrame ELSE seen[d][i]]
<1>2. row' = [row EXCEPT ![pde[d]] = left]
  BY <1>1 DEF RowAfter
<1>3. seen' = [seen EXCEPT ![d] = now]
  BY DEF SeenAfter
<1>4. left \in [Slots -> Frames \cup {NoFrame}] /\ now \in [Slots -> Frames \cup {NoFrame}]
  BY <1>1 DEF TablesTypeOK
<1>5. Unmapped(d, I) = {row[pde[d]][i] : i \in I} \ {NoFrame}
  BY <1>1 DEF Unmapped
<1>6. row'[pde[d]] = left /\ \A g \in Frames \ {pde[d]} : row'[g] = row[g]
  BY <1>1, <1>2 DEF TablesTypeOK
<1>7. seen'[d] = now /\ \A c \in Entries \ {d} : seen'[c] = seen[c]
  BY <1>3 DEF TablesTypeOK
<1>8. /\ \A c \in Entries \ {d} : pde'[c] = pde[c]
      /\ pde'[d] = pde[d] \/ (pde'[d] = NoFrame /\ left = NoRow)
  <2>1. RowAfter(d, I)[pde[d]] = left
    BY <1>6
  <2> HIDE DEF left
  <2>3. CASE pde' = pde
    BY <2>3
  <2>4. CASE pde' = [pde EXCEPT ![d] = NoFrame] /\ RowAfter(d, I)[pde[d]] = NoRow
    <3>1. \A c \in Entries \ {d} : pde'[c] = pde[c]
      BY <2>4 DEF TablesTypeOK
    <3>2. pde'[d] = NoFrame
      BY <2>4 DEF TablesTypeOK
    <3> QED BY <2>1, <2>4, <3>1, <3>2
  <2> QED BY <1>0, <2>3, <2>4
<1>9. TablesTypeOK'
  <2> HIDE DEF left, now
  <2> QED BY <1>1, <1>2, <1>3, <1>4 DEF TablesTypeOK
<1>10. \A c \in Entries, j \in Slots :
         Walk(c, j)' = IF c = d /\ j \in I THEN NoFrame ELSE Walk(c, j)
  <2> TAKE c \in Entries, j \in Slots
  <2>1. CASE c = d /\ pde'[d] = pde[d]
    BY <1>1, <1>6, <2>1 DEF Walk
  <2>2. CASE c = d /\ pde'[d] = NoFrame /\ left = NoRow
    <3>1. left[j] = NoFrame
      <4> HIDE DEF left
      <4> QED BY <2>2 DEF NoRow
    <3> QED BY <1>1, <2>2, <3>1 DEF Walk
  <2>3. CASE c # d /\ pde[c] # NoFrame
    <3>1. pde[c] # pde[d] /\ pde[c] \in Frames
      BY <2>3, TableFrame DEF RowsApart
    <3> QED BY <1>6, <1>8, <2>3, <3>1 DEF Walk
  <2>4. CASE c # d /\ pde[c] = NoFrame
    BY <1>8, <2>4 DEF Walk
  <2> QED BY <1>8, <2>1, <2>2, <2>3, <2>4
<1>11. \A c \in Entries, j \in Slots :
         seen'[c][j] = IF c = d /\ j \in I THEN NoFrame ELSE seen[c][j]
  BY <1>7
<1>12. SeenIsWalked'
  BY <1>10, <1>11 DEF SeenIsWalked
<1>13. RowsApart'
  <2>1. \A c \in Entries, j \in Slots : Walk(c, j)' # NoFrame => Walk(c, j)' \in elsewhere'
    <3> SUFFICES ASSUME NEW c \in Entries, NEW j \in Slots, Walk(c, j)' # NoFrame
                 PROVE  Walk(c, j)' \in elsewhere \ Unmapped(d, I)
      OBVIOUS
    <3>1. Walk(c, j)' = Walk(c, j) /\ Walk(c, j) # NoFrame /\ ~(c = d /\ j \in I)
      BY <1>10
    <3>2. Walk(c, j) \in elsewhere
      BY <3>1 DEF RowsApart
    <3>3. ASSUME NEW i \in I, Walk(c, j) = row[pde[d]][i] PROVE FALSE
      <4>1. Walk(d, i) = Walk(c, j) /\ i \in Slots
        BY <1>1, <3>3 DEF Walk
      <4> QED BY <3>1, <4>1 DEF RowsApart
    <3> QED BY <1>5, <3>1, <3>2, <3>3
  <2>2. \A c, e \in Entries, j, k \in Slots :
          Walk(c, j)' = Walk(e, k)' /\ Walk(c, j)' # NoFrame => c = e /\ j = k
    BY <1>10 DEF RowsApart
  <2>3. \A c, e \in Entries : pde'[c] = pde'[e] /\ pde'[c] # NoFrame => c = e
    BY <1>8 DEF RowsApart
  <2> QED BY <2>1, <2>2, <2>3 DEF RowsApart
<1> QED BY <1>9, <1>12, <1>13

(* A block of the heap is given back: no other block is disturbed, and a   *)
(* table goes exactly when its page does.                                  *)
LEMMA BlockFreed ==
  ASSUME TablesInv, Inv', NEW va,
         \A p \in Pages : InUse(p)' <=> InUse(p) /\ startAddress[p] # va,
         \A p \in Pages : InUse(p)' => pte'[p] = pte[p] /\ startAddress'[p] = startAddress[p],
         \A c \in Entries : pde'[c] = pde[c] \/ pde'[c] = NoFrame,
         \A c \in Entries : pde[c] # NoFrame =>
            (pde'[c] = NoFrame <=> va \in Pages /\ InUse(va) /\ pte[va] = pde[c]),
         blocks' = blocks \ {va}, abandoned' = abandoned
  PROVE  TablesPlaced' /\ BlocksHeld' /\ HeapHeld'
<1> USE DEF TablesInv
<1>1. TablesPlaced'
  <2> SUFFICES ASSUME NEW c \in Entries, pde'[c] # NoFrame PROVE \E p \in Pages : TableAt(c, p)'
    BY DEF TablesPlaced
  <2>1. pde'[c] = pde[c] /\ pde[c] # NoFrame
    OBVIOUS
  <2>2. PICK p \in Pages : TableAt(c, p)
    BY <2>1 DEF TablesPlaced
  <2>3. p # va
    BY <2>1, <2>2 DEF TableAt
  <2>4. InUse(p)' /\ pte'[p] = pde'[c] /\ startAddress'[p] = p /\ p \notin blocks'
    BY <2>1, <2>2, <2>3 DEF TableAt
  <2>5. ASSUME NEW q \in Pages, InUse(q)', startAddress'[q] = p PROVE q = p
    BY <2>2, <2>5 DEF TableAt
  <2> QED BY <2>4, <2>5 DEF TableAt
<1>2. BlocksHeld'
  BY DEF BlocksHeld, TablesTypeOK
<1>3. HeapHeld'
  <2> SUFFICES ASSUME NEW p \in Pages, InUse(p)'
               PROVE  \/ startAddress'[p] \in blocks' \cup abandoned'
                      \/ \E c \in Entries : pde'[c] # NoFrame /\ pde'[c] = pte'[startAddress'[p]]
    BY DEF HeapHeld
  <2>0. PICK t : t = startAddress[p]
    OBVIOUS
  <2>1. InUse(p) /\ startAddress'[p] = t /\ t # va
    BY <2>0
  <2>2. t \in Pages /\ InUse(t) /\ startAddress[t] = t
    BY <2>0, <2>1, BlockStart
  <2>3. InUse(t)' /\ pte'[t] = pte[t]
    BY <2>1, <2>2
  <2>4. CASE t \in blocks \cup abandoned
    BY <2>1, <2>4
  <2>5. CASE \E e \in Entries : pde[e] # NoFrame /\ pde[e] = pte[t]
    <3>1. PICK e \in Entries : pde[e] # NoFrame /\ pde[e] = pte[t]
      BY <2>5
    <3>2. pde'[e] # NoFrame
      <4> SUFFICES ASSUME pde'[e] = NoFrame PROVE FALSE
        OBVIOUS
      <4>1. va \in Pages /\ pte[va] = pte[t] /\ pte[t] # NoFrame
        BY <3>1
      <4> QED BY <2>1, <2>2, <4>1 DEF Inv, FramesAccountedFor, OneFramePerPage
    <3> QED BY <2>1, <2>3, <3>1, <3>2
  <2>6. t \in blocks \cup abandoned \/ \E e \in Entries : pde[e] # NoFrame /\ pde[e] = pte[t]
    BY <2>0, <2>1 DEF HeapHeld
  <2> QED BY <2>4, <2>5, <2>6
<1> QED BY <1>1, <1>2, <1>3

LEMMA KernelFreeKeepsInv ==
  ASSUME TablesInv, NEW b \in blocks, KernelFree(b)
  PROVE  TablesInv'
<1> USE DEF TablesInv
<1>1. b \in Pages /\ Kfree(b) /\ blocks' = blocks \ {b} /\ UNCHANGED <<abandoned, tables, missed>>
  BY DEF KernelFree, TablesTypeOK
<1>2. Inv'
  BY <1>1, KfreeKeepsInv
<1>3. \A p : p \in BlockFrom(b) <=> p \in Pages /\ InUse(p) /\ startAddress[p] = b
  BY <1>1, BlockFromIsTheBlock
<1>4. /\ \A p \in Pages : InUse(p)' <=> InUse(p) /\ startAddress[p] # b
      /\ \A p \in Pages : InUse(p)' => pte'[p] = pte[p] /\ startAddress'[p] = startAddress[p]
      /\ elsewhere' = elsewhere
  BY <1>1, <1>3 DEF Kfree, InUse
<1>5. UNCHANGED <<pde, row, seen, missed>>
  BY <1>1 DEF tables
<1>6. \A c \in Entries : pde[c] # NoFrame => pte[b] # pde[c]
  <2> SUFFICES ASSUME NEW c \in Entries, pde[c] # NoFrame, pte[b] = pde[c] PROVE FALSE
    OBVIOUS
  <2>1. PICK p \in Pages : TableAt(c, p)
    BY DEF TablesPlaced
  <2>2. p = b
    BY <1>1, <2>1 DEF TableAt, Inv, FramesAccountedFor, OneFramePerPage
  <2> QED BY <2>1, <2>2 DEF TableAt
<1>7. TablesPlaced' /\ BlocksHeld' /\ HeapHeld'
  BY <1>1, <1>2, <1>4, <1>5, <1>6, BlockFreed
<1>8. \A d, i : Walk(d, i)' = Walk(d, i)
  BY <1>5 DEF Walk
<1>9. RowsApart' /\ SeenIsWalked' /\ TablesTypeOK'
  BY <1>1, <1>4, <1>5, <1>8 DEF RowsApart, SeenIsWalked, TablesTypeOK
<1> QED BY <1>2, <1>7, <1>9

LEMMA ReplacementKeepsInv ==
  ASSUME TablesInv, NEW d \in Entries, NEW i \in Slots, pageReplacement(d, i)
  PROVE  TablesInv'
<1> USE DEF TablesInv
<1> DEFINE freed == Unmapped(d, {i})
<1>1. /\ Found(d) /\ row' = RowAfter(d, {i}) /\ seen' = SeenAfter(d, {i})
      /\ freeFrames' = freeFrames \cup freed /\ elsewhere' = elsewhere \ freed
      /\ HeapUnchanged
      /\ UNCHANGED <<lastAllocatedKHpage, strategy, ret, pde, owned, missed>>
  BY DEF pageReplacement, HeapUnchanged
<1>2. freed \subseteq elsewhere
  BY <1>1, FoundIsTheTable DEF Unmapped, RowsApart, Walk
<1> HIDE DEF freed
<1>3. freeFrames' \cup elsewhere' = freeFrames \cup elsewhere /\ freeFrames' \cap elsewhere' = {}
  BY <1>1, <1>2 DEF Inv, FramesAccountedFor
<1>4. Inv' /\ TablesPlaced' /\ BlocksHeld' /\ HeapHeld' /\ blocks' = blocks
  BY <1>1, <1>3, FramesMoved
<1>5. {i} \in SUBSET Slots
  OBVIOUS
<1>6. TablesTypeOK' /\ RowsApart' /\ SeenIsWalked'
  BY <1>1, <1>4, <1>5, UnmapStep DEF freed
<1> QED BY <1>4, <1>6

LEMMA FreeMemKeepsInv ==
  ASSUME TablesInv, NEW d \in Entries, NEW I \in SUBSET Slots, freeMem(d, I)
  PROVE  TablesInv'
<1> USE DEF TablesInv
<1>1. PICK J : J = {i \in I : seen[d][i] # NoFrame}
  OBVIOUS
<1>2. J \in SUBSET Slots
  BY <1>1
<1> DEFINE run == GivenBack(d, J)
           freed == Unmapped(d, J)
<1>3. /\ row' = RowAfter(d, J) /\ seen' = SeenAfter(d, J) /\ pde' = PdeAfter(d, J)
      /\ pte' = [p \in Pages |-> IF p \in run THEN NoFrame ELSE pte[p]]
      /\ empty' = empty \cup run
      /\ startAddress' = [p \in Pages |-> IF p \in run THEN p ELSE startAddress[p]]
      /\ freeFrames' = freeFrames \cup freed \cup ({pte[p] : p \in run} \ {NoFrame})
      /\ elsewhere' = elsewhere \ freed
      /\ missed' = (missed \/ (J # {} /\ ~Found(d)))
      /\ UNCHANGED <<lastAllocatedKHpage, isKHpageEmpty, strategy, ret, blocks, abandoned>>
  BY <1>1 DEF freeMem, owned
<1>4. freed \in SUBSET elsewhere
  BY <1>2, FoundIsTheTable DEF Unmapped, RowsApart, Walk
<1>5. PICK va : va = IF IsEmptyTable(d, J) THEN get_page_table(d) ELSE Null
  OBVIOUS
<1>6. IsEmptyTable(d, J) => /\ Found(d) /\ va \in Pages /\ TableAt(d, va) /\ pde[d] # NoFrame
                            /\ RowAfter(d, J)[pde[d]] = NoRow
  BY <1>5, FoundIsTheTable DEF IsEmptyTable
<1>7. \A p : p \in run <=> p \in Pages /\ InUse(p) /\ startAddress[p] = va
  <2>1. CASE IsEmptyTable(d, J)
    <3>1. run = BlockFrom(va)
      BY <1>5, <2>1 DEF GivenBack
    <3> QED BY <1>6, <2>1, <3>1, BlockFromIsTheBlock
  <2>2. CASE ~IsEmptyTable(d, J)
    <3>1. run = {} /\ va = Null
      BY <1>5, <2>2 DEF GivenBack
    <3>2. \A p \in Pages : InUse(p) => startAddress[p] # Null
      BY BlockStart
    <3> QED BY <3>1, <3>2
  <2> QED BY <2>1, <2>2
<1> HIDE DEF run, freed
<1>8. Inv'
  BY <1>3, <1>4, <1>7, GivingBackKeepsInv
<1>9. /\ \A p \in Pages : InUse(p)' <=> InUse(p) /\ startAddress[p] # va
      /\ \A p \in Pages : InUse(p)' => pte'[p] = pte[p] /\ startAddress'[p] = startAddress[p]
  BY <1>3, <1>7 DEF InUse
<1>10. blocks' = blocks \ {va}
  BY <1>3, <1>5, <1>6 DEF TableAt, TablesTypeOK
<1>11. pde' = IF IsEmptyTable(d, J) THEN [pde EXCEPT ![d] = NoFrame] ELSE pde
  BY <1>3 DEF PdeAfter
<1>12. /\ \A c \in Entries : pde'[c] = pde[c] \/ pde'[c] = NoFrame
       /\ \A c \in Entries : pde[c] # NoFrame =>
            (pde'[c] = NoFrame <=> va \in Pages /\ InUse(va) /\ pte[va] = pde[c])
  <2>1. CASE IsEmptyTable(d, J)
    <3>1. \A c \in Entries : pde'[c] = IF c = d THEN NoFrame ELSE pde[c]
      BY <1>11, <2>1 DEF TablesTypeOK
    <3>2. va \in Pages /\ InUse(va) /\ pte[va] = pde[d] /\ pde[d] # NoFrame
      BY <1>6, <2>1 DEF TableAt
    <3> QED BY <3>1, <3>2 DEF RowsApart
  <2>2. CASE ~IsEmptyTable(d, J)
    BY <1>5, <1>11, <2>2
  <2> QED BY <2>1, <2>2
<1>13. TablesPlaced' /\ BlocksHeld' /\ HeapHeld'
  BY <1>3, <1>8, <1>9, <1>10, <1>12, BlockFreed
<1>14. TablesTypeOK' /\ RowsApart' /\ SeenIsWalked'
  <2>1. CASE Found(d)
    <3>1. ~missed' => ~missed
      BY <1>3, <2>1
    <3>2. \/ pde' = pde
          \/ pde' = [pde EXCEPT ![d] = NoFrame] /\ RowAfter(d, J)[pde[d]] = NoRow
      <4>1. CASE IsEmptyTable(d, J)
        BY <1>6, <1>11, <4>1
      <4>2. CASE ~IsEmptyTable(d, J)
        BY <1>11, <4>2
      <4> QED BY <4>1, <4>2
    <3>3. elsewhere' = elsewhere \ Unmapped(d, J)
      BY <1>3 DEF freed
    <3> QED BY <1>2, <1>3, <2>1, <3>1, <3>2, <3>3, UnmapStep
  <2>2. CASE ~Found(d)
    <3>1. row' = row /\ pde' = pde /\ elsewhere' = elsewhere /\ seen' = SeenAfter(d, J)
      BY <1>3, <1>11, <2>2 DEF RowAfter, IsEmptyTable, Unmapped, freed
    <3>2. \A c, i : Walk(c, i)' = Walk(c, i)
      BY <3>1 DEF Walk
    <3>3. \A c \in Entries, i \in Slots :
            seen'[c][i] = IF c = d /\ i \in J THEN NoFrame ELSE seen[c][i]
      BY <3>1 DEF SeenAfter, TablesTypeOK
    <3>4. TablesTypeOK'
      <4>1. \A c \in Entries : seen'[c] \in [Slots -> Frames \cup {NoFrame}]
        BY <3>1 DEF SeenAfter, TablesTypeOK
      <4>2. seen' \in [Entries -> [Slots -> Frames \cup {NoFrame}]]
        BY <3>1, <4>1 DEF SeenAfter, TablesTypeOK
      <4> QED BY <1>3, <3>1, <4>2 DEF TablesTypeOK
    <3>5. RowsApart'
      BY <3>1, <3>2 DEF RowsApart
    <3>6. SeenIsWalked'
      BY <1>3, <2>2, <3>2, <3>3 DEF SeenIsWalked
    <3> QED BY <3>4, <3>5, <3>6
  <2> QED BY <2>1, <2>2
<1> QED BY <1>8, <1>13, <1>14

(* The page array, the tables and the blocks as they were.                 *)
LEMMA QuietStepKeepsInv ==
  ASSUME TablesInv,
         \/ \E s \in Strategies : SetStrategy(s)
         \/ UNCHANGED vars,
         UNCHANGED <<tables, owned, missed>>
  PROVE  TablesInv'
<1>1. Inv'
  BY OtherStepsKeepInv DEF TablesInv
<1>2. UNCHANGED <<empty, startAddress, isKHpageEmpty, pte, elsewhere>>
  BY DEF SetStrategy, vars, pageArray
<1>3. BlockAdded(Null) /\ \A p \in Pages : InUse(p)' <=> InUse(p)
  BY <1>2 DEF BlockAdded, InUse
<1>4. blocks' = blocks /\ abandoned' = abandoned /\ UNCHANGED <<tables, missed>>
  BY DEF owned
<1> QED BY <1>1, <1>3, <1>4, BlockAddedKeepsTables

LEMMA TablesInitInv == TablesInit => TablesInv
<1> SUFFICES ASSUME TablesInit PROVE TablesInv
  OBVIOUS
<1>1. Inv
  BY InitEstablishesInv DEF TablesInit
<1>2. \A d \in Entries : pde[d] = NoFrame
  BY DEF TablesInit
<1>3. \A d \in Entries, i \in Slots : seen[d][i] = NoFrame
  BY DEF TablesInit, NoRow
<1>4. \A p \in Pages : ~InUse(p)
  BY DEF TablesInit, Init, InUse
<1>5. TablesTypeOK
  <2>1. NoRow \in [Slots -> Frames \cup {NoFrame}]
    BY DEF NoRow
  <2> QED BY <2>1 DEF TablesInit, TablesTypeOK
<1>6. TablesPlaced /\ RowsApart
  BY <1>2 DEF TablesPlaced, RowsApart, Walk
<1>7. BlocksHeld /\ HeapHeld
  BY <1>4 DEF TablesInit, BlocksHeld, HeapHeld
<1>8. SeenIsWalked
  BY <1>2, <1>3 DEF SeenIsWalked, Walk
<1> QED BY <1>1, <1>5, <1>6, <1>7, <1>8 DEF TablesInv

LEMMA TablesNextInv == TablesInv /\ [TablesNext]_allVars => TablesInv'
<1> SUFFICES ASSUME TablesInv, [TablesNext]_allVars PROVE TablesInv'
  OBVIOUS
<1>1. ASSUME NEW d \in Entries, create_page_table(d) PROVE TablesInv'
  BY <1>1, CreateKeepsInv
<1>2. ASSUME NEW d \in Entries, pt_get_page_permissions(d) PROVE TablesInv'
  BY <1>2, QuietStepKeepsInv DEF pt_get_page_permissions, Stop
<1>3. ASSUME NEW d \in Entries, NEW i \in Slots, map_frame(d, i) PROVE TablesInv'
  BY <1>3, MapFrameKeepsInv
<1>4. ASSUME NEW d \in Entries, NEW i \in Slots, pageReplacement(d, i) PROVE TablesInv'
  BY <1>4, ReplacementKeepsInv
<1>5. ASSUME NEW d \in Entries, NEW I \in SUBSET Slots, freeMem(d, I) PROVE TablesInv'
  BY <1>5, FreeMemKeepsInv
<1>6. ASSUME NEW n \in 1 .. N, KernelAlloc(n) PROVE TablesInv'
  BY <1>6, KernelAllocKeepsInv
<1>7. ASSUME NEW b \in blocks, KernelFree(b) PROVE TablesInv'
  BY <1>7, KernelFreeKeepsInv
<1>8. ASSUME NEW s \in Strategies, ChooseStrategy(s) PROVE TablesInv'
  BY <1>8, QuietStepKeepsInv DEF ChooseStrategy
<1>9. ASSUME UNCHANGED allVars PROVE TablesInv'
  BY <1>9, QuietStepKeepsInv DEF allVars
<1> QED BY <1>1, <1>2, <1>3, <1>4, <1>5, <1>6, <1>7, <1>8, <1>9 DEF TablesNext

(* The page tables are in order in every state: each is a block of the     *)
(* heap of its own, no frame is mapped twice, and what the kernel believes *)
(* mapped is what the tables hold.                                         *)
THEOREM TablesInvariant == TablesSpec => []TablesInv
<1>1. TablesInit => TablesInv
  BY TablesInitInv
<1>2. TablesInv /\ [TablesNext]_allVars => TablesInv'
  BY TablesNextInv
<1> QED BY <1>1, <1>2, PTL DEF TablesSpec

(* The processor finds the kernel's mappings through tables that come from *)
(* the heap and go back to it, for any number of environments and pages.   *)
THEOREM MappingsAreSeen == TablesSpec => []ProcessorSeesMappings
BY TablesInvariant, TablesInvGives, PTL

(* No table shares its page, its block or its frame with anything else.    *)
THEOREM TablesAreApart == TablesSpec => []TablesStayApart
BY TablesInvariant, TablesInvGives, PTL

(* freeMem and kfree leave no page of the heap without an owner.           *)
THEOREM NoPageForgotten == TablesSpec => []HeapIsOwned
BY TablesInvariant, TablesInvGives, PTL

-----------------------------------------------------------------------------
(* When the machine stops.                                                 *)

(* Next fit finds a page if there is one.                                  *)
LEMMA NextFitFindsAPage ==
  ASSUME NEW E \in SUBSET Pages, NEW last \in 0 .. N, nextFit(E, last, 1) = Null
  PROVE  E = {}
<1> SUFFICES ASSUME NEW p \in E PROVE FALSE
  OBVIOUS
<1>1. ASSUME NEW from \in 0 .. N, NEW to \in 0 .. N, p \in from .. to-1
      PROVE  getStartAddress(E, from, to, 1) # Null
  <2> DEFINE fits == {s \in from .. to-1 : Window(s, 1) \subseteq E}
  <2>1. p \in fits
    <3>1. Window(p, 1) = {p}
      OBVIOUS
    <3> QED BY <1>1, <3>1
  <2>2. fits \in SUBSET Nat
    OBVIOUS
  <2>3. Min(fits) \in Nat
    <3> HIDE DEF fits
    <3> QED BY <2>1, <2>2, MinOfNaturals
  <2>4. getStartAddress(E, from, to, 1) = Min(fits)
    BY <2>1 DEF getStartAddress
  <2> QED BY <2>3, <2>4
<1>2. CASE p \in last .. N-1
  <2>1. getStartAddress(E, last, N, 1) # Null
    BY <1>1, <1>2
  <2> QED BY <2>1 DEF nextFit
<1>3. CASE p \in 0 .. last-1
  <2>1. getStartAddress(E, 0, last, 1) # Null
    BY <1>1, <1>3
  <2> QED BY <2>1 DEF nextFit
<1> QED BY <1>2, <1>3

(* Best fit does if the last page is free.                                 *)
LEMMA BestFitFindsAPage ==
  ASSUME NEW E \in SUBSET Pages, bestFit(E, 1) = Null
  PROVE  N-1 \notin E
<1> SUFFICES ASSUME N-1 \in E PROVE FALSE
  OBVIOUS
<1>1. TailFits(E, 1)
  <2>1. Window(N-1, 1) = {N-1}
    OBVIOUS
  <2> QED BY <2>1 DEF TailFits
<1> DEFINE fits == {h \in Holes(E) : Length(h) >= 1}
           sizes == {Length(h) : h \in fits}
           size == Min(sizes)
           starts == {h[1] : h \in {g \in fits : Length(g) = size}}
<1>2. \A h \in fits : h[1] \in Nat /\ Length(h) \in Nat
  BY DEF Holes, Length
<1>3. sizes \in SUBSET Nat /\ sizes # {}
  BY <1>1, <1>2, TailIsAHole
<1>4. size \in sizes
  <2> HIDE DEF sizes
  <2> QED BY <1>3, MinOfNaturals
<1>5. starts \in SUBSET Nat /\ starts # {}
  <2> HIDE DEF size
  <2>1. PICK g \in fits : Length(g) = size
    BY <1>4
  <2> QED BY <1>2, <2>1
<1>6. Min(starts) \in Nat
  <2> HIDE DEF starts
  <2> QED BY <1>5, MinOfNaturals
<1> QED BY <1>1, <1>6 DEF bestFit

(* kmalloc of one page returns 0 for want of a page, or of a last page.    *)
LEMMA NoPageForATable ==
  ASSUME TablesInv, KmallocFails(1)
  PROVE  EmptyNow = {} \/ (strategy = "BESTFIT" /\ N-1 \notin EmptyNow)
<1>1. /\ EmptyNow \in SUBSET Pages /\ lastAllocatedKHpage \in 0 .. N
      /\ strategy \in {"NEXTFIT", "BESTFIT"}
  BY DEF TablesInv, Inv, TypeOK, EmptyNow, Strategies
<1>2. CASE strategy = "NEXTFIT"
  BY <1>1, <1>2, NextFitFindsAPage DEF KmallocFails, Place
<1>3. CASE strategy = "BESTFIT"
  BY <1>1, <1>3, BestFitFindsAPage DEF KmallocFails, Place
<1> QED BY <1>1, <1>2, <1>3

(* The machine stops for want of a page for a table, and for a table above *)
(* the rover, and for nothing else.                                        *)
THEOREM StopsForTables == TablesSpec => StopsOnlyForTables
<1> DEFINE Cause ==
      \/ EmptyNow = {}
      \/ strategy = "BESTFIT" /\ N-1 \notin EmptyNow
      \/ \E d \in Entries : \E p \in TablePages(d) : p > lastAllocatedKHpage
<1>1. TablesInv /\ [TablesNext]_allVars => [machine' = "stopped" /\ Running => Cause]_allVars
  <2> SUFFICES ASSUME TablesInv, TablesNext, machine' = "stopped", Running PROVE Cause
    OBVIOUS
  <2>1. machine' # machine
    BY DEF Running
  <2>2. ASSUME NEW d \in Entries, create_page_table(d) PROVE Cause
    <3>1. KmallocFails(1)
      BY <2>1, <2>2 DEF create_page_table
    <3> QED BY <3>1, NoPageForATable
  <2>3. ASSUME NEW d \in Entries, pde[d] # NoFrame, ~Found(d) PROVE Cause
    BY <2>3, NotFoundIsAbove
  <2>4. ASSUME NEW d \in Entries, pt_get_page_permissions(d) PROVE Cause
    <3>1. pde[d] # NoFrame
      <4> SUFFICES ASSUME pde[d] = NoFrame PROVE FALSE
        OBVIOUS
      <4>1. \A i \in Slots : seen[d][i] = NoFrame
        BY DEF TablesInv, SeenIsWalked, Walk
      <4>2. seen[d] = NoRow
        BY <4>1 DEF TablesInv, TablesTypeOK, NoRow
      <4> QED BY <2>4, <4>2 DEF pt_get_page_permissions
    <3> QED BY <2>3, <2>4, <3>1 DEF pt_get_page_permissions
  <2>5. ASSUME NEW d \in Entries, NEW i \in Slots, map_frame(d, i) PROVE Cause
    <3>1. pde[d] # NoFrame /\ ~Found(d)
      BY <2>1, <2>5 DEF map_frame
    <3> QED BY <2>3, <3>1
  <2>6. ASSUME NEW d \in Entries, NEW i \in Slots, pageReplacement(d, i) PROVE Cause
    BY <2>1, <2>6 DEF pageReplacement
  <2>7. ASSUME NEW d \in Entries, NEW I \in SUBSET Slots, freeMem(d, I) PROVE Cause
    BY <2>1, <2>7 DEF freeMem
  <2>8. ASSUME \/ \E n \in 1 .. N : KernelAlloc(n)
               \/ \E b \in blocks : KernelFree(b)
               \/ \E s \in Strategies : ChooseStrategy(s)
        PROVE  Cause
    BY <2>1, <2>8 DEF KernelAlloc, KernelFree, ChooseStrategy
  <2> HIDE DEF Cause
  <2> QED BY <2>2, <2>4, <2>5, <2>6, <2>7, <2>8 DEF TablesNext
<1> QED BY <1>1, TablesInvariant, PTL DEF TablesSpec, StopsOnlyForTables

=============================================================================
