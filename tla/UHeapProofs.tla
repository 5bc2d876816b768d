---------------------------- MODULE UHeapProofs ----------------------------
(***************************************************************************)
(* The user heap, for every number of pages, every room in the page file   *)
(* and whatever the other processes do with it: the page array and the     *)
(* page file agree, blocks stay whole, and to a caller that frees only     *)
(* what it was given malloc and free implement AbsHeap.                    *)
(***************************************************************************)
EXTENDS UHeap, PlacementProofs, FiniteSetTheorems

USE NAssumption, RoomAssumption DEF Pages, Null, Window

(* Before the first malloc the page array is all zeroes.                   *)
BootState ==
  isUserHeapEmpty => empty = {} /\ startAddress = [p \in Pages |-> Null]

(* A page that is not in use has size 0, so that to free it does nothing.  *)
FreeHasNoSize == \A p \in Pages : ~InUse(p) => size[p] = 0

(* The inductive invariant.  BlocksAreWhole needs to know that free, given *)
(* a page that is not in use, frees no page of a block.                    *)
Inv == TypeOK /\ BootState /\ FreeHasNoSize /\ UsedPagesAreBacked /\ BlocksAreWhole

(* The search returns 0 or a run of free pages.                            *)
LEMMA PlaceFindsRun ==
  ASSUME TypeOK, NEW n \in Nat, Place(n) # Null
  PROVE  IsRun(EmptyNow, Place(n), n)
<1>1. EmptyNow \in SUBSET Pages /\ lastAllocatedUHpage \in 0 .. N
  BY DEF TypeOK, EmptyNow
<1>2. CASE strategy = "NEXTFIT"
  BY <1>1, <1>2, NextFitFindsRun DEF Place
<1>3. CASE strategy # "NEXTFIT"
  BY <1>1, <1>3, BestFitFindsRun DEF Place
<1> QED BY <1>2, <1>3

(* The room left is a number, since a process has finitely many pages.     *)
LEMMA LeftIsInt ==
  ASSUME TypeOK
  PROVE  Left \in Int /\ (Left > 0 => others < Room)
<1>1. IsFiniteSet(Pages)
  BY FS_Interval
<1>2. IsFiniteSet(pageFile)
  BY <1>1, FS_Subset DEF TypeOK
<1>3. Cardinality(pageFile) \in Nat
  BY <1>2, FS_CardinalityType
<1> QED BY <1>3 DEF Left, TypeOK

LEMMA MinOfTwo ==
  ASSUME NEW a \in Int, NEW b \in Int
  PROVE  Min({a, b}) \in Int /\ Min({a, b}) <= a /\ Min({a, b}) <= b
<1>1. \E x \in {a, b} : \A y \in {a, b} : x <= y
  BY a <= b \/ b <= a
<1>2. Min({a, b}) \in {a, b} /\ \A y \in {a, b} : Min({a, b}) <= y
  BY <1>1 DEF Min
<1> QED BY <1>2

-----------------------------------------------------------------------------
(* malloc.                                                                 *)

(* Initialising the page array changes nothing a caller can see.           *)
ArrayInitialised ==
  /\ empty' = EmptyNow /\ startAddress' = StartNow /\ size' = SizeNow
  /\ isUserHeapEmpty' = FALSE

LEMMA InitialisedSame ==
  ASSUME Inv, ArrayInitialised
  PROVE  /\ \A p \in Pages : /\ InUse(p)' <=> InUse(p)
                             /\ size'[p] = size[p]
                             /\ InUse(p) => startAddress'[p] = startAddress[p]
         /\ empty' \subseteq Pages
         /\ startAddress' \in [Pages -> Pages \cup {Null}]
         /\ size' \in [Pages -> 0 .. N]
         /\ BootState' /\ FreeHasNoSize'
<1>1. TypeOK /\ FreeHasNoSize
  BY DEF Inv
<1>2. \A p \in Pages : InUse(p)' <=> InUse(p)
  BY <1>1 DEF ArrayInitialised, InUse, EmptyNow
<1>3. \A p \in Pages : size'[p] = size[p]
  BY <1>1 DEF ArrayInitialised, SizeNow, FreeHasNoSize, InUse
<1>4. \A p \in Pages : InUse(p) => startAddress'[p] = startAddress[p]
  BY DEF ArrayInitialised, StartNow, InUse
<1>5. /\ empty' \subseteq Pages
      /\ startAddress' \in [Pages -> Pages \cup {Null}]
      /\ size' \in [Pages -> 0 .. N]
  BY <1>1 DEF ArrayInitialised, TypeOK, EmptyNow, StartNow, SizeNow
<1>6. BootState'
  BY DEF ArrayInitialised, BootState
<1>7. FreeHasNoSize'
  BY <1>1, <1>2, <1>3 DEF FreeHasNoSize
<1> QED BY <1>2, <1>3, <1>4, <1>5, <1>6, <1>7

(* Blocks depend on the pages in use and on their entries only.            *)
LEMMA SameBlocks ==
  ASSUME Inv, caller' = caller,
         \A p \in Pages : /\ InUse(p)' <=> InUse(p)
                          /\ size'[p] = size[p]
                          /\ InUse(p) => startAddress'[p] = startAddress[p]
  PROVE  BlocksAreWhole'
<1> SUFFICES ASSUME NEW p \in Pages, InUse(p)'
             PROVE  /\ p \in Window(startAddress'[p], size'[p])
                    /\ caller' = "careful" =>
                         /\ Window(startAddress'[p], size'[p]) \subseteq Pages
                         /\ \A q \in Window(startAddress'[p], size'[p]) :
                              /\ InUse(q)' /\ startAddress'[q] = startAddress'[p]
                              /\ size'[q] = size'[p]
  BY DEF BlocksAreWhole
<1>1. startAddress'[p] = startAddress[p] /\ size'[p] = size[p] /\ InUse(p)
  OBVIOUS
<1>2. p \in Window(startAddress[p], size[p])
  BY <1>1 DEF Inv, BlocksAreWhole
<1>3. caller = "careful" =>
        /\ Window(startAddress[p], size[p]) \subseteq Pages
        /\ \A q \in Window(startAddress[p], size[p]) :
             InUse(q) /\ startAddress[q] = startAddress[p] /\ size[q] = size[p]
  BY <1>1 DEF Inv, BlocksAreWhole
<1> HIDE DEF Window
<1> QED BY <1>1, <1>2, <1>3

LEMMA MallocFailsKeepsInv ==
  ASSUME Inv, NEW n \in 0 .. N, MallocFails(n)
  PROVE  Inv'
<1>1. ArrayInitialised
  BY DEF MallocFails, ArrayInitialised
<1>2. /\ ret' = Null /\ Running
      /\ UNCHANGED <<caller, lastAllocatedUHpage, pageFile, others, strategy>>
  BY DEF MallocFails
<1>3. TypeOK'
  BY <1>1, <1>2, InitialisedSame DEF ArrayInitialised, Inv, TypeOK
<1>4. UsedPagesAreBacked'
  <2>1. \A p \in Pages : InUse(p)' <=> InUse(p)
    BY <1>1, InitialisedSame
  <2> QED BY <1>2, <2>1 DEF Inv, TypeOK, UsedPagesAreBacked
<1>5. BlocksAreWhole'
  BY <1>1, <1>2, InitialisedSame, SameBlocks
<1> QED BY <1>1, <1>3, <1>4, <1>5, InitialisedSame DEF Inv

LEMMA MallocPanicsKeepsInv ==
  ASSUME Inv, NEW n \in 0 .. N, MallocPanics(n)
  PROVE  Inv'
<1>1. ArrayInitialised
  BY DEF MallocPanics, ArrayInitialised
<1>2. /\ ret' = Panic /\ Running
      /\ pageFile' = pageFile \cup Window(Place(n), Min({n, Left}))
      /\ UNCHANGED <<caller, lastAllocatedUHpage, others, strategy>>
  BY DEF MallocPanics
<1>3. pageFile' \subseteq Pages
  <2>1. IsRun(EmptyNow, Place(n), n)
    BY PlaceFindsRun DEF MallocPanics, Inv
  <2>2. Min({n, Left}) \in Int /\ Min({n, Left}) <= n
    <3>1. n \in Int /\ Left \in Int
      BY LeftIsInt DEF Inv
    <3> QED BY <3>1, MinOfTwo
  <2>3. EmptyNow \subseteq Pages
    BY DEF EmptyNow, Inv, TypeOK
  <2> DEFINE s == Place(n)
  <2> DEFINE k == Min({n, Left})
  <2>4. s \in Int /\ k \in Int /\ k <= n /\ Window(s, n) \subseteq Pages
    BY <2>1, <2>2, <2>3 DEF IsRun
  <2>5. pageFile' = pageFile \cup Window(s, k) /\ pageFile \subseteq Pages
    BY <1>2 DEF Inv, TypeOK
  <2> HIDE DEF s, k
  <2>6. Window(s, k) \subseteq Window(s, n)
    BY <2>4
  <2> QED BY <2>4, <2>5, <2>6
<1>4. TypeOK'
  BY <1>1, <1>2, <1>3, InitialisedSame DEF ArrayInitialised, Inv, TypeOK
<1>5. UsedPagesAreBacked'
  <2>1. \A p \in Pages : InUse(p)' <=> InUse(p)
    BY <1>1, InitialisedSame
  <2> QED BY <1>2, <2>1 DEF Inv, UsedPagesAreBacked, Running
<1>6. BlocksAreWhole'
  BY <1>1, <1>2, InitialisedSame, SameBlocks
<1> QED BY <1>1, <1>4, <1>5, <1>6, InitialisedSame DEF Inv

(* The pages of a new block were free, and say afterwards that it is       *)
(* theirs; no other page says anything new.                                *)
LEMMA MallocTakesRun ==
  ASSUME Inv, NEW n \in 0 .. N, MallocReturns(n)
  PROVE  /\ Place(n) \in Pages /\ Place(n) + n <= N
         /\ \A p \in Window(Place(n), n) : /\ p \in Pages /\ ~InUse(p)
                                           /\ startAddress'[p] = Place(n) /\ size'[p] = n
         /\ \A p \in Pages : InUse(p)' <=> InUse(p) \/ p \in Window(Place(n), n)
         /\ \A p \in Pages : p \notin Window(Place(n), n) =>
              /\ size'[p] = size[p]
              /\ InUse(p) => startAddress'[p] = startAddress[p]
<1> DEFINE s == Place(n)
<1> DEFINE W == Window(s, n)
<1>1. s \in Pages /\ s + n <= N /\ W \subseteq EmptyNow
  BY PlaceFindsRun DEF MallocReturns, Inv, IsRun
<1>2. EmptyNow \subseteq Pages
  BY DEF EmptyNow, Inv, TypeOK
<1>3. \A p \in Pages : InUse(p) <=> p \notin EmptyNow
  BY DEF InUse, EmptyNow
<1>4. /\ empty' = EmptyNow \ W /\ isUserHeapEmpty' = FALSE
      /\ startAddress' = [p \in Pages |-> IF p \in W THEN s ELSE StartNow[p]]
      /\ size' = [p \in Pages |-> IF p \in W THEN n ELSE SizeNow[p]]
  BY DEF MallocReturns
<1> HIDE DEF W
<1>5. \A p \in W : p \in Pages /\ ~InUse(p) /\ startAddress'[p] = s /\ size'[p] = n
  BY <1>1, <1>2, <1>3, <1>4
<1>6. \A p \in Pages : InUse(p)' <=> p \notin empty'
  BY <1>4 DEF InUse
<1>7. \A p \in Pages : InUse(p)' <=> InUse(p) \/ p \in W
  BY <1>3, <1>4, <1>6
<1>8. \A p \in Pages : p \notin W => size'[p] = SizeNow[p] /\ startAddress'[p] = StartNow[p]
  BY <1>4
<1>9. \A p \in Pages : SizeNow[p] = size[p] /\ (InUse(p) => StartNow[p] = startAddress[p])
  BY DEF SizeNow, StartNow, InUse, Inv, FreeHasNoSize
<1>10. s \in Pages /\ s + n <= N
  BY <1>1
<1> QED BY <1>5, <1>7, <1>8, <1>9, <1>10 DEF W

LEMMA MallocReturnsKeepsInv ==
  ASSUME Inv, NEW n \in 0 .. N, MallocReturns(n)
  PROVE  Inv'
<1> DEFINE s == Place(n)
<1> DEFINE W == Window(s, n)
<1>1. s \in Pages /\ s + n <= N
  BY MallocTakesRun
<1>2. \A p \in W : p \in Pages /\ ~InUse(p) /\ startAddress'[p] = s /\ size'[p] = n
  BY MallocTakesRun
<1>3. \A p \in Pages : InUse(p)' <=> InUse(p) \/ p \in W
  BY MallocTakesRun
<1>4. \A p \in Pages : p \notin W => /\ size'[p] = size[p]
                                     /\ InUse(p) => startAddress'[p] = startAddress[p]
  BY MallocTakesRun
<1>5. /\ pageFile' = pageFile \cup W /\ ret' = s /\ Running
      /\ lastAllocatedUHpage' = s + n /\ isUserHeapEmpty' = FALSE
      /\ UNCHANGED <<caller, others, strategy>>
  BY DEF MallocReturns
<1>6. TypeOK'
  <2>1. startAddress' \in [Pages -> Pages \cup {Null}] /\ size' \in [Pages -> 0 .. N]
    BY <1>1 DEF MallocReturns, Inv, TypeOK, StartNow, SizeNow
  <2>2. empty' \subseteq Pages
    BY DEF MallocReturns, Inv, TypeOK, EmptyNow
  <2>3. lastAllocatedUHpage' \in 0 .. N
    BY <1>1, <1>5
  <2>4. pageFile' \subseteq Pages
    <3> HIDE DEF W
    <3> QED BY <1>2, <1>5 DEF Inv, TypeOK
  <2> HIDE DEF s, W
  <2> QED BY <1>1, <1>5, <2>1, <2>2, <2>3, <2>4 DEF Inv, TypeOK
<1>7. BootState'
  BY <1>5 DEF BootState
<1>8. FreeHasNoSize'
  <2> HIDE DEF W
  <2> QED BY <1>3, <1>4 DEF FreeHasNoSize, Inv
<1>9. UsedPagesAreBacked'
  <2>1. pageFile \subseteq Pages /\ (\A p \in Pages : InUse(p) => p \in pageFile)
        /\ \A p \in pageFile : InUse(p)
    BY <1>5 DEF UsedPagesAreBacked, Inv, TypeOK
  <2>2. pageFile' = pageFile \cup W
    BY <1>5
  <2> HIDE DEF W
  <2>3. \A p \in Pages : InUse(p)' => p \in pageFile'
    BY <1>3, <2>1, <2>2
  <2>4. \A p \in pageFile' : InUse(p)'
    BY <1>2, <1>3, <2>1, <2>2
  <2> QED BY <2>3, <2>4 DEF UsedPagesAreBacked
<1>10. BlocksAreWhole'
  <2> SUFFICES ASSUME NEW p \in Pages, InUse(p)'
               PROVE  /\ p \in Window(startAddress'[p], size'[p])
                      /\ caller' = "careful" =>
                           /\ Window(startAddress'[p], size'[p]) \subseteq Pages
                           /\ \A q \in Window(startAddress'[p], size'[p]) :
                                /\ InUse(q)' /\ startAddress'[q] = startAddress'[p]
                                /\ size'[q] = size'[p]
    BY DEF BlocksAreWhole
  <2>1. CASE p \in W
    <3>1. startAddress'[p] = s /\ size'[p] = n
      BY <1>2, <2>1
    <3>2. \A q \in W : q \in Pages /\ InUse(q)' /\ startAddress'[q] = s /\ size'[q] = n
      <4> HIDE DEF W
      <4> QED BY <1>2, <1>3
    <3>3. Window(startAddress'[p], size'[p]) = W
      BY <3>1
    <3> HIDE DEF W, Window
    <3> QED BY <2>1, <3>1, <3>2, <3>3
  <2>2. CASE p \notin W
    <3> DEFINE B == Window(startAddress[p], size[p])
    <3>1. InUse(p)
      BY <1>3, <2>2
    <3>2. startAddress'[p] = startAddress[p] /\ size'[p] = size[p]
      BY <1>4, <2>2, <3>1
    <3>3. /\ p \in B
          /\ caller = "careful" =>
               /\ B \subseteq Pages
               /\ \A q \in B : InUse(q) /\ startAddress[q] = startAddress[p] /\ size[q] = size[p]
      BY <3>1 DEF Inv, BlocksAreWhole
    <3>4. Window(startAddress'[p], size'[p]) = B
      BY <3>2
    <3> HIDE DEF W, B, Window
    <3>5. caller = "careful" => \A q \in B : q \notin W /\ q \in Pages
      BY <1>2, <3>3
    <3> QED BY <1>3, <1>4, <1>5, <3>2, <3>3, <3>4, <3>5
  <2> QED BY <2>1, <2>2
<1> QED BY <1>6, <1>7, <1>8, <1>9, <1>10 DEF Inv

-----------------------------------------------------------------------------
(* free.                                                                   *)

(* What is freed is in use no more and has size 0; nothing else changes.   *)
LEMMA FreeReleasesRun ==
  ASSUME Inv, NEW va \in Pages, Free(va)
  PROVE  /\ Window(va, size[va]) \subseteq Pages
         /\ \A p \in Pages : InUse(p)' <=> InUse(p) /\ p \notin Window(va, size[va])
         /\ \A p \in Window(va, size[va]) : size'[p] = 0
         /\ \A p \in Pages : p \notin Window(va, size[va]) =>
              size'[p] = size[p] /\ startAddress'[p] = startAddress[p]
<1> DEFINE run == Window(va, size[va])
<1>1. /\ run \subseteq Pages
      /\ empty' = empty \cup run
      /\ startAddress' = [p \in Pages |-> IF p \in run THEN p ELSE startAddress[p]]
      /\ size' = [p \in Pages |-> IF p \in run THEN 0 ELSE size[p]]
      /\ isUserHeapEmpty' = isUserHeapEmpty
  BY DEF Free
<1> HIDE DEF run
<1> QED BY <1>1 DEF InUse, run

(* A careful caller frees a whole block, or nothing.                       *)
LEMMA CarefulFree ==
  ASSUME Inv, NEW va \in Pages, Free(va), caller = "careful", NEW p \in Pages, InUse(p)
  PROVE  p \in Window(va, size[va]) <=> startAddress[p] = va
<1>1. /\ p \in Window(startAddress[p], size[p])
      /\ Window(startAddress[p], size[p]) \subseteq Pages
      /\ \A q \in Window(startAddress[p], size[p]) :
           InUse(q) /\ startAddress[q] = startAddress[p] /\ size[q] = size[p]
  BY DEF Inv, BlocksAreWhole
<1>2. size \in [Pages -> 0 .. N] /\ startAddress \in [Pages -> Pages \cup {Null}]
  BY DEF Inv, TypeOK
<1>3. ASSUME startAddress[p] = va PROVE p \in Window(va, size[va])
  <2>1. va \in Window(startAddress[p], size[p])
    BY <1>1, <1>2, <1>3
  <2>2. size[va] = size[p]
    BY <1>1, <2>1
  <2> QED BY <1>1, <1>3, <2>2
<1>4. ASSUME p \in Window(va, size[va]) PROVE startAddress[p] = va
  <2>1. size[va] # 0
    BY <1>2, <1>4
  <2>2. InUse(va)
    BY <2>1 DEF Inv, FreeHasNoSize
  <2>3. startAddress[va] = va
    BY <2>2 DEF Free, InUse
  <2>4. \A q \in Window(startAddress[va], size[va]) : startAddress[q] = startAddress[va]
    BY <2>2 DEF Inv, BlocksAreWhole
  <2> QED BY <1>4, <2>3, <2>4
<1> QED BY <1>3, <1>4

LEMMA FreeKeepsInv ==
  ASSUME Inv, NEW va \in Pages, Free(va)
  PROVE  Inv'
<1> DEFINE run == Window(va, size[va])
<1>1. /\ run \subseteq Pages
      /\ \A p \in Pages : InUse(p)' <=> InUse(p) /\ p \notin run
      /\ \A p \in run : size'[p] = 0
      /\ \A p \in Pages : p \notin run => /\ size'[p] = size[p]
                                          /\ startAddress'[p] = startAddress[p]
  BY FreeReleasesRun
<1>2. /\ pageFile' = pageFile \ run /\ empty' = empty \cup run
      /\ startAddress' = [p \in Pages |-> IF p \in run THEN p ELSE startAddress[p]]
      /\ size' = [p \in Pages |-> IF p \in run THEN 0 ELSE size[p]]
      /\ Running
      /\ UNCHANGED <<caller, lastAllocatedUHpage, isUserHeapEmpty, others, strategy, ret>>
  BY DEF Free
<1>3. TypeOK'
  <2> HIDE DEF run
  <2>1. startAddress' \in [Pages -> Pages \cup {Null}] /\ size' \in [Pages -> 0 .. N]
    BY <1>2 DEF Inv, TypeOK
  <2> QED BY <1>1, <1>2, <2>1 DEF Inv, TypeOK
<1>4. BootState'
  <2> SUFFICES ASSUME isUserHeapEmpty PROVE run = {}
    BY <1>2 DEF Inv, BootState, TypeOK
  <2>1. size[va] = 0
    BY DEF Inv, FreeHasNoSize, InUse
  <2> QED BY <2>1
<1>5. FreeHasNoSize'
  <2> HIDE DEF run
  <2> QED BY <1>1 DEF Inv, FreeHasNoSize
<1>6. UsedPagesAreBacked'
  <2> HIDE DEF run
  <2> QED BY <1>1, <1>2 DEF Inv, TypeOK, UsedPagesAreBacked, Running
<1>7. BlocksAreWhole'
  <2> SUFFICES ASSUME NEW p \in Pages, InUse(p)'
               PROVE  /\ p \in Window(startAddress'[p], size'[p])
                      /\ caller' = "careful" =>
                           /\ Window(startAddress'[p], size'[p]) \subseteq Pages
                           /\ \A q \in Window(startAddress'[p], size'[p]) :
                                /\ InUse(q)' /\ startAddress'[q] = startAddress'[p]
                                /\ size'[q] = size'[p]
    BY DEF BlocksAreWhole
  <2> DEFINE B == Window(startAddress[p], size[p])
  <2>1. InUse(p) /\ p \notin run /\ startAddress'[p] = startAddress[p] /\ size'[p] = size[p]
    BY <1>1
  <2>2. /\ p \in B
        /\ caller = "careful" =>
             /\ B \subseteq Pages
             /\ \A q \in B : InUse(q) /\ startAddress[q] = startAddress[p] /\ size[q] = size[p]
    BY <2>1 DEF Inv, BlocksAreWhole
  <2>3. Window(startAddress'[p], size'[p]) = B
    BY <2>1
  <2>4. caller = "careful" => \A q \in B : q \in Pages /\ q \notin run
    <3> SUFFICES ASSUME caller = "careful", NEW q \in B PROVE q \in Pages /\ q \notin run
      OBVIOUS
    <3>1. q \in Pages /\ InUse(q) /\ startAddress[q] = startAddress[p]
      <4> HIDE DEF B
      <4> QED BY <2>2
    <3>2. q \in run <=> startAddress[q] = va
      BY <3>1, CarefulFree
    <3>3. p \in run <=> startAddress[p] = va
      BY <2>1, CarefulFree
    <3> QED BY <2>1, <3>1, <3>2, <3>3
  <2> HIDE DEF run, B, Window
  <2> QED BY <1>1, <1>2, <2>1, <2>2, <2>3, <2>4
<1> QED BY <1>3, <1>4, <1>5, <1>6, <1>7 DEF Inv

-----------------------------------------------------------------------------
LEMMA OtherStepsKeepInv ==
  ASSUME Inv, \/ \E s \in Strategies : SetStrategy(s)
              \/ OthersTake \/ OthersGiveBack
              \/ UNCHANGED vars
  PROVE  Inv'
<1>1. UNCHANGED <<caller, empty, startAddress, size, isUserHeapEmpty, lastAllocatedUHpage, pageFile, ret>>
  BY DEF SetStrategy, OthersTake, OthersGiveBack, vars, pageArray
<1>2. strategy' \in Strategies
  BY DEF SetStrategy, OthersTake, OthersGiveBack, vars, Inv, TypeOK
<1>3. others' \in 0 .. Room
  <2>1. others \in 0 .. Room /\ Room \in Nat
    BY DEF Inv, TypeOK
  <2>2. CASE OthersTake
    BY <2>1, <2>2, LeftIsInt DEF OthersTake, Inv
  <2>3. CASE OthersGiveBack
    BY <2>1, <2>3 DEF OthersGiveBack
  <2>4. CASE ~OthersTake /\ ~OthersGiveBack
    BY <2>1, <2>4 DEF SetStrategy, vars
  <2> QED BY <2>2, <2>3, <2>4
<1>4. \A p \in Pages : InUse(p)' <=> InUse(p)
  BY <1>1 DEF InUse
<1>5. TypeOK'
  BY <1>1, <1>2, <1>3 DEF Inv, TypeOK
<1>6. BootState' /\ FreeHasNoSize'
  BY <1>1, <1>4 DEF Inv, BootState, FreeHasNoSize
<1>7. UsedPagesAreBacked'
  BY <1>1, <1>4 DEF Inv, TypeOK, UsedPagesAreBacked, Running
<1>8. BlocksAreWhole'
  BY <1>1, <1>4, SameBlocks
<1> QED BY <1>5, <1>6, <1>7, <1>8 DEF Inv

LEMMA InitEstablishesInv == Init => Inv
<1> SUFFICES ASSUME Init PROVE Inv
  OBVIOUS
<1>1. TypeOK /\ BootState
  BY DEF Init, TypeOK, BootState
<1>2. FreeHasNoSize /\ UsedPagesAreBacked /\ BlocksAreWhole
  BY DEF Init, FreeHasNoSize, UsedPagesAreBacked, BlocksAreWhole, InUse
<1> QED BY <1>1, <1>2 DEF Inv

LEMMA NextKeepsInv == Inv /\ [Next]_vars => Inv'
<1> SUFFICES ASSUME Inv, [Next]_vars PROVE Inv'
  OBVIOUS
<1>1. ASSUME NEW n \in 0 .. N, Malloc(n) PROVE Inv'
  BY <1>1, MallocFailsKeepsInv, MallocReturnsKeepsInv, MallocPanicsKeepsInv DEF Malloc
<1>2. ASSUME NEW va \in Pages, Free(va) PROVE Inv'
  BY <1>2, FreeKeepsInv
<1> QED BY <1>1, <1>2, OtherStepsKeepInv DEF Next

(* The invariant holds in every state, whoever calls free with what.       *)
THEOREM HeapInvariant == Spec => []Inv
<1>1. Init => Inv
  BY InitEstablishesInv
<1>2. Inv /\ [Next]_vars => Inv'
  BY NextKeepsInv
<1> QED BY <1>1, <1>2, PTL DEF Spec

(* The variables keep their types: the rover stays within the heap and no  *)
(* block reaches past it (uheap.c:20-44).                                  *)
THEOREM TypeCorrect == Spec => []TypeOK
BY HeapInvariant, PTL DEF Inv

(* The page array of the process and the page file agree on which pages    *)
(* there are, also for a careless caller of free (uheap.c:201-226).        *)
THEOREM PagesStayBacked == Spec => []UsedPagesAreBacked
BY HeapInvariant, PTL DEF Inv

(* Every page knows its block, and for a careful caller one free releases  *)
(* all of it and nothing else (uheap.c:163-177, 201-226).                  *)
THEOREM BlocksStayWhole == Spec => []BlocksAreWhole
BY HeapInvariant, PTL DEF Inv

-----------------------------------------------------------------------------
(* The heap implements AbsHeap for a careful caller.                       *)

LEMMA SameOwners ==
  ASSUME caller' = caller,
         \A p \in Pages : /\ InUse(p)' <=> InUse(p)
                          /\ InUse(p) => startAddress'[p] = startAddress[p]
  PROVE  owner' = owner
BY DEF owner, Careful

(* To a careless caller nothing is promised: the mapping shows no change.  *)
LEMMA CarelessStutters ==
  ASSUME Inv, [Next]_vars, ~Careful
  PROVE  UNCHANGED Abs!vars
<1>1. caller' = caller
  BY DEF Next, Malloc, MallocFails, MallocReturns, MallocPanics, Free, SetStrategy,
         OthersTake, OthersGiveBack, vars
<1>2. owner = [p \in Pages |-> Null] /\ owner' = [p \in Pages |-> Null]
  BY <1>1 DEF owner, Careful
<1> QED BY <1>1, <1>2 DEF Abs!vars, Careful

LEMMA MallocImplementsAbs ==
  ASSUME Inv, Careful, NEW n \in 0 .. N, Malloc(n)
  PROVE  Abs!Next
<1>1. CASE MallocFails(n)
  <2>1. ArrayInitialised /\ caller' = caller /\ ret' = Null
    BY <1>1 DEF MallocFails, ArrayInitialised
  <2>2. owner' = owner
    BY <2>1, InitialisedSame, SameOwners
  <2>3. Abs!Refuse
    BY <2>1, <2>2 DEF Abs!Refuse, Abs!Null, Careful
  <2> QED BY <2>3 DEF Abs!Next
<1>2. CASE MallocReturns(n)
  <2> DEFINE s == Place(n)
  <2> DEFINE W == Window(s, n)
  <2>1. /\ s \in Pages
        /\ \A p \in W : p \in Pages /\ ~InUse(p) /\ startAddress'[p] = s
        /\ \A p \in Pages : InUse(p)' <=> InUse(p) \/ p \in W
        /\ \A p \in Pages : p \notin W /\ InUse(p) => startAddress'[p] = startAddress[p]
    BY <1>2, MallocTakesRun
  <2>2. caller' = caller /\ ret' = s
    BY <1>2 DEF MallocReturns
  <2>3. W = Abs!Window(s, n)
    BY DEF Abs!Window
  <2> HIDE DEF W, s
  <2>4. \A p \in W : p \in Pages /\ owner[p] = Null
    BY <2>1 DEF owner
  <2>5. owner' = [p \in Pages |-> IF p \in W THEN s ELSE owner[p]]
    <3>1. owner' = [p \in Pages |-> IF InUse(p)' THEN startAddress'[p] ELSE Null]
      BY <2>2 DEF owner, Careful
    <3>2. \A p \in Pages : (IF InUse(p)' THEN startAddress'[p] ELSE Null)
                           = (IF p \in W THEN s ELSE owner[p])
      BY <2>1 DEF owner
    <3> QED BY <3>1, <3>2
  <2>6. Abs!Grant(n)
    BY <2>1, <2>2, <2>3, <2>4, <2>5
       DEF Abs!Grant, Abs!Unowned, Abs!Take, Abs!Pages, Abs!Null, Careful
  <2> QED BY <2>6 DEF Abs!Next
<1>3. CASE MallocPanics(n)
  <2>1. ArrayInitialised /\ caller' = caller /\ ret' = Panic
    BY <1>3 DEF MallocPanics, ArrayInitialised
  <2>2. owner' = owner
    BY <2>1, InitialisedSame, SameOwners
  <2>3. owner' = [p \in Pages |-> IF p \in Abs!Window(0, 0) THEN 0 ELSE owner[p]]
    BY <2>2 DEF owner, Abs!Window
  <2>4. 0 \in Pages /\ 0 \in 0 .. 1 - 1 /\ 1 \in 0 .. N
    OBVIOUS
  <2>5. Abs!Unowned(0, 0)
    BY DEF Abs!Unowned, Abs!Window
  <2>6. Abs!BreakOff(1)
    BY <2>1, <2>3, <2>4, <2>5
       DEF Abs!BreakOff, Abs!Take, Abs!Pages, Abs!Panic, Panic, Careful
  <2> QED BY <2>4, <2>6 DEF Abs!Next
<1> QED BY <1>1, <1>2, <1>3 DEF Malloc

LEMMA FreeImplementsAbs ==
  ASSUME Inv, Careful, NEW va \in Pages, Free(va)
  PROVE  Abs!Release(va)
<1> DEFINE run == Window(va, size[va])
<1>1. /\ \A p \in Pages : InUse(p)' <=> InUse(p) /\ p \notin run
      /\ \A p \in Pages : p \notin run => startAddress'[p] = startAddress[p]
  BY FreeReleasesRun
<1>2. \A p \in Pages : InUse(p) => (p \in run <=> startAddress[p] = va)
  BY CarefulFree DEF Careful
<1>3. caller' = caller /\ ret' = ret
  BY DEF Free
<1> HIDE DEF run
<1>4. owner' = [p \in Pages |-> IF InUse(p)' THEN startAddress'[p] ELSE Null]
  BY <1>3 DEF owner, Careful
<1>5. \A p \in Pages : (IF InUse(p)' THEN startAddress'[p] ELSE Null)
                       = (IF owner[p] = va THEN Null ELSE owner[p])
  <2> TAKE p \in Pages
  <2>1. owner[p] = IF InUse(p) THEN startAddress[p] ELSE Null
    BY DEF owner
  <2>2. va # Null
    OBVIOUS
  <2> QED BY <1>1, <1>2, <2>1, <2>2
<1>6. owner' = [p \in Pages |-> IF owner[p] = va THEN Null ELSE owner[p]]
  BY <1>4, <1>5
<1> QED BY <1>3, <1>6 DEF Abs!Release, Abs!Pages, Abs!Null, Careful

LEMMA StepImplementsAbs ==
  ASSUME Inv, [Next]_vars
  PROVE  [Abs!Next]_(Abs!vars)
<1>1. CASE ~Careful
  BY <1>1, CarelessStutters
<1>2. CASE Careful
  <2>1. ASSUME NEW n \in 0 .. N, Malloc(n) PROVE Abs!Next
    BY <1>2, <2>1, MallocImplementsAbs
  <2>2. ASSUME NEW va \in Pages, Free(va) PROVE Abs!Next
    BY <1>2, <2>2, FreeImplementsAbs DEF Abs!Next, Abs!Pages
  <2>3. ASSUME \/ \E s \in Strategies : SetStrategy(s)
               \/ OthersTake \/ OthersGiveBack
               \/ UNCHANGED vars
        PROVE  UNCHANGED Abs!vars
    <3>1. UNCHANGED <<caller, empty, startAddress, isUserHeapEmpty, ret>>
      BY <2>3 DEF SetStrategy, OthersTake, OthersGiveBack, vars, pageArray
    <3>2. owner' = owner
      BY <3>1, SameOwners DEF InUse
    <3> QED BY <3>1, <3>2 DEF Abs!vars, Careful
  <2> QED BY <2>1, <2>2, <2>3 DEF Next
<1> QED BY <1>1, <1>2

(* malloc and free implement the abstract heap to a caller that frees only *)
(* what it was given, also when a system call under malloc panics.         *)
THEOREM HeapImplementsAbs == Spec => AbsSpec
<1>1. Init => Abs!Init
  BY DEF Init, Abs!Init, owner, InUse, Abs!Pages, Abs!Null, Abs!NoCall, NoCall
<1>2. Inv /\ [Next]_vars => [Abs!Next]_(Abs!vars)
  BY StepImplementsAbs
<1> QED BY <1>1, <1>2, HeapInvariant, PTL DEF Spec, AbsSpec, Abs!Spec

=============================================================================
