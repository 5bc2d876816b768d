---------------------------- MODULE SearchProofs ----------------------------
(***************************************************************************)
(* Partial correctness of the searches of the kernel: the loops of kheap.c *)
(* find the block Placement says they find, on a heap of any size, and the *)
(* passes of trap.c the victim of ModifiedClock, in a working set of any   *)
(* size and with the hand anywhere.  That they end is left to TLC.         *)
(***************************************************************************)
EXTENDS PlacementScan, PlacementProofs, ClockScan

USE NAssumption DEF Pages, Null, Window, maxKernelHeapPages

(* The least element of a set is what Min chooses.                         *)
LEMMA MinIs ==
  ASSUME NEW S \in SUBSET Int, NEW x \in S, \A y \in S : x <= y
  PROVE  Min(S) = x
<1>1. Min(S) \in S /\ \A y \in S : Min(S) <= y
  BY DEF Min
<1>2. Min(S) \in Int /\ x \in Int /\ Min(S) <= x /\ x <= Min(S)
  BY <1>1
<1> QED BY <1>2

(* What getStartAddress returns when s is the first run that fits, and     *)
(* when there is none.                                                     *)
LEMMA FirstRunFound ==
  ASSUME NEW E \in SUBSET Pages, NEW from \in 0 .. N, NEW to \in 0 .. N,
         NEW k \in Nat \ {0}, NEW s \in from .. to-k, Window(s, k) \subseteq E,
         \A r \in from .. s-1 : ~(Window(r, k) \subseteq E)
  PROVE  getStartAddress(E, from, to, k) = s
<1> DEFINE fits == {r \in from .. to-k : Window(r, k) \subseteq E}
<1>1. s \in fits /\ \A r \in fits : s <= r
  OBVIOUS
<1>2. fits \in SUBSET Int
  OBVIOUS
<1>3. getStartAddress(E, from, to, k) = Min(fits)
  BY <1>1 DEF getStartAddress
<1> HIDE DEF fits
<1> QED BY <1>1, <1>2, <1>3, MinIs

LEMMA NoRunFound ==
  ASSUME NEW E, NEW from \in 0 .. N, NEW to \in 0 .. N, NEW k \in Nat,
         k # 0 => \A r \in from .. to-k : ~(Window(r, k) \subseteq E)
  PROVE  getStartAddress(E, from, to, k) = Null
BY DEF getStartAddress

-----------------------------------------------------------------------------
(* Next fit: the scan of [from, to) has come to "start"; the pages before  *)
(* it end in a run of freeSize free ones that begins at "from" or after a  *)
(* page in use, and no run before "start" has the size asked for.          *)
Scanned(from, to) ==
  /\ start \in from .. to
  /\ freeSize \in 0 .. start - from
  /\ start - freeSize .. start - 1 \subseteq empty
  /\ start - freeSize > from => start - freeSize - 1 \notin empty
  /\ n # 0 => /\ freeSize < n
              /\ \A r \in from .. start - n : ~(Window(r, n) \subseteq empty)

NextFitInv ==
  /\ pc = "ahead" => Scanned(last, N)
  /\ pc # "done" => result = Null
  /\ pc = "behind" => /\ Scanned(0, last)
                      /\ getStartAddress(empty, last, N, n) = Null
  /\ pc = "done" => result = nextFit(empty, last, n)

(* Best fit: the run being counted, and the best of the holes that ended   *)
(* before it.                                                              *)
Counted ==
  IF block.frames = -1 THEN start - 1 \notin empty
  ELSE /\ block.frames \in 1 .. start
       /\ block.at = start - block.frames
       /\ block.at .. start - 1 \subseteq empty
       /\ block.at - 1 \notin empty

Ended(s) == {h \in Holes(empty) : h[2] < s - 1 /\ Length(h) >= n}

(* A hole as small as another, and before it when they are equal.          *)
AsGood(h, g) ==
  \/ Length(h) < Length(g)
  \/ Length(h) = Length(g) /\ h[1] <= g[1]

BestOf(S, best) ==
  \/ S = {} /\ best = [at |-> Null, frames |-> N + 1]
  \/ \E h \in S : /\ best = [at |-> h[1], frames |-> Length(h)]
                  /\ \A g \in S : AsGood(h, g)

BestFitInv ==
  /\ pc = "best" => /\ start \in 0 .. N
                    /\ block.frames \in Int
                    /\ Counted
                    /\ BestOf(Ended(start), bestLocation)
  /\ pc = "done" => result = bestFit(empty, n)

Inv ==
  /\ empty \subseteq Pages
  /\ last \in 0 .. N
  /\ n \in 0 .. N+1
  /\ \/ /\ strategy = "NEXTFIT"
        /\ pc \in {"ahead", "behind", "done"}
        /\ NextFitInv
     \/ /\ strategy = "BESTFIT"
        /\ pc \in {"best", "done"}
        /\ block \in [at : Int, frames : Int]
        /\ BestFitInv

-----------------------------------------------------------------------------
LEMMA InitInv == Init => Inv
<1> SUFFICES ASSUME Init PROVE Inv
  OBVIOUS
<1> USE DEF Init
<1>1. CASE strategy = "NEXTFIT"
  BY <1>1 DEF Inv, NextFitInv, Scanned
<1>2. CASE strategy = "BESTFIT"
  <2>1. Ended(0) = {}
    BY DEF Ended, Holes
  <2>2. BestOf(Ended(start), bestLocation)
    BY <1>2, <2>1 DEF BestOf, AsGood
  <2> QED BY <1>2, <2>2 DEF Inv, BestFitInv, Counted
<1> QED BY <1>1, <1>2

(* A step of the scan, in either range, keeps Scanned or ends the search   *)
(* with the first run of the range.                                        *)
LEMMA ScanStep ==
  ASSUME empty \subseteq Pages, n \in 0 .. N+1,
         NEW from \in 0 .. N, NEW to \in 0 .. N, Scanned(from, to), start < to
  PROVE  /\ Found => getStartAddress(empty, from, to, n) = start + 1 - n
         /\ ~Found /\ UNCHANGED <<empty, n>> /\ start' = start + 1
              /\ freeSize' = (IF start \in empty THEN freeSize + 1 ELSE 0)
              => Scanned(from, to)'
<1> USE DEF Scanned
<1>1. ASSUME Found PROVE getStartAddress(empty, from, to, n) = start + 1 - n
  <2>1. n \in Nat \ {0} /\ start + 1 - n \in from .. to - n
    BY <1>1 DEF Found
  <2>2. Window(start + 1 - n, n) \subseteq empty
    BY <1>1 DEF Found
  <2>3. \A r \in from .. start + 1 - n - 1 : ~(Window(r, n) \subseteq empty)
    BY <2>1
  <2>4. empty \in SUBSET Pages
    OBVIOUS
  <2> DEFINE s == start + 1 - n
  <2>5. s \in from .. to - n /\ Window(s, n) \subseteq empty
        /\ \A r \in from .. s - 1 : ~(Window(r, n) \subseteq empty)
    BY <2>1, <2>2, <2>3
  <2> HIDE DEF s, Scanned, Window, Pages
  <2>6. getStartAddress(empty, from, to, n) = s
    BY <2>1, <2>4, <2>5, FirstRunFound
  <2> QED BY <2>6 DEF s
<1>2. ASSUME ~Found, UNCHANGED <<empty, n>>, start' = start + 1,
             freeSize' = IF start \in empty THEN freeSize + 1 ELSE 0
      PROVE  Scanned(from, to)'
  <2>1. CASE start \in empty
    <3>1. /\ start' \in from .. to
          /\ freeSize' \in 0 .. start' - from
          /\ start' - freeSize' .. start' - 1 \subseteq empty'
          /\ start' - freeSize' > from => start' - freeSize' - 1 \notin empty'
          /\ n' # 0 => freeSize' < n'
      BY <1>2, <2>1 DEF Found
    <3>2. ASSUME n # 0, NEW r \in from .. start + 1 - n PROVE ~(Window(r, n) \subseteq empty)
      <4>1. CASE r <= start - n
        BY <3>2, <4>1
      <4>2. CASE r = start + 1 - n
        <5>1. start - freeSize - 1 \in Window(r, n) /\ start - freeSize - 1 \notin empty
          BY <1>2, <2>1, <3>2, <4>2 DEF Found
        <5> QED BY <5>1
      <4> QED BY <3>2, <4>1, <4>2
    <3> QED BY <1>2, <3>1, <3>2
  <2>2. CASE start \notin empty
    <3>1. ASSUME n # 0, NEW r \in from .. start + 1 - n PROVE ~(Window(r, n) \subseteq empty)
      <4>1. CASE r <= start - n
        BY <3>1, <4>1
      <4>2. CASE r = start + 1 - n
        <5>1. start \in Window(r, n)
          BY <3>1, <4>2
        <5> QED BY <2>2, <5>1
      <4> QED BY <3>1, <4>1, <4>2
    <3> QED BY <1>2, <2>2, <3>1
  <2> QED BY <2>1, <2>2
<1> QED BY <1>1, <1>2

LEMMA NextFitStep ==
  ASSUME Inv, [Next]_vars, strategy = "NEXTFIT"
  PROVE  Inv'
<1> USE DEF Inv, NextFitInv
<1>1. CASE ScanPage /\ pc = "ahead"
  <2>1. Scanned(last, N) /\ start < N /\ N \in 0 .. N
    BY <1>1 DEF ScanPage, ScanEnd
  <2>2. CASE Found
    <3>1. getStartAddress(empty, last, N, n) = start + 1 - n
      BY <2>1, <2>2, ScanStep
    <3>2. start + 1 - n # Null
      BY <2>1, <2>2 DEF Found, Scanned
    <3> QED BY <1>1, <2>2, <3>1, <3>2 DEF ScanPage, heap, nextFit
  <2>3. CASE ~Found
    <3>1. Scanned(last, N)'
      BY <1>1, <2>1, <2>3, ScanStep DEF ScanPage, heap
    <3> QED BY <1>1, <2>3, <3>1 DEF ScanPage, heap
  <2> QED BY <2>2, <2>3
<1>2. CASE ScanPage /\ pc = "behind"
  <2>1. Scanned(0, last) /\ start < last /\ 0 \in 0 .. N
    BY <1>2 DEF ScanPage, ScanEnd
  <2>2. CASE Found
    <3>1. getStartAddress(empty, 0, last, n) = start + 1 - n
      BY <2>1, <2>2, ScanStep
    <3> QED BY <1>2, <2>2, <3>1 DEF ScanPage, heap, nextFit
  <2>3. CASE ~Found
    <3>1. Scanned(0, last)'
      BY <1>2, <2>1, <2>3, ScanStep DEF ScanPage, heap
    <3> QED BY <1>2, <2>3, <3>1 DEF ScanPage, heap
  <2> QED BY <2>2, <2>3
<1>3. CASE ScanMisses /\ pc = "ahead"
  <2>1. Scanned(last, N) /\ start = N
    <3>1. Scanned(last, N)
      BY <1>3
    <3>2. start >= N /\ N \in Nat
      BY <1>3 DEF ScanMisses, ScanEnd
    <3>3. start \in last .. N
      BY <3>1 DEF Scanned
    <3> QED BY <3>1, <3>2, <3>3
  <2>2. getStartAddress(empty, last, N, n) = Null
    <3>1. N \in 0 .. N /\ last \in 0 .. N /\ n \in Nat
      OBVIOUS
    <3>2. n # 0 => \A r \in last .. N - n : ~(Window(r, n) \subseteq empty)
      BY <2>1 DEF Scanned
    <3> QED BY <3>1, <3>2, NoRunFound
  <2>3. Scanned(0, last)'
    BY <1>3 DEF ScanMisses, heap, Scanned
  <2> QED BY <1>3, <2>2, <2>3 DEF ScanMisses, heap
<1>4. CASE ScanMisses /\ pc = "behind"
  <2>1. Scanned(0, last) /\ start = last
    BY <1>4 DEF ScanMisses, ScanEnd, Scanned
  <2>2. getStartAddress(empty, 0, last, n) = Null
    <3>1. last \in 0 .. N /\ 0 \in 0 .. N /\ n \in Nat
      OBVIOUS
    <3>2. n # 0 => \A r \in 0 .. last - n : ~(Window(r, n) \subseteq empty)
      BY <2>1 DEF Scanned
    <3> QED BY <3>1, <3>2, NoRunFound
  <2>3. result = Null
    BY <1>4
  <2> QED BY <1>4, <2>2, <2>3 DEF ScanMisses, heap, nextFit
<1>5. CASE UNCHANGED vars
  BY <1>5 DEF vars, heap, Scanned
<1> QED BY <1>1, <1>2, <1>3, <1>4, <1>5
        DEF Next, ScanPage, ScanMisses, BestFitPage, BestFitReturn

-----------------------------------------------------------------------------
(* A hole that ends at page s-1 is the run that was being counted.         *)
LEMMA HoleIsRun ==
  ASSUME empty \subseteq Pages, start \in Nat, Counted, block.at \in Int, block.frames \in Int,
         NEW h \in Holes(empty), h[2] = start - 1
  PROVE  block.frames # -1 /\ h = <<block.at, start - 1>> /\ Length(h) = block.frames
<1>1. /\ h[1] \in Pages /\ h[1] <= start - 1 /\ h[1] .. start - 1 \subseteq empty
      /\ h[1] - 1 \notin empty /\ h = <<h[1], h[2]>>
  BY DEF Holes
<1>2. block.frames # -1
  BY <1>1 DEF Counted
<1>3. ~(h[1] < block.at)
  <2>1. h[1] < block.at => block.at - 1 \in h[1] .. start - 1
    BY <1>1, <1>2 DEF Counted
  <2> QED BY <1>1, <1>2, <2>1 DEF Counted
<1>4. ~(block.at < h[1])
  <2>1. block.at < h[1] => h[1] - 1 \in block.at .. start - 1
    BY <1>1, <1>2 DEF Counted
  <2> QED BY <1>1, <1>2, <2>1 DEF Counted
<1>5. h[1] = block.at
  BY <1>1, <1>2, <1>3, <1>4 DEF Counted
<1> QED BY <1>1, <1>2, <1>5 DEF Counted, Length

(* The run being counted is a hole when the page after it is not free.     *)
LEMMA RunIsHole ==
  ASSUME empty \subseteq Pages, start \in Nat, Counted, block.at \in Int, block.frames # -1,
         start \notin empty
  PROVE  <<block.at, start - 1>> \in Holes(empty) /\ Length(<<block.at, start - 1>>) = block.frames
<1>1. block.at \in empty /\ start - 1 \in empty
  BY DEF Counted
<1> QED BY <1>1 DEF Counted, Holes, Length

(* Where the page at "start" is not free, Better gives the best of the     *)
(* holes that ended before it, the run just counted included.              *)
LEMMA BetterIsBest ==
  ASSUME empty \subseteq Pages, n \in 0 .. N+1, start \in 0 .. N,
         block \in [at : Int, frames : Int],
         Counted, BestOf(Ended(start), bestLocation), start \notin empty
  PROVE  BestOf(Ended(start + 1), Better(block, bestLocation))
<1> DEFINE run == <<block.at, start - 1>>
<1>1. \A h \in Ended(start) : /\ h[1] \in Pages /\ h[2] \in Pages /\ h[1] <= h[2]
                               /\ h[2] < start - 1 /\ Length(h) = h[2] - h[1] + 1
  BY DEF Ended, Holes, Length
<1>2. CASE block.frames # -1 /\ block.frames >= n
  <2>1. /\ run \in Holes(empty) /\ Length(run) = block.frames
        /\ run[1] = block.at /\ run[2] = start - 1
    BY <1>2, RunIsHole
  <2>2. Ended(start + 1) = Ended(start) \cup {run}
    <3>1. ASSUME NEW h \in Ended(start + 1), h \notin Ended(start) PROVE h = run
      <4>1. h \in Holes(empty) /\ h[2] = start - 1
        BY <3>1 DEF Ended, Holes
      <4> QED BY <4>1, HoleIsRun
    <3>2. run \in Ended(start + 1)
      BY <1>2, <2>1 DEF Ended
    <3>3. Ended(start) \subseteq Ended(start + 1)
      BY DEF Ended, Holes
    <3> HIDE DEF run
    <3> QED BY <3>1, <3>2, <3>3
  <2>3. \A g \in Ended(start) : g[1] < run[1]
    <3> TAKE g \in Ended(start)
    <3>1. g[2] + 1 \notin empty
      BY DEF Ended, Holes
    <3>2. CASE block.at <= g[1]
      <4>1. g[2] + 1 \in block.at .. start - 1
        BY <1>1, <3>2
      <4> QED BY <1>2, <3>1, <4>1 DEF Counted
    <3> QED BY <1>1, <2>1, <3>2
  <2>4. block.frames \in 1 .. N
    BY <1>2 DEF Counted
  <2> HIDE DEF run
  <2>5. CASE bestLocation.frames > block.frames
    <3>1. Better(block, bestLocation) = [at |-> run[1], frames |-> Length(run)]
      BY <1>2, <2>1, <2>5 DEF Better
    <3>2. \A g \in Ended(start) : Length(run) < Length(g)
      BY <2>1, <2>5, <1>1, <2>4 DEF BestOf, AsGood
    <3> QED BY <2>2, <3>1, <3>2, <2>1, <2>4 DEF BestOf, AsGood
  <2>6. CASE ~(bestLocation.frames > block.frames)
    <3>1. Better(block, bestLocation) = bestLocation
      BY <2>6 DEF Better
    <3>2. PICK h \in Ended(start) :
            /\ bestLocation = [at |-> h[1], frames |-> Length(h)]
            /\ \A g \in Ended(start) : AsGood(h, g)
      <4>1. bestLocation # [at |-> Null, frames |-> N + 1]
        BY <2>4, <2>6
      <4> QED BY <4>1, BestOf(Ended(start), bestLocation) DEF BestOf
    <3>3. AsGood(h, run)
      BY <1>1, <2>1, <2>3, <2>4, <2>6, <3>2 DEF AsGood
    <3> QED BY <2>2, <3>1, <3>2, <3>3 DEF BestOf, AsGood
  <2> QED BY <2>5, <2>6
<1>3. CASE ~(block.frames # -1 /\ block.frames >= n)
  <2>1. Better(block, bestLocation) = bestLocation
    BY <1>3 DEF Better
  <2>2. Ended(start + 1) = Ended(start)
    <3>1. ASSUME NEW h \in Ended(start + 1), h \notin Ended(start) PROVE FALSE
      <4>1. h \in Holes(empty) /\ h[2] = start - 1 /\ Length(h) >= n
        BY <3>1 DEF Ended, Holes
      <4> QED BY <1>3, <4>1, HoleIsRun
    <3>2. Ended(start) \subseteq Ended(start + 1)
      BY DEF Ended, Holes
    <3> QED BY <3>1, <3>2
  <2> QED BY <2>1, <2>2
<1> QED BY <1>2, <1>3

(* What bestFit's last line tests is whether the tail of the heap fits.    *)
LEMMA TailIsRun ==
  ASSUME empty \subseteq Pages, n \in 0 .. N+1, start = N, block \in [at : Int, frames : Int],
         Counted
  PROVE  TailFits(empty, n) <=> ~(block.frames < n)
<1>1. CASE block.frames = -1
  BY <1>1 DEF Counted, TailFits
<1>2. CASE block.frames # -1
  <2>1. /\ block.frames \in 1 .. N /\ block.at = N - block.frames /\ N - 1 \in empty
        /\ N - block.frames .. N - 1 \subseteq empty /\ N - block.frames - 1 \notin empty
    BY <1>2 DEF Counted
  <2>2. ASSUME ~(block.frames < n) PROVE TailFits(empty, n)
    BY <2>1, <2>2 DEF TailFits
  <2>3. ASSUME block.frames < n PROVE ~TailFits(empty, n)
    <3>1. n <= N => N - block.frames - 1 \in Window(N - n, n)
      BY <2>1, <2>3
    <3> QED BY <2>1, <3>1 DEF TailFits
  <2> QED BY <2>2, <2>3
<1> QED BY <1>1, <1>2

(* The best of all holes that fit is the one bestFit defines.              *)
LEMMA BestIsBestFit ==
  ASSUME NEW E \in SUBSET Pages, NEW k \in Nat, TailFits(E, k),
         NEW h \in {g \in Holes(E) : Length(g) >= k},
         \A g \in {g \in Holes(E) : Length(g) >= k} :
            AsGood(h, g)
  PROVE  bestFit(E, k) = h[1]
<1> DEFINE fits == {g \in Holes(E) : Length(g) >= k}
           sizes == {Length(g) : g \in fits}
           size == Min(sizes)
           starts == {g[1] : g \in {g \in fits : Length(g) = size}}
<1>1. \A g \in fits : g[1] \in Int /\ Length(g) \in Int
  BY DEF Holes, Length
<1>2. size = Length(h)
  <2>1. sizes \in SUBSET Int /\ Length(h) \in sizes /\ \A y \in sizes : Length(h) <= y
    BY <1>1 DEF AsGood
  <2> HIDE DEF sizes
  <2> QED BY <2>1, MinIs
<1>3. Min(starts) = h[1]
  <2>1. starts \in SUBSET Int /\ h[1] \in starts /\ \A y \in starts : h[1] <= y
    <3> HIDE DEF size
    <3> QED BY <1>1, <1>2 DEF AsGood
  <2> HIDE DEF starts
  <2> QED BY <2>1, MinIs
<1>4. bestFit(E, k) = Min(starts)
  BY DEF bestFit
<1> QED BY <1>3, <1>4

LEMMA BestFitStep ==
  ASSUME Inv, [Next]_vars, strategy = "BESTFIT"
  PROVE  Inv'
<1> USE DEF Inv, BestFitInv
<1>1. CASE BestFitPage /\ start \in empty
  <2>1. Counted'
    BY <1>1 DEF BestFitPage, heap, Counted
  <2>2. Ended(start') = Ended(start)
    <3>1. \A h \in Holes(empty) : h[2] # start - 1
      <4> TAKE h \in Holes(empty)
      <4>1. h[2] \in Pages /\ h[2] + 1 \notin empty
        BY DEF Holes
      <4> QED BY <1>1, <4>1 DEF BestFitPage
    <3>2. \A h \in Holes(empty) : h[2] \in Int
      BY DEF Holes
    <3>3. start' = start + 1 /\ start \in Int
      BY <1>1 DEF BestFitPage
    <3> QED BY <3>1, <3>2, <3>3 DEF Ended
  <2>3. BestOf(Ended(start), bestLocation)'
    BY <1>1, <2>2 DEF BestFitPage, heap, BestOf, AsGood, Ended, Holes, Length
  <2>4. block' \in [at : Int, frames : Int] /\ start' \in 0 .. N
    BY <1>1 DEF BestFitPage
  <2> QED BY <1>1, <2>1, <2>3, <2>4 DEF BestFitPage, heap
<1>2. CASE BestFitPage /\ start \notin empty
  <2>1. Counted' /\ block' \in [at : Int, frames : Int] /\ start' \in 0 .. N
    BY <1>2 DEF BestFitPage, heap, Counted
  <2>2. BestOf(Ended(start + 1), Better(block, bestLocation))
    BY <1>2, BetterIsBest DEF BestFitPage
  <2>3. BestOf(Ended(start), bestLocation)'
    BY <1>2, <2>2 DEF BestFitPage, heap, BestOf, AsGood, Ended, Holes, Length
  <2> QED BY <1>2, <2>1, <2>3 DEF BestFitPage, heap
<1>3. CASE BestFitReturn
  <2> DEFINE best == Better(block, bestLocation)
  <2>1. /\ start = N /\ start \notin empty /\ pc' = "done"
        /\ result' = IF block.frames < n THEN Null ELSE best.at
        /\ UNCHANGED <<empty, last, n, strategy, block>>
    BY <1>3 DEF BestFitReturn, heap
  <2>2. BestOf(Ended(N + 1), best)
    BY <1>3, <2>1, BetterIsBest DEF BestFitReturn
  <2>3. Ended(N + 1) = {h \in Holes(empty) : Length(h) >= n}
    BY DEF Ended, Holes
  <2>4. TailFits(empty, n) <=> ~(block.frames < n)
    BY <1>3, <2>1, TailIsRun DEF BestFitReturn
  <2>5. CASE TailFits(empty, n)
    <3>1. n \in Nat /\ empty \in SUBSET Pages
      OBVIOUS
    <3>2. Ended(N + 1) # {}
      BY <2>3, <2>5, <3>1, TailIsAHole
    <3>3. PICK h \in Ended(N + 1) :
            /\ best = [at |-> h[1], frames |-> Length(h)]
            /\ \A g \in Ended(N + 1) : AsGood(h, g)
      BY <2>2, <3>2 DEF BestOf
    <3>4. bestFit(empty, n) = h[1]
      BY <2>3, <2>5, <3>1, <3>3, BestIsBestFit
    <3> QED BY <1>3, <2>1, <2>4, <2>5, <3>3, <3>4
  <2>6. CASE ~TailFits(empty, n)
    <3>1. bestFit(empty, n) = Null
      BY <2>6 DEF bestFit
    <3> QED BY <2>1, <2>4, <2>6, <3>1
  <2> QED BY <2>5, <2>6
<1>4. CASE UNCHANGED vars
  BY <1>4 DEF vars, heap, Counted, BestOf, AsGood, Ended, Holes, Length
<1> QED BY <1>1, <1>2, <1>3, <1>4
        DEF Next, ScanPage, ScanMisses, BestFitPage, BestFitReturn

-----------------------------------------------------------------------------
(* The inductive invariant: how far each loop has come, and what it knows. *)
THEOREM ScanInvariant == Spec => []Inv
<1>1. Init => Inv
  BY InitInv
<1>2. Inv /\ [Next]_vars => Inv'
  BY NextFitStep, BestFitStep DEF Inv
<1> QED BY <1>1, <1>2, PTL DEF Spec

(* The two loops of nextFit find the block Placement says they find, for   *)
(* heaps of any size, wherever the rover is (kheap.c:26-55).               *)
THEOREM NextFitFindsItsBlock == Spec => []NextFitScanIsNextFit
<1>1. Inv => NextFitScanIsNextFit
  BY DEF Inv, NextFitInv, NextFitScanIsNextFit
<1> QED BY <1>1, ScanInvariant, PTL

(* The single pass of bestFit finds the first of the smallest holes that   *)
(* are large enough if the tail of the heap is, and 0 otherwise            *)
(* (kheap.c:61-95).                                                        *)
THEOREM BestFitFindsItsBlock == Spec => []BestFitScanIsBestFit
<1>1. Inv => BestFitScanIsBestFit
  BY DEF Inv, BestFitInv, BestFitScanIsBestFit
<1> QED BY <1>1, ScanInvariant, PTL

-----------------------------------------------------------------------------
(* The passes of modifiedClock.                                            *)
USE MaxAssumption

Slots == SlotsOf(WSMax)

(* The slots the victim is the first of.                                   *)
Best ==
  IF Clean(WSMax, used0, modified) # {} THEN Clean(WSMax, used0, modified)
  ELSE IF Dirty(used0, modified) # {} THEN Dirty(used0, modified)
  ELSE IF Slots \ modified # {} THEN Slots \ modified
  ELSE Slots

(* The slots the two passes of a try have gone over.                       *)
Looked ==
  IF pass \in {1, 3} THEN hand0 .. i-1 ELSE (hand0 .. WSMax-1) \union (0 .. i-1)

(* The first round of the while loop, and the second, which begins with    *)
(* every page used and their used bits cleared.                            *)
FirstRound ==
  \/ /\ pass \in {1, 2}
     /\ used = used0
     /\ Looked \intersect Clean(WSMax, used0, modified) = {}
  \/ /\ pass \in {3, 4}
     /\ Clean(WSMax, used0, modified) = {}
     /\ used = used0 \ Looked
     /\ Looked \intersect Dirty(used0, modified) = {}

SecondRound ==
  /\ Clean(WSMax, used0, modified) = {}
  /\ Dirty(used0, modified) = {}
  /\ used = {}
  /\ \/ pass \in {1, 2} /\ Looked \subseteq modified
     \/ pass \in {3, 4} /\ Slots \subseteq modified /\ Looked = {}

SearchInv ==
  /\ lastClockIndex = hand0
  /\ i \in IF pass \in {1, 3} THEN hand0 .. WSMax ELSE 0 .. hand0
  /\ FirstRound \/ SecondRound

FoundInv ==
  /\ victim \in Best
  /\ ScanIsModifiedClock

(* With the hand beyond the working set nothing is ever looked at.         *)
BeyondInv ==
  /\ Searching
  /\ lastClockIndex = hand0
  /\ pass \in {1, 3} => i >= WSMax

ClockInv ==
  /\ used0 \subseteq Slots /\ modified \subseteq Slots
  /\ hand0 \in 0 .. MaxHand
  /\ pass \in 1 .. 4
  /\ i \in Nat
  /\ hand0 > WSMax => BeyondInv
  /\ hand0 <= WSMax => IF Searching THEN SearchInv ELSE FoundInv

-----------------------------------------------------------------------------
(* The first slot going round is the one that FirstFrom chooses.           *)
LEMMA FirstIs ==
  ASSUME NEW hand \in 0 .. WSMax, NEW S \in SUBSET Slots, NEW s \in S,
         \A t \in S : Distance(WSMax, hand, s) <= Distance(WSMax, hand, t)
  PROVE  FirstFrom(WSMax, hand, S) = s
<1>1. \A t \in Slots : Distance(WSMax, hand, t) \in Int
  BY DEF Distance, Slots, SlotsOf
<1>2. \A t, u \in Slots : Distance(WSMax, hand, t) = Distance(WSMax, hand, u) => t = u
  BY DEF Distance, Slots, SlotsOf
<1> DEFINE IsFirst(t) == \A u \in S : Distance(WSMax, hand, t) <= Distance(WSMax, hand, u)
<1>3. \A t \in S : IsFirst(t) => t = s
  BY <1>1, <1>2
<1>4. FirstFrom(WSMax, hand, S) = CHOOSE t \in S : IsFirst(t)
  BY DEF FirstFrom
<1>5. IsFirst(s)
  OBVIOUS
<1> HIDE DEF IsFirst
<1> QED BY <1>3, <1>4, <1>5

(* What has been looked at is what comes before i, going round.            *)
LEMMA LookedIsBefore ==
  ASSUME ClockInv, hand0 <= WSMax, Searching, i < To(pass)
  PROVE  /\ i \in Slots
         /\ i \notin Looked
         /\ \A s \in Slots : s \in Looked
              <=> Distance(WSMax, hand0, s) < Distance(WSMax, hand0, i)
         /\ \A s \in Slots : Distance(WSMax, hand0, s) = Distance(WSMax, hand0, i) => s = i
BY DEF ClockInv, SearchInv, To, Looked, Slots, SlotsOf, Distance

LEMMA FindStep ==
  ASSUME ClockInv, Find
  PROVE  ClockInv'
<1> USE DEF ClockInv
<1>1. hand0 <= WSMax
  BY DEF Find, BeyondInv, isValidRange, To
<1>2. SearchInv /\ Searching /\ i < To(pass)
  BY <1>1 DEF Find
<1>3. /\ victim' = i /\ Wanted(i) /\ i \in Slots
      /\ UNCHANGED <<used0, hand0, modified, used, pass, i>>
  BY <1>1, <1>2, LookedIsBefore DEF Find, input
<1>4. i \in Best /\ Best \subseteq Slots /\ Best \intersect Looked = {}
  <2>1. i \notin Looked
    BY <1>1, <1>2, LookedIsBefore
  <2>2. CASE FirstRound /\ pass \in {1, 2}
    BY <1>3, <2>1, <2>2 DEF FirstRound, Wanted, Best, Clean, Slots
  <2>3. CASE FirstRound /\ pass \in {3, 4}
    <3>1. i \in Dirty(used0, modified) /\ Dirty(used0, modified) \intersect Looked = {}
      BY <1>3, <2>1, <2>3 DEF FirstRound, Wanted, Dirty
    <3>2. Best = Dirty(used0, modified)
      BY <2>3, <3>1 DEF FirstRound, Best
    <3> QED BY <3>1, <3>2 DEF Dirty
  <2>4. CASE SecondRound
    <3>1. Best = IF Slots \ modified # {} THEN Slots \ modified ELSE Slots
      BY <2>4 DEF SecondRound, Best
    <3>2. pass \in {1, 2} => Looked \subseteq modified /\ i \notin modified
      BY <1>3, <2>4 DEF SecondRound, Wanted
    <3>3. pass \in {3, 4} => Slots \ modified = {} /\ Looked = {}
      BY <2>4 DEF SecondRound
    <3>4. CASE pass \in {1, 2}
      <4>1. Best = Slots \ modified
        BY <1>3, <3>1, <3>2, <3>4
      <4> QED BY <1>3, <3>2, <3>4, <4>1
    <3>5. CASE pass \in {3, 4}
      <4>1. Best = Slots
        BY <3>1, <3>3, <3>5
      <4> QED BY <1>3, <3>3, <3>5, <4>1
    <3> QED BY <3>4, <3>5
  <2> QED BY <1>2, <2>2, <2>3, <2>4 DEF FirstRound, SearchInv
<1>5. \A s \in Best : Distance(WSMax, hand0, i) <= Distance(WSMax, hand0, s)
  <2>1. \A s \in Slots : Distance(WSMax, hand0, s) \in Int
    BY <1>1 DEF Distance, Slots, SlotsOf
  <2> QED BY <1>1, <1>2, <1>3, <1>4, <2>1, LookedIsBefore
<1>6. Victim(WSMax, hand0, used0, modified) = i
  <2>1. FirstFrom(WSMax, hand0, Best) = i
    BY <1>1, <1>4, <1>5, FirstIs
  <2> QED BY <2>1 DEF Victim, Best, Slots
<1>7. used = UsedAfter(WSMax, hand0, used0, modified)
  <2>1. CASE Clean(WSMax, used0, modified) # {}
    BY <1>2, <2>1 DEF SearchInv, FirstRound, SecondRound, UsedAfter
  <2>2. CASE Clean(WSMax, used0, modified) = {} /\ Dirty(used0, modified) # {}
    <3>1. used = used0 \ Looked
      BY <1>2, <1>3, <1>4, <2>2 DEF SearchInv, FirstRound, SecondRound, Wanted, Best, Dirty
    <3>2. i \notin used0
      BY <1>4, <2>2 DEF Best, Dirty
    <3>3. \A s \in used0 : s \notin Looked <=> Distance(WSMax, hand0, s) > Distance(WSMax, hand0, i)
      <4>1. \A s \in Slots : Distance(WSMax, hand0, s) \in Int
        BY <1>1 DEF Distance, Slots, SlotsOf
      <4> QED BY <1>1, <1>2, <1>3, <3>2, <4>1, LookedIsBefore
    <3> QED BY <1>6, <2>2, <3>1, <3>3 DEF UsedAfter
  <2>3. CASE Clean(WSMax, used0, modified) = {} /\ Dirty(used0, modified) = {}
    <3>1. used = {}
      BY <1>2, <1>3, <1>4, <2>3, LookedIsBefore, <1>1
         DEF SearchInv, FirstRound, SecondRound, Wanted, Clean, Dirty, Slots
    <3> QED BY <2>3, <3>1 DEF UsedAfter
  <2> QED BY <2>1, <2>2, <2>3
<1>8. FoundInv'
  <2>1. Best' = Best
    BY <1>3 DEF Best, Clean, Dirty
  <2> QED BY <1>3, <1>4, <1>6, <1>7, <2>1 DEF FoundInv, ScanIsModifiedClock
<1>9. ~Searching'
  BY <1>3 DEF Searching, Slots, SlotsOf
<1> QED BY <1>1, <1>3, <1>8, <1>9

LEMMA PassOverStep ==
  ASSUME ClockInv, PassOver
  PROVE  ClockInv'
<1> USE DEF ClockInv
<1>1. hand0 <= WSMax
  BY DEF PassOver, BeyondInv, isValidRange, To
<1>2. SearchInv /\ Searching /\ i < To(pass)
  BY <1>1 DEF PassOver
<1>3. /\ i' = i + 1 /\ ~Wanted(i) /\ i \in Slots
      /\ used' = IF pass \in {3, 4} THEN used \ {i} ELSE used
      /\ UNCHANGED <<used0, hand0, modified, lastClockIndex, pass, victim>>
  BY <1>1, <1>2, LookedIsBefore DEF PassOver, input
<1>4. Looked' = Looked \union {i}
  BY <1>1, <1>2, <1>3 DEF SearchInv, Looked, To
<1>5. i' \in (IF pass' \in {1, 3} THEN hand0' .. WSMax ELSE 0 .. hand0')
  BY <1>1, <1>2, <1>3 DEF SearchInv, To
<1>6. i \notin Looked
  BY <1>1, <1>2, LookedIsBefore
<1>7. FirstRound' \/ SecondRound'
  <2>1. CASE FirstRound /\ pass \in {1, 2}
    BY <1>3, <1>4, <2>1 DEF FirstRound, Wanted, Clean
  <2>2. CASE FirstRound /\ pass \in {3, 4}
    BY <1>3, <1>4, <1>6, <2>2 DEF FirstRound, Wanted, Clean, Dirty
  <2>3. CASE SecondRound
    BY <1>3, <1>4, <2>3 DEF SecondRound, Wanted, Clean, Dirty
  <2> QED BY <1>2, <2>1, <2>2, <2>3 DEF SearchInv, FirstRound
<1> QED BY <1>1, <1>2, <1>3, <1>5, <1>7 DEF SearchInv, Searching

LEMMA NextPassStep ==
  ASSUME ClockInv, NextPass
  PROVE  ClockInv'
<1> USE DEF ClockInv
<1>1. /\ pass' = IF pass = 4 THEN 1 ELSE pass + 1
      /\ i' = IF pass' \in {1, 3} THEN lastClockIndex ELSE 0
      /\ UNCHANGED <<used0, hand0, modified, used, lastClockIndex, victim>>
      /\ Searching
  BY DEF NextPass, From, input
<1>2. CASE hand0 > WSMax
  BY <1>1, <1>2 DEF BeyondInv, Searching
<1>3. CASE hand0 <= WSMax
  <2>1. SearchInv /\ i = To(pass)
    BY <1>1, <1>3 DEF SearchInv, NextPass, isValidRange, To
  <2>2. pass \in {1, 3} => Looked' = Looked
    BY <1>1, <1>3, <2>1 DEF SearchInv, Looked, To
  <2>3. pass \in {2, 4} => Looked = Slots /\ Looked' = {}
    <3> SUFFICES ASSUME pass \in {2, 4} PROVE Looked = Slots /\ Looked' = {}
      OBVIOUS
    <3>1. i = hand0 /\ pass' \in {1, 3} /\ i' = hand0 /\ hand0' = hand0
      BY <1>1, <2>1 DEF SearchInv, To
    <3>2. Looked = Slots
      <4>1. Looked = (hand0 .. WSMax-1) \union (0 .. hand0-1)
        BY <3>1 DEF Looked
      <4>2. Slots = 0 .. WSMax-1 /\ hand0 \in 0 .. WSMax
        BY <1>3 DEF Slots, SlotsOf
      <4> HIDE DEF Slots
      <4> QED BY <4>1, <4>2
    <3>3. Looked' = {}
      BY <3>1 DEF Looked
    <3> QED BY <3>2, <3>3
  <2>4. FirstRound' \/ SecondRound'
    <3>1. CASE FirstRound /\ pass \in {1, 3}
      BY <1>1, <2>2, <3>1 DEF FirstRound, Clean, Dirty
    <3>2. CASE FirstRound /\ pass = 2
      BY <1>1, <2>3, <3>2 DEF FirstRound, Clean, Dirty, Slots
    <3>3. CASE FirstRound /\ pass = 4
      BY <1>1, <2>3, <3>3 DEF FirstRound, SecondRound, Clean, Dirty, Slots
    <3>4. CASE SecondRound /\ pass \in {1, 3}
      BY <1>1, <2>2, <3>4 DEF SecondRound, Clean, Dirty, Slots
    <3>5. CASE SecondRound /\ pass \in {2, 4}
      BY <1>1, <2>3, <3>5 DEF SecondRound, Clean, Dirty, Slots, SlotsOf
    <3> QED BY <2>1, <3>1, <3>2, <3>3, <3>4, <3>5 DEF SearchInv
  <2>5. i' \in (IF pass' \in {1, 3} THEN hand0' .. WSMax ELSE 0 .. hand0')
    BY <1>1, <1>3, <2>1 DEF SearchInv
  <2> QED BY <1>1, <1>3, <2>1, <2>4, <2>5 DEF SearchInv, Searching
<1> QED BY <1>2, <1>3

LEMMA ClockInitInv == ClockInit => ClockInv
BY DEF ClockInit, ClockInv, BeyondInv, SearchInv, FirstRound, Looked, Searching, From, Slots

-----------------------------------------------------------------------------
(* The inductive invariant: what the passes have gone over holds no page   *)
(* of the class that is looked for.                                        *)
THEOREM PassesInvariant == ClockSpec => []ClockInv
<1>1. ClockInv /\ UNCHANGED clockVars => ClockInv'
  BY DEF ClockInv, clockVars, BeyondInv, SearchInv, FoundInv, FirstRound, SecondRound, Looked,
         Searching, ScanIsModifiedClock, Best, Clean, Dirty
<1>2. ClockInv /\ [ClockNext]_clockVars => ClockInv'
  BY <1>1, FindStep, PassOverStep, NextPassStep DEF ClockNext
<1> QED BY <1>2, ClockInitInv, PTL DEF ClockSpec

(* A search that ends has the victim and leaves the used bits that         *)
(* ModifiedClock says (trap.c:466-523).                                    *)
THEOREM ScanFindsItsVictim == ClockSpec => []ScanIsModifiedClock
<1>1. ClockInv => ScanIsModifiedClock
  BY DEF ClockInv, FoundInv, BeyondInv, ScanIsModifiedClock
<1> QED BY <1>1, PassesInvariant, PTL

(* No page is evicted while one that comes before it in the code's order   *)
(* of the used and modified bits is in the working set (trap.c:466-489,    *)
(* 507-523; not the order of the list in trap.c:493-506).                  *)
THEOREM NoBetterVictim == ClockSpec => []VictimIsOfBestClass
<1>1. ClockInv => VictimIsOfBestClass
  <2> SUFFICES ASSUME ClockInv, ~Searching, NEW s \in SlotsOf(WSMax)
               PROVE  Class(victim) <= Class(s)
    BY DEF VictimIsOfBestClass
  <2>1. victim \in Best
    BY DEF ClockInv, BeyondInv, FoundInv
  <2> QED BY <2>1 DEF Best, Clean, Dirty, Slots, Class
<1> QED BY <1>1, PassesInvariant, PTL

(* With the hand beyond the working set the loops never end.               *)
THEOREM ForeignHandFindsNothing == ClockSpec => [](hand0 > WSMax => Searching)
<1>1. ClockInv => (hand0 > WSMax => Searching)
  BY DEF ClockInv, BeyondInv
<1> QED BY <1>1, PassesInvariant, PTL

=============================================================================
