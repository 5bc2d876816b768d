----------------------------- MODULE Placement -----------------------------
(***************************************************************************)
(* Where the kernel heap puts a block: the placement searches of kheap.c   *)
(* as functions of the set of free pages.                                  *)
(*                                                                         *)
(* The heap [KERNEL_HEAP_START, KERNEL_HEAP_MAX) is the pages 0 .. N-1;    *)
(* addresses and sizes are counted in pages, because kmalloc rounds every  *)
(* size up to PAGE_SIZE before it searches.  The address 0 that a search   *)
(* returns for "not found" is Null.                                        *)
(*                                                                         *)
(* The definitions say WHICH block a search finds; PlacementScan has the   *)
(* loops that find it and checks that the two agree.                       *)
(***************************************************************************)
EXTENDS Integers, FiniteSetsExt

CONSTANT N          \* pages of the kernel heap

ASSUME NAssumption == N \in Nat \ {0}

Pages == 0 .. N-1
Null  == -1

Window(s, n) == s .. s+n-1

(* The lowest n free pages in a row inside [from, to).  A request of zero  *)
(* pages is never found: the scan compares the length it has seen with n   *)
(* only after it has counted one page.                                     *)
getStartAddress(empty, from, to, n) ==
  LET fits == {s \in from .. to-n : Window(s, n) \subseteq empty}
  IN  IF n = 0 \/ fits = {} THEN Null ELSE Min(fits)

(* From the rover to the end of the heap, then from the start of the heap  *)
(* to the rover.  The two ranges are searched apart.                       *)
nextFit(empty, last, n) ==
  LET ahead == getStartAddress(empty, last, N, n)
  IN  IF ahead # Null THEN ahead ELSE getStartAddress(empty, 0, last, n)

(* The holes of the heap: maximal runs of free pages, as <<first, last>>.  *)
Holes(empty) ==
  {h \in Pages \X Pages : /\ h[1] <= h[2]
                          /\ h[1] .. h[2] \subseteq empty
                          /\ h[1] - 1 \notin empty
                          /\ h[2] + 1 \notin empty}

Length(h) == h[2] - h[1] + 1

(* The hole that reaches the end of the heap has at least n pages.  This,  *)
(* and not the hole chosen, is what bestFit's last line tests: "block" is  *)
(* whatever the scan of the last page left in it, -1 pages if that page is *)
(* in use.                                                                 *)
TailFits(empty, n) ==
  /\ n <= N
  /\ N-1 \in empty
  /\ Window(N-n, n) \subseteq empty

(* The first of the smallest holes that are large enough.                  *)
bestFit(empty, n) ==
  LET fits == {h \in Holes(empty) : Length(h) >= n}
      size == Min({Length(h) : h \in fits})
  IN  IF TailFits(empty, n)
        THEN Min({h[1] : h \in {g \in fits : Length(g) = size}})
        ELSE Null

=============================================================================
