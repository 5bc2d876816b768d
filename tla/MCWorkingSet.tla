---------------------------- MODULE MCWorkingSet ----------------------------
(***************************************************************************)
(* Small processes, in two shapes.                                         *)
(***************************************************************************)
EXTENDS WorkingSet, TLC

CONSTANTS e1, e2

(* Page 1 is the stack, 2 and 3 are a heap with a page table of its own.   *)
HeapPages   == 1 .. 3
HeapHeap    == {2, 3}
HeapStack   == {1}
HeapTableOf == <<"low", "heap", "heap">>

(* Page 1 belongs to the program, 2 is the heap and 3 the stack.           *)
ProgramPages   == 1 .. 3
ProgramHeap    == {2}
ProgramStack   == {3}
ProgramTableOf == <<"all", "all", "all">>

(* Two processes whose working sets differ by one page, and by two.        *)
TwoAndOne   == (e1 :> 2) @@ (e2 :> 1)
ThreeAndOne == (e1 :> 3) @@ (e2 :> 1)
=============================================================================
