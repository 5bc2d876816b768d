----------------------------- MODULE AbsMemory -----------------------------
(***************************************************************************)
(* What virtual memory promises a program: every page of an environment    *)
(* has one content, which changes only when the program writes it, when a  *)
(* stack page is touched for the first time, and when heap pages are       *)
(* allocated and freed.  Frames, working sets and the page file do not     *)
(* appear: that pages are moved between them must not show.                *)
(***************************************************************************)
CONSTANTS Env, Pages, Heap, Stack, Data,
          Image, Zero, Junk,   \* contents: of the program file, cleared, unspecified
          Absent               \* the page does not exist

VARIABLE value      \* the content of every page of every environment

Contents == Data \cup {Image, Zero, Junk}

Init == value = [e \in Env |-> [p \in Pages |-> IF p \in Heap \cup Stack THEN Absent ELSE Image]]

Write(e, p, d) ==
  /\ value[e][p] # Absent
  /\ value' = [value EXCEPT ![e][p] = d]

GrowStack(e, p) ==
  /\ value[e][p] = Absent
  /\ value' = [value EXCEPT ![e][p] = Junk]

SetAll(e, R, c) ==
  value' = [value EXCEPT ![e] = [p \in Pages |-> IF p \in R THEN c ELSE @[p]]]

Allocate(e, R) == /\ \A p \in R : value[e][p] = Absent
                  /\ SetAll(e, R, Zero)

Free(e, R) == SetAll(e, R, Absent)

Next == \E e \in Env :
  \/ \E p \in Pages, d \in Data : Write(e, p, d)
  \/ \E p \in Stack : GrowStack(e, p)
  \/ \E R \in SUBSET Heap : Allocate(e, R) \/ Free(e, R)

Spec == Init /\ [][Next]_value
=============================================================================
