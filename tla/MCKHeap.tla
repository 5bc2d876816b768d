------------------------------ MODULE MCKHeap ------------------------------
(***************************************************************************)
(* The kernel heap with few pages and fewer frames, so that allocations    *)
(* run out of address space as well as of frames.                          *)
(***************************************************************************)
EXTENDS KHeap, TLC

(* The frames are interchangeable: only which page has which matters.      *)
FrameSymmetry == Permutations(Frames)
=============================================================================
