--------------------------- MODULE MCKernelTables ---------------------------
(***************************************************************************)
(* Two tables of two pages and other blocks in a kernel heap of three      *)
(* pages, with five frames.                                                *)
(***************************************************************************)
EXTENDS KernelTables, TLC

Symmetry == Permutations(Frames) \union Permutations(Entries) \union Permutations(Slots)
=============================================================================
