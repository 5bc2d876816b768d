---------------------------- MODULE MCLabPaging ----------------------------
(***************************************************************************)
(* The lab kernel's paging on both sides of the border between a page      *)
(* table of the boot and one that the commands create, with one page of    *)
(* the environment and fewer frames than all of them could use.            *)
(***************************************************************************)
EXTENDS LabPaging, TLC

MCPages == [kernel |-> 3 .. 6, env |-> {0}]

(* The frames are interchangeable, except the first.                       *)
FrameSymmetry == Permutations(Frames \ {Frame0})
=============================================================================
