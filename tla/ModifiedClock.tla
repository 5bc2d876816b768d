--------------------------- MODULE ModifiedClock ---------------------------
(***************************************************************************)
(* The victim modifiedClock (trap.c) chooses in a full working set, as a   *)
(* function of the clock hand and of the two bits of the pages.  ClockScan *)
(* has the passes that find it and checks that the two agree.              *)
(*                                                                         *)
(* max is page_WS_max_size; the slots are 0 .. max-1, used and modified    *)
(* the sets of slots whose page has PERM_USED and PERM_MODIFIED.  The hand *)
(* is at most max.                                                         *)
(***************************************************************************)
EXTENDS Integers

SlotsOf(max) == 0 .. max-1

(* How many slots after the hand a slot comes, going round.                *)
Distance(max, hand, i) == IF i >= hand THEN i - hand ELSE i - hand + max

FirstFrom(max, hand, S) ==
  CHOOSE i \in S : \A j \in S : Distance(max, hand, i) <= Distance(max, hand, j)

Clean(max, used, modified) == SlotsOf(max) \ (used \cup modified)
Dirty(used, modified)      == modified \ used

(* The first pass looks for a page neither used nor modified, the second   *)
(* for one not used but modified.  If both fail the second has cleared     *)
(* every used bit, and the same two passes find what was unmodified first. *)
Victim(max, hand, used, modified) ==
  FirstFrom(max, hand,
    IF Clean(max, used, modified) # {} THEN Clean(max, used, modified)
    ELSE IF Dirty(used, modified) # {} THEN Dirty(used, modified)
    ELSE IF SlotsOf(max) \ modified # {} THEN SlotsOf(max) \ modified
    ELSE SlotsOf(max))

(* The second pass clears the used bit of every page it passes over.       *)
UsedAfter(max, hand, used, modified) ==
  IF Clean(max, used, modified) # {} THEN used
  ELSE IF Dirty(used, modified) # {}
    THEN {i \in used : Distance(max, hand, i)
                         > Distance(max, hand, Victim(max, hand, used, modified))}
  ELSE {}

=============================================================================
