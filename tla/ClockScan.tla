----------------------------- MODULE ClockScan -----------------------------
(***************************************************************************)
(* The loops of modifiedClock and getVictimIndex (trap.c), one slot of the *)
(* working set per step, on a full working set with any used and modified  *)
(* bits.  The clock hand, lastClockIndex, is one variable for all          *)
(* environments, so it may have any value another environment leaves.      *)
(***************************************************************************)
EXTENDS ModifiedClock

CONSTANTS
  WSMax,      \* page_WS_max_size of the environment that faults
  MaxHand     \* the largest value another environment may leave in the hand

ASSUME MaxAssumption == WSMax \in Nat \ {0} /\ MaxHand \in Nat

VARIABLES
  used0, hand0,   \* the used bits and the hand the search started with
  used, modified, \* the bits of the page in each slot
  lastClockIndex, \* the hand
  pass,           \* 1, 2: try1 from the hand on, then up to it; 3, 4: try2
  i,              \* the slot the pass looks at
  victim          \* the slot found, -1 before

input     == <<used0, hand0, modified>>
clockVars == <<used0, hand0, used, modified, lastClockIndex, pass, i, victim>>

From(p) == IF p \in {1, 3} THEN lastClockIndex ELSE 0
To(p)   == IF p \in {1, 3} THEN WSMax ELSE lastClockIndex

ClockInit ==
  /\ used0 \in SUBSET SlotsOf(WSMax)
  /\ modified \in SUBSET SlotsOf(WSMax)
  /\ hand0 \in 0 .. MaxHand
  /\ used = used0
  /\ lastClockIndex = hand0
  /\ pass = 1
  /\ i = From(1)
  /\ victim = -1

(* isValidRange is true of a range that is NOT valid.                      *)
isValidRange(p) == To(p) > WSMax

Searching == victim = -1

(* Fault: try1 takes modified pages as well.                               *)
WantedUnused(s) == s \notin used

Wanted(s) == s \notin used /\ (s \in modified <=> pass \in {3, 4})

(* The pass finds its victim.                                              *)
Find ==
  /\ Searching
  /\ ~isValidRange(pass) /\ i < To(pass)
  /\ Wanted(i)
  /\ victim' = i
  /\ lastClockIndex' = i + 1
  /\ UNCHANGED <<input, used, pass, i>>

(* Faults: the used bits are cleared by no pass, or by every pass.         *)
PassOverClearsNothing ==
  /\ Searching
  /\ ~isValidRange(pass) /\ i < To(pass)
  /\ ~Wanted(i)
  /\ i' = i + 1
  /\ UNCHANGED <<input, used, lastClockIndex, pass, victim>>

PassOverClearsAlways ==
  /\ Searching
  /\ ~isValidRange(pass) /\ i < To(pass)
  /\ ~Wanted(i)
  /\ used' = used \ {i}
  /\ i' = i + 1
  /\ UNCHANGED <<input, lastClockIndex, pass, victim>>

(* The pass goes on to the next slot; try2 clears the used bit.            *)
PassOver ==
  /\ Searching
  /\ ~isValidRange(pass) /\ i < To(pass)
  /\ ~Wanted(i)
  /\ used' = IF pass \in {3, 4} THEN used \ {i} ELSE used
  /\ i' = i + 1
  /\ UNCHANGED <<input, lastClockIndex, pass, victim>>

(* The pass returns -1, at once if its range is not valid; after the       *)
(* fourth the while loop starts again.                                     *)
NextPass ==
  /\ Searching
  /\ isValidRange(pass) \/ i >= To(pass)
  /\ pass' = IF pass = 4 THEN 1 ELSE pass + 1
  /\ i' = From(pass')
  /\ UNCHANGED <<input, used, lastClockIndex, victim>>

ClockNext == Find \/ PassOver \/ NextPass

(* The handler runs with interrupts off: nothing stops its loops.          *)
ClockSpec == ClockInit /\ [][ClockNext]_clockVars /\ WF_clockVars(ClockNext)

-----------------------------------------------------------------------------
(* The passes choose the victim of ModifiedClock and leave the used bits   *)
(* it says: the two ranges of a pass make one trip round the working set,  *)
(* and the second round sees the bits the first one cleared                *)
(* (trap.c:466-523).                                                       *)
ScanIsModifiedClock ==
  ~Searching => /\ victim = Victim(WSMax, hand0, used0, modified)
                /\ used = UsedAfter(WSMax, hand0, used0, modified)

(* The order in which the passes prefer pages by the used and modified     *)
(* bits they had at the fault: (0,0), (0,1), (1,0), (1,1).  The second pass*)
(* takes a page that is modified and not used before the second round, in  *)
(* which the used bits are cleared, takes one that was used and is not     *)
(* modified.  The list in trap.c:493-506 has these two the other way round;*)
(* with "BEST candidate: (0, 0)" the code agrees.                          *)
Class(s) == (IF s \in used0 THEN 2 ELSE 0) + (IF s \in modified THEN 1 ELSE 0)

(* No page is evicted while one that the code prefers is in the working    *)
(* set, wherever the hand of another environment stands and although bits  *)
(* are cleared on the way (trap.c:466-489, 507-523).                       *)
VictimIsOfBestClass ==
  ~Searching => \A s \in SlotsOf(WSMax) : Class(victim) <= Class(s)

(* A search ends exactly if the hand lies inside the working set or at its *)
(* end: then the used bits are cleared on the first round, so a second one *)
(* finds a victim.  A hand beyond it, left by an environment with a larger *)
(* working set, makes every range of every pass invalid or empty.          *)
(* WorkingSet relies on both directions when it takes the search as one    *)
(* step or as one that never ends (trap.c:449-468, 507-523).               *)
ClockSearchEnds ==
  /\ hand0 <= WSMax ~> ~Searching
  /\ [](hand0 > WSMax => Searching)
=============================================================================
