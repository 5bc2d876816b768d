SPECIFICATION ClockSpec
CONSTANTS
  WSMax = 4
  MaxHand = 6
\* A search ends when it has found its victim.
CHECK_DEADLOCK FALSE
INVARIANTS
  ScanIsModifiedClock
  VictimIsOfBestClass
PROPERTY ClockSearchEnds
