SPECIFICATION Spec
CONSTANT N = 6
\* A search ends when it returns.
CHECK_DEADLOCK FALSE
INVARIANTS
  NextFitScanIsNextFit
  BestFitScanIsBestFit
PROPERTY SearchEnds
