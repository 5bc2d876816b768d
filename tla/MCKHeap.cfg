SPECIFICATION Spec
CONSTANTS
  N = 5
  Frames = {f1, f2, f3, f4}
  NoFrame = NoFrame
SYMMETRY FrameSymmetry
INVARIANTS
  BlocksAreContiguous
  FramesAccountedFor
  RoundTripBelowRover
PROPERTIES
  LiveBlocksUndisturbed
  AbsSpec
