SPECIFICATION Spec
CONSTANTS
  e1 = e1
  e2 = e2
  Env = {e1, e2}
  Pages <- ProgramPages
  Heap <- ProgramHeap
  Stack <- ProgramStack
  TableOf <- ProgramTableOf
  WSMax <- ThreeAndOne
  NFrames = 5
  PageFileSize = 4
  Algorithms = {"MODIFIEDCLOCK", "LRU"}
  Data = {d1}
  Image = image
  Zero = zero
  Junk = junk
  Absent = absent
  NoPage = 0
\* The machine stops at a panic.
CHECK_DEADLOCK FALSE
INVARIANT FramesAccountedFor

