SPECIFICATION Spec
CONSTANTS
  e1 = e1
  e2 = e2
  Env = {e1, e2}
  Pages <- HeapPages
  Heap <- HeapHeap
  Stack <- HeapStack
  TableOf <- HeapTableOf
  WSMax <- TwoAndOne
  NFrames = 5
  PageFileSize = 3
  Algorithms = {"MODIFIEDCLOCK"}
  Data = {d1}
  Image = image
  Zero = zero
  Junk = junk
  Absent = absent
  NoPage = 0
\* The machine stops at a panic.
CHECK_DEADLOCK FALSE
INVARIANTS
  WorkingSetIsMemory
  MemoryBacked
PROPERTY AbsSpec
