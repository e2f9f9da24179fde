SPECIFICATION Spec
CONSTANTS
  Platforms = {"android", "jvm", "native"}
  Threads = {t1, t2}
  Frames = {f1, f2}
  MaxSide = 2
  Paddings = {0, 1}
  UIntValues = 64
  MaxLost = 2
SYMMETRY Symmetry
INVARIANTS TypeOK DecodedExact FaultsExplained MemoryHolds LocksBalanced BuffersAccounted
CHECK_DEADLOCK FALSE
