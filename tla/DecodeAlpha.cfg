SPECIFICATION Spec
CONSTANTS
  Platforms = {"jvm"}
  Threads = {t1, t2}
  Frames = {f1, f2}
  MaxSide = 2
  Paddings = {0, 1}
  UIntValues = 64
  MaxLost = 2
SYMMETRY Symmetry
INVARIANTS AlphaAsDeclared
CHECK_DEADLOCK FALSE
