SPECIFICATION Spec
CONSTANTS
  Threads = {t1, t2}
  Decoders = {d1, d2}
  Arrays = {a1}
  NoArray = NoArray
  NoDecoder = NoDecoder
  FrameCount = 2
  MaxResets = 1
  Damaged = TRUE
  Platform = "android"
  Promises <- AndroidContract
SYMMETRY Symmetry
INVARIANTS NoFault
CHECK_DEADLOCK FALSE
