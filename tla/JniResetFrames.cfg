SPECIFICATION Spec
CONSTANTS
  Threads = {t1, t2}
  Decoders = {d1}
  Arrays = {a1}
  NoArray = NoArray
  NoDecoder = NoDecoder
  FrameCount = 2
  MaxResets = 1
  Damaged = TRUE
  Platform = "jvm"
  Promises <- DocumentedContract
INVARIANTS FramesValid
CHECK_DEADLOCK FALSE
