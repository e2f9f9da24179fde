SPECIFICATION Spec
CONSTANTS
  Threads = {t1, t2}
  Decoders = {d1, d2}
  Arrays = {a1}
  NoArray = NoArray
  NoDecoder = NoDecoder
  FrameCount = 2
  MaxResets = 1
  Damaged = TRUE
SYMMETRY Symmetry
INVARIANTS TypeOK LifetimeExact ParsesPinnedInput FaultsGuarded
CHECK_DEADLOCK FALSE
