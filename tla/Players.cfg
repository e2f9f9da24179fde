SPECIFICATION PSpec
CONSTANTS
  Threads = {anime, still}
  Anime = {anime}
  Decoders = {d1, d2}
  Arrays = {a1, a2}
  NoArray = NoArray
  NoDecoder = NoDecoder
  FrameCount = 2
  MaxResets = 0
  Damaged = TRUE
  Instant = {0}
  Platform = "android"
  Promises = {}
SYMMETRY Heap
INVARIANTS PTypeOK NoDecoderLeft ScreenConsistent OnlyInputFaults
PROPERTIES ShowsInOrder CorrectCaller
CHECK_DEADLOCK FALSE
