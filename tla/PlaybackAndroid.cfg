SPECIFICATION PSpec
CONSTANTS
  Threads = {anime}
  Anime = {anime}
  Decoders = {d1}
  Arrays = {a1}
  NoArray = NoArray
  NoDecoder = NoDecoder
  FrameCount = 2
  MaxResets = 0
  Damaged = FALSE
  Instant = {}
  Platform = "android"
  Promises = {}
INVARIANTS InputValid
CHECK_DEADLOCK FALSE
